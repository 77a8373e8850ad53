------------------------------ MODULE ThConnection ------------------------------
(***************************************************************************)
(* A connection from its first request to its last frame: the exchange of  *)
(* requests and answers (ThExchange) until a handshake is answered with    *)
(* 101, then the WebSocket (ThWsData) on the same TCP connection.          *)
(***************************************************************************)
EXTENDS ThExchange, ThWsData

connVars == <<exchangeVars, wsDataVars>>

(* A client has frames to send if it asks for a WebSocket, no file then.   *)
ConnInit ==
  /\ ExchangeInit
  /\ WsInit
  /\ frames # <<>> <=> Setups[setup].ws
  /\ Setups[setup].ws => fileLen = 0

Exchanges == ExchangeNext /\ UNCHANGED wsDataVars

(* th_ws_start comes with the last step of the exchange.                   *)
Talks == stage = "upgraded" /\ WsNext /\ UNCHANGED exchangeVars

ConnNext == Exchanges \/ Talks

(* The loop runs what is due, and the socket of a client that goes on      *)
(* reading becomes writable again.  Reads may fail to come for ever.       *)
Progress ==
  \/ Sends /\ UNCHANGED wsDataVars
  \/ stage = "upgraded" /\ (Consume \/ WsSend) /\ UNCHANGED exchangeVars

ConnSpec == ConnInit /\ [][ConnNext]_connVars /\ WF_connVars(Progress)

(* What is to be sent comes to its end: an answer, unless its file has     *)
(* become shorter than it was when it was opened (then the operation is    *)
(* attempted for ever), and the frames of a WebSocket that lives.          *)
OutputEnds ==
  stage = "writing" \/ sending ~>
    /\ stage # "writing" \/ (answer.file /\ fileLen < answer.len)
    /\ ~sending \/ wsEnd # "" \/ wsPc = "undefined"
=============================================================================
