----------------------------- MODULE HttpExchange -----------------------------
(***************************************************************************)
(* One HTTP exchange (http_conn.c) as the handlers of http_server.c drive    *)
(* it: a request taken from a receive ring, an answer put into a send ring,  *)
(* whichever pieces the transport delivers and accepts. Bytes are counted in *)
(* units; what a request or an answer says is left out, and with it the      *)
(* parser's reading of lines and headers. The operators are pure: a step of  *)
(* an exchange is a set of the records it may become.                        *)
(*                                                                         *)
(* An exchange is [phase, head: units of the request's head to come, route,  *)
(* body: units of the body to come, wait: units of work before the answer is *)
(* known, rx and tx: units in the rings, left: units of the answer not yet   *)
(* in tx, stream: whether they come from fill(), eof, failed, consumed:      *)
(* whether rx was read since the transport last asked, fs: whether it holds  *)
(* the filesystem].                                                        *)
(***************************************************************************)
EXTENDS Naturals, FiniteSetsExt

CONSTANTS HeadUnits,   \* units of a request's head
          MaxBody,     \* the longest body
          MaxAnswer,   \* the longest answer, after its head
          MaxWait,     \* the most units a log takes to be counted
          RxCap, TxCap \* units the two rings hold

\* An answer is a unit at least: a refusal is.
ASSUME SizesAssumption == /\ {HeadUnits, RxCap, TxCap, MaxAnswer} \subseteq Nat \ {0}
                          /\ {MaxBody, MaxWait} \subseteq Nat

Phases == {"HEAD", "BODY", "APPLY", "SEND", "DONE"}
Routes == {"none", "file", "status", "flog", "post"}

Exchange == [phase : Phases, head : 0 .. HeadUnits, route : Routes, body : 0 .. MaxBody, wait : 0 .. MaxWait,
             rx : 0 .. RxCap, tx : 0 .. TxCap, left : 0 .. MaxAnswer, stream : BOOLEAN,
             eof : BOOLEAN, failed : BOOLEAN, consumed : BOOLEAN, fs : BOOLEAN]

\* http_conn_init() and conn_bind().
Fresh == [phase |-> "HEAD", head |-> HeadUnits, route |-> "none", body |-> 0, wait |-> 0,
          rx |-> 0, tx |-> 0, left |-> 0, stream |-> FALSE,
          eof |-> FALSE, failed |-> FALSE, consumed |-> FALSE, fs |-> FALSE]

Responded(x) == x.phase \in {"SEND", "DONE"}

\* begin_response() and respond(): the answer's head goes into tx, and of n
\* units that are at hand as many as fit. What the request was is done with.
Respond(x, n, streamed) ==
  LET k == IF streamed THEN 0 ELSE Min({n, TxCap - 1 - x.tx})
      y == [x EXCEPT !.phase = "SEND", !.stream = streamed, !.route = "none", !.head = 0, !.body = 0, !.wait = 0]
  IN  IF x.tx = TxCap THEN [y EXCEPT !.failed = TRUE]
      ELSE [y EXCEPT !.tx = @ + 1 + k, !.left = n - k]

Answers(x, streamed) == {Respond(x, n, streamed) : n \in 0 .. MaxAnswer}

\* An answer of one unit, which every refusal is.
Refuse(x) == Respond(x, 1, FALSE)

\* A request that waits for its body, which a GET may have too.
Awaits(x, route) == {[x EXCEPT !.phase = "BODY", !.route = route, !.body = b] : b \in 0 .. MaxBody}

\* end_of_head(): a POST may be told to go on, by a unit of its own.
Invited(X) == X \cup {[x EXCEPT !.tx = @ + 1] : x \in {y \in X : y.body > 0 /\ y.tx < TxCap}}

\* on_head(): the routes, by what they do to the exchange. One that needs the
\* filesystem is refused while the flight log has it (fs_take()).
Routed(x, locked) ==
  LET held == [x EXCEPT !.fs = TRUE] IN
    Answers(x, FALSE) \cup Awaits(x, "status") \cup Invited(Awaits(x, "post"))
    \cup (IF locked THEN {Refuse(x)}
          ELSE UNION { Answers([held EXCEPT !.route = "file"], TRUE),
                       {Refuse(held)},
                       UNION {Awaits([held EXCEPT !.wait = w], "flog") : w \in 0 .. MaxWait},
                       Invited(Awaits(held, "post")) })

\* parse_head(): what is in rx, to the end of the head at most.
Parsed(x, locked) ==
  LET n == Min({x.rx, x.head})
      y == [x EXCEPT !.head = @ - n, !.rx = @ - n, !.consumed = @ \/ n > 0]
  IN  CASE x.phase # "HEAD"             -> {x}
        [] x.phase = "HEAD" /\ y.head = 0 -> Routed(y, locked)
        [] OTHER -> IF ~(y.eof /\ y.rx = 0) THEN {y, Refuse(y)}
                    ELSE IF y.head = HeadUnits THEN {[y EXCEPT !.phase = "DONE"]}
                    ELSE {Refuse(y)}

\* take_body(): on to on_complete() with the last of it. A write a handler
\* could not make is answered mid-body (upload_body(), ota_body()).
Taken(x) ==
  LET n == Min({x.rx, x.body})
      y == [x EXCEPT !.body = @ - n, !.rx = @ - n, !.consumed = @ \/ n > 0]
  IN  IF x.phase # "BODY" THEN {x}
      ELSE IF y.body = 0 THEN {[y EXCEPT !.phase = "APPLY"]}
           ELSE IF y.eof /\ y.rx = 0 THEN {Refuse(y)}
           ELSE {y} \cup (IF n > 0 THEN {Refuse(y)} ELSE {})

\* on_complete(): a status waits for its unit, a log is counted a unit at a
\* time and then streamed, the rest answer.
Applied(x) ==
  CASE x.phase # "APPLY" \/ x.route = "status" -> {x}
    [] x.phase = "APPLY" /\ x.route = "flog"   -> IF x.wait > 0 THEN {[x EXCEPT !.wait = @ - 1]} ELSE Answers(x, TRUE)
    [] OTHER                                 -> Answers(x, FALSE)

\* pump(): as much of the answer as tx has room for; fill() may stop short of
\* what was promised. The answer all in tx, the exchange is done.
Pumped(x) ==
  LET k == Min({x.left, TxCap - x.tx})
      put(j) == [x EXCEPT !.tx = @ + j, !.left = @ - j]
      done(y) == IF y.phase = "SEND" /\ ~y.failed /\ y.left = 0 THEN [y EXCEPT !.phase = "DONE"] ELSE y
  IN  IF ~Responded(x) \/ x.failed THEN {x}
      ELSE {done(put(k))}
           \cup (IF x.stream THEN {[put(j) EXCEPT !.failed = TRUE] : j \in 0 .. k - 1} ELSE {})

\* http_conn_service(): the whole of it, in the one call.
Serviced(x, locked) ==
  UNION {Pumped(w) : w \in UNION {Applied(z) : z \in UNION {Taken(y) : y \in Parsed(x, locked)}}}

\* unit_status().
StatusRendered(x) == IF Responded(x) THEN {x} ELSE Answers(x, FALSE)

\* http_conn_wants_service().
WantsService(x) ==
  /\ ~x.failed
  /\ \/ x.phase = "HEAD" /\ (x.rx > 0 \/ x.eof)
     \/ x.phase = "BODY" /\ (x.rx > 0 \/ x.eof \/ x.body = 0)
     \/ x.phase = "APPLY"
     \/ x.phase = "SEND" /\ (x.left = 0 \/ x.tx < TxCap)

\* more_to_come().
MoreToCome(x) == x.phase = "SEND" /\ x.left > 0
================================================================================
