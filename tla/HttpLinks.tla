------------------------------- MODULE HttpLinks -------------------------------
(***************************************************************************)
(* The web server's links and exchanges (http_transport.c, http_work.c and   *)
(* the exchange pool of http_server.c). A peer that connects takes a link;   *)
(* fewer exchanges than links are lent out, in the order the peers           *)
(* connected. The net task does it all, over and over: the stack takes the   *)
(* frames that came (the peers' actions, here), the transport passes over    *)
(* the links, free exchanges are attached, and a few units of work are run,  *)
(* one exchange after another in turn (net_task()).                          *)
(*                                                                         *)
(* TCP is the vendored stack's, modelled from the callbacks the transport    *)
(* gives it: bytes sent arrive in order, one segment is in flight and is     *)
(* sent again when its acknowledgement is lost, and a FIN is put behind what *)
(* tx_queued() shows when the link is closed. A time-out may come at any pass before      *)
(* which no byte moved.                                                    *)
(*                                                                         *)
(* Left out: http_work_claim() and http_work_run(), the hand-over to another *)
(* task that nothing calls, and with it the held exchanges; the counters.    *)
(***************************************************************************)
EXTENDS HttpExchange, Sequences, SequencesExt

CONSTANTS NLinks, NExchanges, \* links, and the exchanges lent to them
          Mss,                \* units in a segment
          UnitsPerPass        \* units of work between two passes

ASSUME LinksAssumption == {NLinks, NExchanges, Mss, UnitsPerPass} \subseteq Nat \ {0}

Links == 1 .. NLinks
Exchanges == 1 .. NExchanges
None == 0

\* Where the net task is: taking frames, at a link of the pass, after it.
AtNet == 0
AtAttach == NLinks + 1
AtWork == NLinks + 2

VARIABLES
  tcp,     \* the stack's state of each link
  link,    \* the transport's
  waiting, \* the links connected and without an exchange, oldest first
  ex,      \* the exchanges
  lent,    \* which of them are lent to a link
  pending, \* which have a unit waiting to be run
  turn,    \* the exchange whose turn it is
  pc,      \* where the net task is
  units,   \* units it has run since the pass
  locked,  \* the flight log has the filesystem
  since    \* units run on its files since it took it (for LogGetsFiles)

vars == <<tcp, link, waiting, ex, lent, pending, turn, pc, units, locked, since>>

Listening == [phase |-> "listening", closing |-> FALSE, flight |-> 0, x |-> None,
              fin |-> 0, moved |-> FALSE]

TypeOK ==
  /\ tcp \in [Links -> {"listen", "open", "peer_closed", "fin", "closed"}]
  /\ link \in [Links -> [phase : {"listening", "waiting", "bound", "draining"}, closing : BOOLEAN,
                         flight : 0 .. Mss, x : Exchanges \cup {None}, fin : 0 .. TxCap, moved : BOOLEAN]]
  /\ waiting \in Seq(Links)
  /\ ex \in [Exchanges -> Exchange]
  /\ lent \in [Exchanges -> BOOLEAN]
  /\ pending \in [Exchanges -> BOOLEAN]
  /\ turn \in Exchanges
  /\ pc \in AtNet .. AtWork
  /\ units \in 0 .. UnitsPerPass
  /\ locked \in BOOLEAN
  /\ since \in 0 .. UnitsPerPass + 1

Init ==
  /\ tcp = [l \in Links |-> "listen"]
  /\ link = [l \in Links |-> Listening]
  /\ waiting = <<>>
  /\ ex = [e \in Exchanges |-> Fresh]
  /\ lent = [e \in Exchanges |-> FALSE]
  /\ pending = [e \in Exchanges |-> FALSE]
  /\ turn = 1
  /\ pc = AtNet
  /\ units = 0
  /\ locked = FALSE
  /\ since = 0

\* peer_is_there().
Connected(l) == tcp[l] \in {"open", "peer_closed"}

Bound(l) == link[l].phase = "bound"

\* link_carries().
Carries(l) == Bound(l) /\ ~link[l].closing

\* tx_queued(): the one segment the stack is shown, or the one in flight.
Shown(l, x) ==
  IF link[l].flight > 0 THEN link[l].flight
  ELSE IF x.tx < Mss /\ MoreToCome(x) THEN 0
  ELSE Min({x.tx, Mss})

--------------------------------------------------------------------------------
(* The peers and the stack, while the net task takes the frames received.  *)

Taking == pc = AtNet /\ UNCHANGED <<waiting, lent, pending, turn, pc, units, locked, since>>

\* on_event(): a note that something came.
Moved(l) == link' = [link EXCEPT ![l].moved = TRUE]

Connect(l) ==
  /\ Taking
  /\ tcp[l] = "listen"
  /\ tcp' = [tcp EXCEPT ![l] = "open"]
  /\ Moved(l)
  /\ UNCHANGED ex

\* rx_deliver(): into the exchange's ring while it has room; a link that is
\* closing throws it away, and one that waits takes none (a window probe).
PeerSends(l) ==
  /\ Taking
  /\ tcp[l] \in {"open", "fin"}
  /\ Moved(l)
  /\ ex' = IF Carries(l) /\ ex[link[l].x].rx < RxCap THEN [ex EXCEPT ![link[l].x].rx = @ + 1] ELSE ex
  /\ UNCHANGED tcp

PeerCloses(l) ==
  /\ Taking
  /\ tcp[l] = "open"
  /\ tcp' = [tcp EXCEPT ![l] = "peer_closed"]
  /\ Moved(l)
  /\ UNCHANGED ex

\* The peer resets, or the stack has sent a segment too many times.
Dropped(l) ==
  /\ Taking
  /\ tcp[l] \in {"open", "peer_closed", "fin"}
  /\ tcp' = [tcp EXCEPT ![l] = "closed"]
  /\ Moved(l)
  /\ UNCHANGED ex

\* tx_ack(): of a segment sent again longer than before, a part.
PeerAcks(l) ==
  /\ Taking
  /\ tcp[l] \in {"open", "peer_closed", "fin"} /\ Bound(l)
  /\ \E n \in 1 .. link[l].flight :
       /\ ex' = [ex EXCEPT ![link[l].x].tx = @ - n]
       /\ link' = [link EXCEPT ![l].flight = @ - n, ![l].moved = TRUE,
                               ![l].fin = IF link[l].closing THEN @ - Min({n, @}) ELSE @]
  /\ UNCHANGED tcp

\* tx_mark_retransmit(), and the segment copied again: what the ring has now.
Retransmit(l) ==
  /\ Taking
  /\ tcp[l] \in {"open", "peer_closed", "fin"} /\ Bound(l)
  /\ link[l].flight > 0
  /\ LET x == ex[link[l].x] IN
       link' = [link EXCEPT ![l].flight = IF x.tx < Mss /\ MoreToCome(x) THEN 0 ELSE Min({x.tx, Mss})]
  /\ UNCHANGED <<tcp, ex>>

\* The stack sends of its own accord what it is shown.
StackSends(l) ==
  /\ Taking
  /\ tcp[l] \in {"open", "peer_closed", "fin"} /\ Bound(l)
  /\ link[l].flight = 0 /\ Shown(l, ex[link[l].x]) > 0
  /\ link' = [link EXCEPT ![l].flight = Shown(l, ex[link[l].x])]
  /\ UNCHANGED <<tcp, ex>>

\* Both FINs acknowledged, ours behind all that was put before it.
BothClosed(l) ==
  /\ Taking
  /\ tcp[l] = "fin" /\ link[l].fin = 0
  /\ tcp' = [tcp EXCEPT ![l] = "closed"]
  /\ Moved(l)
  /\ UNCHANGED ex

\* The flight log takes the filesystem at launch and gives it back after
\* landing; hal_fs_locked() reads it at once.
LogTakes ==
  /\ locked' = ~locked
  /\ since' = 0
  /\ UNCHANGED <<tcp, link, waiting, ex, lent, pending, turn, pc, units>>

\* The frames are taken: the pass begins.
PassBegins ==
  /\ pc = AtNet
  /\ pc' = 1
  /\ UNCHANGED <<tcp, link, waiting, ex, lent, pending, turn, units, locked, since>>

--------------------------------------------------------------------------------
(* http_transport_pass(): each link, and then the exchanges to the waiting.  *)

\* Mutant: the waiting unit is not cancelled.
ReleaseUncancelled(e) ==
  /\ lent' = [lent EXCEPT ![e] = FALSE]
  /\ ex' = [ex EXCEPT ![e] = Fresh]
  /\ UNCHANGED pending

\* conn_release(): what it held is given up, its waiting unit with it.
Release(e) ==
  /\ lent' = [lent EXCEPT ![e] = FALSE]
  /\ pending' = [pending EXCEPT ![e] = FALSE]
  /\ ex' = [ex EXCEPT ![e] = Fresh]

\* link_free() and link_listen().
Freed(l) ==
  /\ link' = [link EXCEPT ![l] = Listening]
  /\ tcp' = [tcp EXCEPT ![l] = "listen"]
  /\ IF link[l].x = None THEN UNCHANGED <<lent, pending, ex>> ELSE Release(link[l].x)

\* The link as the pass leaves it: what moved is taken note of.
Noted(l) == [link[l] EXCEPT !.moved = FALSE]

Passing(l) == pc = l /\ pc' = l + 1 /\ UNCHANGED <<turn, units, locked, since>>

\* HTTP_IDLE_MS or DRAIN_MS may have gone by only if no byte moved.
MayBeLate(l) == ~link[l].moved

PassListening(l) ==
  /\ Passing(l)
  /\ link[l].phase = "listening"
  /\ \/ /\ Connected(l)
        /\ link' = [link EXCEPT ![l] = [Noted(l) EXCEPT !.phase = "waiting"]]
        /\ waiting' = Append(waiting, l)
        /\ UNCHANGED <<tcp, ex, lent, pending>>
     \/ tcp[l] = "closed" /\ Freed(l) /\ UNCHANGED waiting
     \/ tcp[l] = "listen" /\ UNCHANGED <<tcp, link, waiting, ex, lent, pending>>

\* A peer gone, or silent too long, before it had an exchange.
PassWaiting(l, late) ==
  /\ Passing(l)
  /\ link[l].phase = "waiting" /\ (late => MayBeLate(l))
  /\ IF Connected(l) /\ ~late
     THEN link' = [link EXCEPT ![l] = Noted(l)] /\ UNCHANGED <<tcp, waiting, ex, lent, pending>>
     ELSE Freed(l) /\ waiting' = RemoveFirst(waiting, l)

\* finish_closing(): the exchange goes back with the last byte acknowledged.
Closing(l, late) ==
  LET e == link[l].x IN
  IF ex[e].tx = 0
  THEN /\ Release(e)
       /\ link' = [link EXCEPT ![l] = [Noted(l) EXCEPT !.phase = "draining", !.x = None]]
       /\ UNCHANGED tcp
  ELSE IF tcp[l] = "closed" \/ late
  THEN Freed(l)
  ELSE link' = [link EXCEPT ![l] = Noted(l)] /\ UNCHANGED <<tcp, ex, lent, pending>>

\* Mutant: closed with the last of the answer still in the ring.
EndsInRing(x, flight) == x.phase = "DONE"

\* The answer is finished once nothing of it is still to be sent.
Ends(x, flight) == x.phase = "DONE" /\ x.tx = flight

\* Mutant: a peer that has gone silent is waited for.
CarriedForEver(l, late) ==
  LET e == link[l].x
      x == [ex[e] EXCEPT !.eof = tcp[l] = "peer_closed", !.consumed = FALSE]
  IN  \E flight \in {link[l].flight, Shown(l, x)} :
        \/ x.failed /\ Freed(l)
        \/ /\ ~x.failed /\ Ends(x, flight)
           /\ link' = [link EXCEPT ![l] = [Noted(l) EXCEPT !.flight = flight, !.closing = TRUE, !.fin = flight]]
           /\ tcp' = [tcp EXCEPT ![l] = "fin"]
           /\ ex' = [ex EXCEPT ![e] = x]
           /\ UNCHANGED <<lent, pending>>
        \/ /\ ~x.failed /\ ~Ends(x, flight)
           /\ link' = [link EXCEPT ![l] = [Noted(l) EXCEPT !.flight = flight]]
           /\ ex' = [ex EXCEPT ![e] = x]
           /\ UNCHANGED <<tcp, lent, pending>>

\* The rest of transport_bound(): the output, which the peer's window may hold
\* back, then the end, of one kind or another. The FIN goes behind what the
\* stack is shown. What the parser took starts the time again.
Carried(l, late) ==
  LET e == link[l].x
      x == [ex[e] EXCEPT !.eof = tcp[l] = "peer_closed", !.consumed = FALSE]
  IN  \E flight \in {link[l].flight, Shown(l, x)} :
        \/ /\ x.failed \/ (~Ends(x, flight) /\ late /\ ~ex[e].consumed)
           /\ Freed(l)
        \/ /\ ~x.failed /\ Ends(x, flight)
           /\ link' = [link EXCEPT ![l] = [Noted(l) EXCEPT !.flight = flight, !.closing = TRUE, !.fin = flight]]
           /\ tcp' = [tcp EXCEPT ![l] = "fin"]
           /\ ex' = [ex EXCEPT ![e] = x]
           /\ UNCHANGED <<lent, pending>>
        \/ /\ ~x.failed /\ ~Ends(x, flight) /\ (late => ex[e].consumed)
           /\ link' = [link EXCEPT ![l] = [Noted(l) EXCEPT !.flight = flight]]
           /\ ex' = [ex EXCEPT ![e] = x]
           /\ UNCHANGED <<tcp, lent, pending>>

\* Mutant: only a link whose answer is on its way out lets go.
MustLetGoClosing(l) == locked /\ ex[link[l].x].fs /\ link[l].closing

\* x_must_let_go(): it holds the filesystem, and the flight log has it now.
MustLetGo(l) == locked /\ ex[link[l].x].fs

PassBound(l, late) ==
  /\ Passing(l)
  /\ Bound(l) /\ (late => MayBeLate(l))
  /\ IF MustLetGo(l) THEN Freed(l)
     ELSE IF link[l].closing THEN Closing(l, late)
     ELSE IF ~Connected(l) THEN Freed(l)
     ELSE Carried(l, late)
  /\ UNCHANGED waiting

PassDraining(l, late) ==
  /\ Passing(l)
  /\ link[l].phase = "draining" /\ (late => MayBeLate(l))
  /\ IF tcp[l] = "closed" \/ late THEN Freed(l)
     ELSE link' = [link EXCEPT ![l] = Noted(l)] /\ UNCHANGED <<tcp, ex, lent, pending>>
  /\ UNCHANGED waiting

\* x_take(): the first exchange that is free.
Free == {e \in Exchanges : ~lent[e]}

\* attach_waiting(): the link longest connected first, and the work begins
\* once there is no link or no exchange left.
Attach ==
  /\ pc = AtAttach
  /\ IF waiting # <<>> /\ Free # {}
     THEN LET l == Head(waiting)
              e == Min(Free)
          IN  /\ link' = [link EXCEPT ![l].phase = "bound", ![l].x = e]
              /\ waiting' = Tail(waiting)
              /\ lent' = [lent EXCEPT ![e] = TRUE]
              /\ ex' = [ex EXCEPT ![e] = Fresh]
              /\ UNCHANGED <<pc, units>>
     ELSE /\ pc' = AtWork
          /\ units' = 0
          /\ UNCHANGED <<link, waiting, lent, ex>>
  /\ UNCHANGED <<tcp, pending, turn, locked, since>>

--------------------------------------------------------------------------------
(* http_server_work(): a unit of one exchange's, each in its turn.           *)

Runnable(e) == pending[e] \/ (lent[e] /\ WantsService(ex[e]))

\* http_work_next(): from the one whose turn it is, round.
After(e, k) == ((e + k - 1) % NExchanges) + 1
Chosen == LET k == CHOOSE j \in 0 .. NExchanges - 1 :
                     /\ Runnable(After(turn, j))
                     /\ \A i \in 0 .. j - 1 : ~Runnable(After(turn, i))
          IN  After(turn, k)

\* Whether a call that made y of x offered the unit of a status: one that is
\* then refused, for a body that ends too soon, has offered it all the same.
Offered(x, y) ==
  IF x.phase # "HEAD" THEN {FALSE}
  ELSE IF x.eof /\ Responded(y) THEN BOOLEAN
  ELSE {y.route = "status"}

Work ==
  /\ pc = AtWork /\ units < UnitsPerPass
  /\ \E e \in Exchanges : Runnable(e)
  /\ LET e == Chosen IN
       /\ IF pending[e]
          THEN /\ \E y \in StatusRendered(ex[e]) : ex' = [ex EXCEPT ![e] = y]
               /\ pending' = [pending EXCEPT ![e] = FALSE]
          ELSE \E y \in Serviced(ex[e], locked) :
                 /\ ex' = [ex EXCEPT ![e] = y]
                 /\ \E offered \in Offered(ex[e], y) : pending' = [pending EXCEPT ![e] = offered]
       /\ turn' = After(e, 1)
       /\ since' = IF locked /\ ex'[e].fs THEN Min({since + 1, UnitsPerPass + 1}) ELSE since
  /\ units' = units + 1
  /\ UNCHANGED <<tcp, link, waiting, lent, pc, locked>>

\* Nothing left to run, or enough for one pass.
Sleep ==
  /\ pc = AtWork
  /\ units = UnitsPerPass \/ \A e \in Exchanges : ~Runnable(e)
  /\ pc' = AtNet
  /\ UNCHANGED <<tcp, link, waiting, ex, lent, pending, turn, units, locked, since>>

--------------------------------------------------------------------------------

Timed(l, late) == PassWaiting(l, late) \/ PassBound(l, late) \/ PassDraining(l, late)

Pass == \E l \in Links : PassListening(l) \/ \E late \in BOOLEAN : Timed(l, late)

NetTask == PassBegins \/ Pass \/ Attach \/ Work \/ Sleep

Stack == \E l \in Links :
           \/ Connect(l) \/ PeerSends(l) \/ PeerCloses(l) \/ Dropped(l) \/ PeerAcks(l)
           \/ Retransmit(l) \/ StackSends(l) \/ BothClosed(l)

Next == NetTask \/ Stack \/ LogTakes

\* The net task runs; a link on which no byte moves any more is late in the
\* end; what the stack is shown it sends, and what is in flight is
\* acknowledged or the stack gives the link up.
Fairness ==
  /\ WF_vars(NetTask)
  /\ \A l \in Links : /\ (<>[]~link[l].moved) => SF_vars(Timed(l, TRUE))
                      /\ SF_vars(StackSends(l) \/ (link[l].flight > 0 /\ (PeerAcks(l) \/ Dropped(l))))

Spec == Init /\ [][Next]_vars /\ Fairness

--------------------------------------------------------------------------------
(* Properties.                                                             *)

\* A peer that sees the board close cleanly has been sent all it was
\* promised: the FIN is right behind the last byte of the answer, whatever
\* was lost and sent again on the way (transport_bound(), tx_queued()).
FinBehindAll ==
  \A l \in Links : link[l].closing /\ Bound(l) =>
    /\ link[l].fin = ex[link[l].x].tx
    /\ ex[link[l].x].left = 0 /\ ~ex[link[l].x].failed

\* An exchange lent is one link's, and what it holds goes with it: one that
\* is not lent has no unit waiting to run on the next peer's request, nor the
\* filesystem; one that waits is of a status, not answered or refused since
\* (x_take(), conn_release(), http_work_cancel()).
LentToOne ==
  /\ TypeOK
  /\ \A e \in Exchanges : lent[e] <=> Cardinality({l \in Links : link[l].x = e}) = 1
  /\ \A l \in Links : Bound(l) <=> link[l].x # None
  /\ \A e \in Exchanges :
       /\ pending[e] => lent[e] /\ (ex[e].route = "status" \/ Responded(ex[e]))
       /\ ex[e].fs => lent[e]

\* [WEB-API-08] Once the flight log has the filesystem, no more units touch
\* its files than may run before the next pass, which ends every request that
\* holds it; and none takes it meanwhile (fs_take(), x_must_let_go()).
LogGetsFiles == since <= UnitsPerPass

\* A peer that connected and waits is served, or is gone: no request keeps an
\* exchange for good, and no later peer keeps being served first.
Served == \A l \in Links : (link[l].phase = "waiting") ~> (link[l].phase # "waiting")
================================================================================
