---------------------------- MODULE LinkService ----------------------------
(***************************************************************************)
(* What two connected applications may rely on, without a word on frames   *)
(* or timers.  Each station numbers the chunks its send() accepts; now and *)
(* then its session starts again.  In one session, an application is       *)
(* handed the beginning of one session of its peer: the first chunk, then  *)
(* the next ones in order, never one twice and never one of another        *)
(* session.  (Whether all of them arrive is not said here.)                *)
(***************************************************************************)
EXTENDS Integers, Sequences

CONSTANTS Station, PeerOf(_)

VARIABLES
    count,      \* count[p]: chunks p's application handed to send
    starts,     \* starts[p]: numbers of the chunks that began a session
    got         \* got[p]: chunks handed to p's application in this session

vars == <<count, starts, got>>

Init ==
    /\ count = [p \in Station |-> 0]
    /\ starts = [p \in Station |-> {}]
    /\ got = [p \in Station |-> <<>>]

\* p's application sends some chunks, or none.
Accept(p) ==
    /\ count'[p] \in Nat /\ count'[p] >= count[p]
    /\ count' = [count EXCEPT ![p] = count'[p]]

Send(p) == Accept(p) /\ UNCHANGED <<starts, got>>

Restart(p) ==
    /\ starts' = [starts EXCEPT ![p] = @ \cup {count[p] + 1}]
    /\ got' = [got EXCEPT ![p] = <<>>]
    /\ UNCHANGED count

\* Chunk d is the next one for p's application.
IsNext(p, d) ==
    /\ d <= count[PeerOf(p)]
    /\ IF got[p] = <<>> THEN d \in starts[PeerOf(p)]
       ELSE /\ d = got[p][Len(got[p])] + 1
            /\ d \notin starts[PeerOf(p)]

\* p's application gets a chunk, and may answer it at once.
Receive(p, d) ==
    /\ IsNext(p, d)
    /\ got' = [got EXCEPT ![p] = Append(@, d)]
    /\ Accept(p)
    /\ UNCHANGED starts

Next ==
    \E p \in Station :
        \/ Send(p)
        \/ Restart(p)
        \/ \E d \in 1 .. count[PeerOf(p)] : Receive(p, d)

Spec == Init /\ [][Next]_vars

-----------------------------------------------------------------------------

\* What on_data is handed within one session is a run of consecutive chunks
\* that were all accepted by the peer's send() ...
InOrder ==
    \A p \in Station :
        /\ \A i \in 1 .. Len(got[p]) : got[p][i] \in 1 .. count[PeerOf(p)]
        /\ \A i \in 1 .. Len(got[p]) - 1 : got[p][i + 1] = got[p][i] + 1

\* ... and of one session of the peer: it begins with the first chunk of a
\* session, and does not run into the next one.
OneSession ==
    \A p \in Station :
        /\ got[p] # <<>> => got[p][1] \in starts[PeerOf(p)]
        /\ \A i \in 2 .. Len(got[p]) : got[p][i] \notin starts[PeerOf(p)]
=============================================================================
