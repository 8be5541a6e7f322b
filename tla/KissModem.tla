----------------------------- MODULE KissModem -----------------------------
(***************************************************************************)
(* The software TNC, kiss_modem/kiss_modem.cpp: the main loop that reads   *)
(* frames from hosts, the TX thread that waits for the channel and keys    *)
(* the radio, and the RX thread that decodes what is heard, together with  *)
(* the PTT controller (module Ptt), the sound card of audio_alsa.cpp or    *)
(* audio_coreaudio.cpp, the signal handler, and the test modes.            *)
(*                                                                         *)
(* A frame is a record: its kind ("S" supervisory or not), its connection  *)
(* and direction (the address block), and a serial number in the order     *)
(* the hosts sent it.  Only odds depend on the collision count, which is   *)
(* left out; full duplex can never be switched on.                         *)
(***************************************************************************)
EXTENDS Ptt, Sequences

CONSTANTS
    Mode,           \* the modes main() may be started in
    Methods,        \* the PTT methods configured
    Backend,        \* "alsa" or "coreaudio"
    Conns,          \* address blocks of the frames
    MaxFrames,      \* bound on the frames the hosts send
    Chunks,         \* audio->write calls of a transmission
    RingCap,        \* capacity of the CoreAudio transmit ring, in chunks
    PttFaults,      \* the modes in which PTT writes may fail
    AudioFaults     \* audio writes may fail and playback may stall

ASSUME ModeAssumption == Mode \subseteq {"bridge", "test_ptt", "test_tx"}
ASSUME MethodsAssumption == Methods \subseteq Method
ASSUME BackendAssumption == Backend \in {"alsa", "coreaudio"}
ASSUME BoundsAssumption ==
    /\ MaxFrames \in Nat
    /\ Chunks \in Nat \ {0}
    /\ RingCap \in Nat \ {0}
    /\ PttFaults \subseteq Mode
    /\ AudioFaults \in BOOLEAN

VARIABLES
    mode,
    pc,         \* where each of the threads is
    running,    \* g_running
    queue,      \* tx_queue
    log,        \* history: every frame the hosts sent
    popped,     \* history: every frame taken from the queue for the air
    ptt,        \* ptt_ctl
    muted,      \* tx_active
    left,       \* chunks still to write (rounds still to do of --test-ptt)
    pcm,        \* chunks accumulated by CoreAudio's write()
    ring,       \* chunks handed to the sound card and not yet played
    lastRx,     \* age of last_rx_ts: "never", "fresh" (below dwait), "old"
    nap,        \* the stamp the TX thread loaded is still below dwait
    dcd,        \* demod.dcd()
    echo,       \* own signal on its way into the capture stream
    dec,        \* frame hdlc_dec is assembling: "none", "own", "other"
    heardOwn    \* history: an own frame was given to the hosts

txVars == <<queue, log, popped>>
audioVars == <<left, pcm, ring>>
rxVars == <<dec, heardOwn>>
vars == <<mode, pc, running, txVars, ptt, muted, audioVars,
          lastRx, nap, dcd, echo, rxVars>>

Thread == {"main", "tx", "rx"}
Frame == [kind : {"S", "I"}, conn : Conns, n : 1 .. MaxFrames]

Goto(t, label) == pc' = [pc EXCEPT ![t] = label]
WriteMayFail == AudioFaults /\ Backend = "alsa"
MayStall == AudioFaults /\ Backend = "coreaudio"
Playing == {"write", "flush", "drain"}
PttOk == IF mode \in PttFaults THEN BOOLEAN ELSE {TRUE}

Init ==
    /\ mode \in Mode
    /\ pc = [main |-> "start", tx |-> "done", rx |-> "done"]
    /\ running = TRUE
    /\ queue = <<>> /\ log = <<>> /\ popped = <<>>
    /\ \E m \in Methods, inv \in BOOLEAN, level \in BOOLEAN :
          ptt = NewController(m, inv, level)
    /\ muted = FALSE
    /\ left = 0 /\ pcm = 0 /\ ring = 0
    /\ lastRx = "never" /\ nap = FALSE
    /\ dcd = FALSE /\ echo = FALSE
    /\ dec = "none" /\ heardOwn = FALSE

(***************************************************************************)
(* Start-up and signals                                                    *)
(***************************************************************************)
\* Where a mode continues once the sound card and the PTT are open.
Started == CASE mode = "bridge"   -> [main |-> "loop", tx |-> "check", rx |-> "read"]
             [] mode = "test_ptt" -> [pc EXCEPT !.main = "on"]
             [] mode = "test_tx"  -> [pc EXCEPT !.main = "key"]

\* The sound card (not for --test-ptt), then the PTT; exit(1) or return
\* when either cannot be opened.
Start ==
    /\ pc.main = "start"
    /\ \/ /\ mode # "test_ptt" \/ NeedsDevice(ptt)
          /\ Goto("main", "exit")
          /\ UNCHANGED <<ptt, left>>
       \/ /\ \E ok \in PttOk : ptt' = InitPtt(ptt, ok)
          /\ pc' = Started
          /\ left' = CASE mode = "bridge" -> 0
                       [] mode = "test_ptt" -> 3
                       [] mode = "test_tx" -> Chunks
    /\ UNCHANGED <<mode, running, txVars, muted, pcm, ring, lastRx, nap, dcd, echo, rxVars>>

SignalHandler ==
    /\ running
    /\ running' = FALSE
    /\ UNCHANGED <<mode, pc, txVars, ptt, muted, audioVars, lastRx, nap, dcd, echo, rxVars>>

(***************************************************************************)
(* Main thread: hosts                                                      *)
(***************************************************************************)
CanSupersedeAny(q, f) == q.conn = f.conn     \* fault: I-frames superseded too
CanSupersede(q, f) == q.kind = "S" /\ f.kind = "S" /\ q.conn = f.conn

Superseded(f) == {i \in DOMAIN queue : CanSupersede(queue[i], f)}

EnqueueFrame(f) ==
    queue' = IF Superseded(f) = {} THEN Append(queue, f)
             ELSE [queue EXCEPT ![CHOOSE i \in Superseded(f) :
                                    \A j \in Superseded(f) : i <= j] = f]

HostFrameQuietly ==     \* fault: notify_one forgotten
    /\ pc.main = "loop" /\ pc.tx # "block" /\ Len(log) < MaxFrames
    /\ \E f \in [kind : {"S", "I"}, conn : Conns, n : {Len(log) + 1}] :
          EnqueueFrame(f) /\ log' = Append(log, f)
    /\ UNCHANGED <<mode, pc, running, popped, ptt, muted, audioVars, lastRx, nap, dcd, echo, rxVars>>

\* A data frame from the PTY or a TCP client: enqueue_frame takes the lock,
\* which the TX thread holds from its predicate until it blocks, and
\* notify_one wakes it if it waits.
HostFrame ==
    /\ pc.main = "loop"
    /\ pc.tx # "block"
    /\ Len(log) < MaxFrames
    /\ \E f \in [kind : {"S", "I"}, conn : Conns, n : {Len(log) + 1}] :
          EnqueueFrame(f) /\ log' = Append(log, f)
    /\ IF pc.tx = "waiting" THEN Goto("tx", "check") ELSE UNCHANGED pc
    /\ UNCHANGED <<mode, running, popped, ptt, muted, audioVars, lastRx, nap, dcd, echo, rxVars>>

\* The loop ends after a signal, or when select() fails.
LoopEnds ==
    /\ pc.main = "loop"
    /\ running' = FALSE
    /\ Goto("main", "notify")
    /\ UNCHANGED <<mode, txVars, ptt, muted, audioVars, lastRx, nap, dcd, echo, rxVars>>

\* notify_all() without the mutex: it may come between predicate and wait.
NotifyAll ==
    /\ pc.main = "notify"
    /\ pc' = [pc EXCEPT !.main = "join_tx",
                        !.tx = IF @ = "waiting" THEN "check" ELSE @]
    /\ UNCHANGED <<mode, running, txVars, ptt, muted, audioVars, lastRx, nap, dcd, echo, rxVars>>

\* tx_thread.join(), then audio->close(), which drops what is not played.
JoinTx ==
    /\ pc.main = "join_tx"
    /\ pc.tx = "done"
    /\ ring' = 0
    /\ Goto("main", "join_rx")
    /\ UNCHANGED <<mode, running, txVars, ptt, muted, left, pcm, lastRx, nap, dcd, echo, rxVars>>

JoinRx ==
    /\ pc.main = "join_rx"
    /\ pc.rx = "done"
    /\ Goto("main", "close")
    /\ UNCHANGED <<mode, running, txVars, ptt, muted, audioVars, lastRx, nap, dcd, echo, rxVars>>

\* ptt_ctl.close() of every mode; --test-tx closes the sound card after it.
ClosePtt ==
    /\ pc.main = "close"
    /\ \E ok \in PttOk : ptt' = Close(ptt, ok)
    /\ ring' = 0
    /\ Goto("main", "exit")
    /\ UNCHANGED <<mode, running, txVars, muted, left, pcm, lastRx, nap, dcd, echo, rxVars>>

(***************************************************************************)
(* Main thread: --test-ptt                                                 *)
(***************************************************************************)
TestOn ==
    /\ pc.main = "on"
    /\ IF left > 0 /\ running
       THEN /\ \E ok \in PttOk : ptt' = Set(ptt, TRUE, ok)
            /\ Goto("main", "off")
       ELSE Goto("main", "close") /\ UNCHANGED ptt
    /\ UNCHANGED <<mode, running, txVars, muted, audioVars, lastRx, nap, dcd, echo, rxVars>>

TestOff ==
    /\ pc.main = "off"
    /\ \E ok \in PttOk : ptt' = Set(ptt, FALSE, ok)
    /\ left' = left - 1
    /\ Goto("main", "on")
    /\ UNCHANGED <<mode, running, txVars, muted, pcm, ring, lastRx, nap, dcd, echo, rxVars>>

(***************************************************************************)
(* TX thread: waiting for work and for the channel                         *)
(***************************************************************************)
TxGoto(label) ==
    /\ Goto("tx", label)
    /\ UNCHANGED <<mode, running, txVars, ptt, muted, audioVars, lastRx, dcd, echo, rxVars>>

\* WAIT_WORK, up to the predicate of cv.wait.
WaitWork ==
    /\ pc.tx = "check"
    /\ TxGoto(IF ~running THEN "done" ELSE IF queue = <<>> THEN "block" ELSE "dwait")
    /\ UNCHANGED nap

\* Blocking releases the mutex the predicate was evaluated under.
Block ==
    /\ pc.tx = "block"
    /\ TxGoto("waiting")
    /\ UNCHANGED nap

\* A wait may return without a notification, and need not.
SpuriousWakeup ==
    /\ pc.tx = "waiting"
    /\ TxGoto("check")
    /\ UNCHANGED nap

Dwait ==
    /\ pc.tx = "dwait"
    /\ nap' = (lastRx = "fresh")
    /\ TxGoto(IF lastRx = "fresh" THEN "nap" ELSE "dcd_wait")

\* The end of usleep(remain), for the stamp loaded before it.
DwaitOver ==
    /\ pc.tx = "nap"
    /\ ~nap
    /\ TxGoto(IF running THEN "dcd_wait" ELSE "done")
    /\ UNCHANGED nap

DcdWaitOnly ==          \* fault: while (demod.dcd()) without g_running
    pc.tx = "dcd_wait" /\ ~dcd /\ TxGoto(IF running THEN "settle" ELSE "done") /\ UNCHANGED nap
DcdWait ==
    /\ pc.tx = "dcd_wait"
    /\ ~running \/ ~dcd
    /\ TxGoto(IF running THEN "settle" ELSE "done")
    /\ UNCHANGED nap

Settle ==
    /\ pc.tx = "settle"
    /\ TxGoto(IF dcd THEN "dwait" ELSE "slot")
    /\ UNCHANGED nap

\* One persistence slot: "break" on shutdown leaves the slot loop only.
Slot ==
    /\ pc.tx = "slot"
    /\ \/ /\ running /\ dcd
          /\ TxGoto("dwait")
       \/ /\ running /\ ~dcd
          /\ TxGoto("slot")
       \/ /\ ~running \/ ~dcd
          /\ TxGoto("dequeue")
    /\ UNCHANGED nap

(***************************************************************************)
(* TX thread (and --test-tx): one transmission                             *)
(***************************************************************************)
\* DEQUEUE and MODULATE, up to tx_active.
Dequeue ==
    /\ pc.tx = "dequeue"
    /\ IF queue = <<>>
       THEN Goto("tx", "check") /\ UNCHANGED <<queue, popped, muted, left>>
       ELSE /\ popped' = Append(popped, Head(queue))
            /\ queue' = Tail(queue)
            /\ left' = Chunks
            /\ muted' = TRUE
            /\ Goto("tx", "key")
    /\ UNCHANGED <<mode, running, log, ptt, pcm, ring, lastRx, nap, dcd, echo, rxVars>>

KeyOn(t) ==
    /\ pc[t] = "key"
    /\ \E ok \in PttOk : ptt' = Set(ptt, TRUE, ok)
    /\ Goto(t, "write")
    /\ UNCHANGED <<mode, running, txVars, muted, audioVars, lastRx, nap, dcd, echo, rxVars>>

WriteOneMore(t) ==      \* fault: off <= size() in the loop condition
    /\ pc[t] = "write"
    /\ \/ /\ left >= 0
          /\ left' = left - 1
          /\ IF Backend = "alsa" THEN ring' = ring + 1 /\ UNCHANGED pcm
                                 ELSE pcm' = pcm + 1 /\ UNCHANGED ring
          /\ UNCHANGED pc
       \/ /\ left < 0 /\ Goto(t, "flush") /\ UNCHANGED audioVars
    /\ UNCHANGED <<mode, running, txVars, ptt, muted, lastRx, nap, dcd, echo, rxVars>>
\* audio->write of one chunk; the loop ends when a write takes nothing.
Write(t) ==
    /\ pc[t] = "write"
    /\ \/ /\ left > 0
          /\ left' = left - 1
          /\ IF Backend = "alsa" THEN ring' = ring + 1 /\ UNCHANGED pcm
                                 ELSE pcm' = pcm + 1 /\ UNCHANGED ring
          /\ UNCHANGED pc
       \/ /\ left = 0 \/ WriteMayFail
          /\ Goto(t, "flush")
          /\ UNCHANGED audioVars
    /\ UNCHANGED <<mode, running, txVars, ptt, muted, lastRx, nap, dcd, echo, rxVars>>

\* CoreAudio moves what was written into the ring, as far as it fits.
Flush(t) ==
    /\ pc[t] = "flush"
    /\ ring' = IF pcm = 0 THEN ring
               ELSE IF ring + pcm <= RingCap - 1 THEN ring + pcm ELSE RingCap - 1
    /\ Goto(t, "drain")
    /\ UNCHANGED <<mode, running, txVars, ptt, muted, left, pcm, lastRx, nap, dcd, echo, rxVars>>

DrainSkipped(t) ==      \* fault: flush() does not wait
    /\ pc[t] = "drain"
    /\ pcm' = 0 /\ Goto(t, "unkey")
    /\ UNCHANGED <<mode, running, txVars, ptt, muted, left, ring, lastRx, nap, dcd, echo, rxVars>>

\* wait_drain(): until all is played, or CoreAudio's deadline.  It does not
\* look at the capture side.
DrainEnds(t) ==
    /\ pc[t] = "drain"
    /\ ring = 0 \/ MayStall
    /\ pcm' = 0
    /\ Goto(t, "unkey")
    /\ UNCHANGED <<mode, running, txVars, ptt, muted, left, ring, lastRx, nap, dcd, echo, rxVars>>

KeyOff(t) ==
    /\ pc[t] = "unkey"
    /\ \E ok \in PttOk : ptt' = Set(ptt, FALSE, ok)
    /\ Goto(t, IF t = "tx" THEN "reset" ELSE "close")
    /\ UNCHANGED <<mode, running, txVars, muted, audioVars, lastRx, nap, dcd, echo, rxVars>>

\* hdlc_dec.init() by the TX thread.
ResetDecoder ==
    /\ pc.tx = "reset"
    /\ dec' = "none"
    /\ Goto("tx", "unmute")
    /\ UNCHANGED <<mode, running, txVars, ptt, muted, audioVars, lastRx, nap, dcd, echo, heardOwn>>

\* tx_active = false and COOLDOWN.
Unmute ==
    /\ pc.tx = "unmute"
    /\ muted' = FALSE
    /\ Goto("tx", "check")
    /\ UNCHANGED <<mode, running, txVars, ptt, audioVars, lastRx, nap, dcd, echo, rxVars>>

(***************************************************************************)
(* RX thread                                                               *)
(***************************************************************************)
RxStep == /\ pc.rx = "read"
          /\ UNCHANGED <<mode, running, txVars, ptt, muted, audioVars, lastRx, nap, dcd>>

\* An opening flag: of another station, or of the own signal, however long
\* the capture buffers and the scheduler kept it.
Hear ==
    /\ \/ /\ dec' = "other"
          /\ UNCHANGED echo
       \/ /\ echo
          /\ dec' = "own" /\ echo' = FALSE
    /\ UNCHANGED <<pc, heardOwn>>
    /\ RxStep

\* The frame is spoiled, or the carrier ends within it.
Lose ==
    /\ dec # "none" \/ echo
    /\ dec' = "none" /\ echo' = FALSE
    /\ UNCHANGED <<pc, heardOwn>>
    /\ RxStep

\* The closing flag of a good frame: receive_bit calls on_frame.
Decoded ==
    /\ dec # "none"
    /\ Goto("rx", dec)
    /\ dec' = "none"
    /\ UNCHANGED <<echo, heardOwn>>
    /\ RxStep

\* on_frame: a frame decoded while tx_active is dropped.
OnFrame ==
    /\ pc.rx \in {"own", "other"}
    /\ IF muted THEN UNCHANGED <<lastRx, heardOwn>>
       ELSE /\ lastRx' = "fresh"
            /\ heardOwn' = (heardOwn \/ pc.rx = "own")
    /\ Goto("rx", "read")
    /\ UNCHANGED <<mode, running, txVars, ptt, muted, audioVars, nap, dcd, echo, dec>>

RxEnds ==
    /\ ~running
    /\ Goto("rx", "done")
    /\ UNCHANGED <<echo, rxVars>>
    /\ RxStep

(***************************************************************************)
(* Sound card, channel and time                                            *)
(***************************************************************************)
Play ==
    /\ ring > 0
    /\ ring' = ring - 1
    /\ echo' = (mode = "bridge")
    /\ UNCHANGED <<mode, pc, running, txVars, ptt, muted, left, pcm, lastRx, nap, dcd, rxVars>>

ChannelChanges ==
    /\ pc.rx = "read"
    /\ dcd' = ~dcd
    /\ UNCHANGED <<mode, pc, running, txVars, ptt, muted, audioVars, lastRx, nap, echo, rxVars>>

\* The holdoff of the stamp the TX thread sleeps on ends no later than the
\* holdoff of the last one.
HoldoffPasses ==
    /\ \/ /\ nap
          /\ nap' = FALSE /\ UNCHANGED lastRx
       \/ /\ ~nap /\ lastRx = "fresh"
          /\ lastRx' = "old" /\ UNCHANGED nap
    /\ UNCHANGED <<mode, pc, running, txVars, ptt, muted, audioVars, dcd, echo, rxVars>>

Transmit(t) == KeyOn(t) \/ Write(t) \/ Flush(t) \/ DrainEnds(t) \/ KeyOff(t)

TxThread == \/ WaitWork \/ Block \/ Dwait \/ DwaitOver \/ DcdWait \/ Settle \/ Slot
            \/ Dequeue \/ Transmit("tx") \/ ResetDecoder \/ Unmute
RxThread == Hear \/ Lose \/ Decoded \/ OnFrame \/ RxEnds
MainThread == \/ Start \/ LoopEnds \/ NotifyAll \/ JoinTx \/ JoinRx \/ ClosePtt
              \/ TestOn \/ TestOff \/ Transmit("main")
Exited == pc.main = "exit" /\ UNCHANGED vars

Next == \/ HostFrame \/ SignalHandler
        \/ MainThread \/ TxThread \/ RxThread
        \/ SpuriousWakeup
        \/ Play \/ ChannelChanges \/ HoldoffPasses \/ Exited

\* Threads are scheduled, the card plays, time passes, the RX thread tests
\* g_running after every buffer of samples, and the persistence
\* test succeeds now and then; nothing is assumed of hosts and channel.
Fairness ==
    /\ WF_vars(TxThread) /\ SF_vars(Slot /\ pc'.tx = "dequeue")
    /\ WF_vars(OnFrame) /\ SF_vars(RxEnds)
    /\ WF_vars(MainThread /\ (pc.main = "loop" => ~running))
    /\ WF_vars(Play) /\ WF_vars(HoldoffPasses)

Spec == Init /\ [][Next]_vars /\ Fairness
(***************************************************************************)
(* Properties                                                              *)
(***************************************************************************)
TypeOK ==
    /\ mode \in Mode
    /\ pc \in [Thread -> {"start", "loop", "notify", "join_tx", "join_rx", "close",
                          "exit", "on", "off", "check", "block", "waiting", "dwait",
                          "nap", "dcd_wait", "settle", "slot", "dequeue", "key",
                          "write", "flush", "drain", "unkey", "reset", "unmute",
                          "done", "read", "own", "other"}]
    /\ {queue, log, popped} \subseteq Seq(Frame)
    /\ ptt \in Controller
    /\ {running, muted, nap, dcd, echo, heardOwn} \subseteq BOOLEAN
    /\ {left, pcm, ring} \subseteq Nat
    /\ lastRx \in {"never", "fresh", "old"}
    /\ dec \in {"none", "own", "other"}

\* Half-duplex mute, as its comments in the code promise it: no frame the
\* TNC transmitted comes back to the hosts, although the RX thread goes on
\* decoding and the TX thread resets its decoder and lifts the mute at any
\* point of its work.  The code fails it: the mute ends with the playback,
\* and what the capture side has not yet delivered is decoded after it.
NoEcho == ~heardOwn

\* The CSMA slots do not begin within dwait of the last received frame.  The
\* code fails it: it reads the time of that frame once, before it waits for
\* the carrier to drop, and the carrier it waits out is often a frame.
HoldOff == [][pc.tx = "settle" /\ pc'.tx = "slot" => lastRx # "fresh"]_vars

\* What goes on the air, followed by what waits for it, holds every
\* non-supervisory frame of the hosts once and in their order, and for each
\* connection supervisory frames of increasing age that end in its newest:
\* superseding a frame in its place in the queue loses nothing else.
OnAir == popped \o queue
Ordered(f, g) == f.kind = g.kind /\ (f.kind = "S" => f.conn = g.conn)
Covers(f, g) == f = g \/ (g.kind = "S" /\ Ordered(f, g) /\ f.n > g.n)
HostOrder ==
    /\ \A i \in DOMAIN OnAir : \E j \in DOMAIN log : OnAir[i] = log[j]
    /\ \A i, j \in DOMAIN OnAir :
          i < j /\ Ordered(OnAir[i], OnAir[j]) => OnAir[i].n < OnAir[j].n
    /\ \A i \in DOMAIN log : \E j \in DOMAIN OnAir : Covers(OnAir[j], log[i])

\* The card plays only while the radio is keyed and the RX side muted (a VOX
\* or hamlib setting keys nothing, and a failed PTT write is only logged).
PlaysKeyed ==
    [][ring' < ring /\ pc' = pc =>
          /\ Keyed(ptt) \/ ~ptt.sure \/ ptt.method \in {"VOX", "HAMLIB"}
          /\ mode = "bridge" => muted]_vars

\* However the program ends (signal in any mode and at any point, select
\* failing), the radio is unkeyed, unless the write that unkeys it failed
\* or no command was ever sent.
ReleasedAtExit == pc.main = "exit" /\ ptt.sure => ~Keyed(ptt)

\* After a signal the program ends and releases the radio, as its prompt and
\* its README say.  The code fails it: notify_all, sent without the mutex,
\* may fall between the TX thread's predicate and its wait, and the thread
\* that is being joined then sleeps on.
Stops == ~running ~> pc.main = "exit"

\* That wait is the only thing that can hold the program up: a TX thread
\* that always wakes in the end, wherever it is in its DWAIT, DCD or
\* persistence loops or on the air, is joined and the program ends.
StopsIfWoken == []<>(pc.tx # "waiting") => Stops

\* Frames leave the queue when the channel stays clear.
FramesLeave == <>[](~dcd) => (queue # <<>> ~> (queue = <<>> \/ ~running))

=============================================================================
