# A verification of AX25Toolkit

TLA+ models of AX25Toolkit, the TLC runs that check them and the proofs TLAPS checks.
`PROJECT.json` ties every definition to the lines it models, every property to a run,
and every run to the faults it must detect.

    tlc -config ConnEnv.cfg MCConnectionEnv.tla       # one run
    tlapm ConnectionProofs.tla                        # the proofs

## 1. The system

| Part | State | Operations | Interacts by |
|---|---|---|---|
| `Connection` (lib/ax25lib) | state, V(S) V(R) V(A), `retry_`, T1 T2 T3, `poll_pending_`, `ack_pending_`, `peer_busy_`, `poll_sent_`, `send_buf_`, `unacked_` | `start_connect`, `send`, `disconnect`, destructor, `handle_frame`, `tick` | frames out through `Router::send_frame`, callbacks `on_connect`, `on_disconnect`, `on_data` up, which may call back in |
| `Router` (lib/ax25lib) | connections, `on_accept_`, `tx_queue_`, `tx_next_` | `connect`, `listen`, `send_ui`, `route`, `tx`, `drain_tx`, `poll` | called by `Kiss` for each payload, by the application for `poll` |
| codecs (lib/ax25lib) | KISS decoder state | `kiss::encode`, `Decoder::feed`, `Frame::encode`, `Frame::decode` | pure |
| `Kiss`, `Serial` | file descriptor, decoder | `open`, `poll`, `send_frame` | system calls |
| software TNC (kiss_modem) | queue with mutex and condition, `last_rx_ts`, `tx_active`, demodulator, PTT, TCP clients | main loop, TX thread, RX thread | shared memory between three threads |
| HDLC, modem, audio, PTT | bit registers, filters, devices | `receive_bit`, `send_frame`, `set` | callbacks per bit and sample |
| BBS (src/bbs.cpp) | sessions by callsign, `dead_`, `busy_`, line queues, shells | `on_accept`, `on_data`, commands, scripts, `reap_dead`, `shutdown` | callbacks of `Connection`; scripts poll the Router from inside them |
| Bluetooth bridge | transport, PTY, TCP clients, reconnect counter | `run_session`, `do_device` | file descriptors, transport callbacks |
| BLE transport (lib/bt_ble_linux.cpp) | D-Bus connections, receive pipe, `connected` | `ble_connect`, `ble_write`, filters, `ble_disconnect` | a D-Bus thread and a pipe |
| BASIC (lib/basic) | program, variables, a stack per kind of block | `run`, `exec_line`, a method per keyword | `on_recv` polls the Router; the BBS runs it inside `on_data` |
| terminals and simulator (ax25tnc, ax25sim) | `conn`, `dead_conns`, `data_mode`, `done`, `g_quit` | modes tnc, connect, monitor, unproto, test; commands; scripts; shutdown | one thread around `Router::poll`; callbacks move `conn`; scripts poll the Router |
| ax25kiss, ax25send, bt_sniffer | user interface | - | UI frames and sniffing only |

What makes it hard: frames are lost, late, repeated by digipeaters, and both ends time out
on their own; `Connection` answers from inside its handlers and calls the application in
the middle of them; `process_nr` believes every N(R); the TNC has three threads and one
mutex; the BBS polls the Router from its callbacks; the bridge shares descriptors and a bus
connection between two threads and a series of sessions; the BASIC interpreter has no syntax
tree and finds its way by scanning the text.

What makes each part correct:

* connection: every accepted chunk is delivered once and in order, or its link ends; the
  window is never exceeded; some timer always watches an open link; nothing is left behind
  by a retry, a reset or a close (sections 3 to 6);
* router: a frame reaches the session of its addresses, an unknown peer gets DM;
* codecs: decoding undoes encoding, also across chunk borders, and rejects the rest;
* TNC: no key-up during reception or within DWAIT of it, PTT always released, every queued
  frame sent or superseded by a newer one of its connection, shutdown ends;
* BBS: one session per connection, no use of a deleted one, output of one command not mixed
  with that of another, every session reaped;
* bridge and BLE: hosts stay connected over reconnects, descriptors are neither leaked nor
  confused, a lost link is reported;
* terminals: the one pointer to a connection never dangles, every open link is the one the user
  sees, typed text is not taken for a command, the end leaves no link;
* BASIC: a jump lands where the nesting of the program says, calls return to their callers.

`PROJECT.json` lists 39 hazards at their lines; those that no property catches, or not in full, say why.

## 2. Plan

| Order | Module | Content | Status |
|---|---|---|---|
| 1 | `Connection` | class `Connection` as operators on a record | done |
| 2 | `ConnectionEnv` | one connection, any application, any peer; inductive invariant | done, proved |
| 3 | `LinkService` | abstract data service of a link | done, proved |
| 4 | `Ax25Link` | two connections and the air between them, refines `LinkService` | done, checked, safety and refinement proved |
| 5 | `Ptt`, `KissModem` | the PTT controller; the three threads of the software TNC | done, checked, safety proved |
| 6 | `Bbs` | sessions, nested polls, accept, reap, shutdown | done, checked, safety proved |
| 7 | `BleLinux`, `Bridge` | the BLE transport with its dispatch thread; relays and reconnection | done, checked, safety proved |
| 8 | `BasicText`, `Basic` | the text of a BASIC program; the control flow of the interpreter | done, checked, safety proved except `Structured` |
| 9 | `Terminals` | ax25tnc and ax25sim as clients of the Router | done, checked, safety proved |
| 10 | codecs | KISS and AX.25 codecs against a reference, chunk by chunk | open |

`Bridge` extends `BleLinux`, `KissModem` extends `Ptt`; `ConnectionEnv` and `Ax25Link`
extend `Connection`; `Ax25Link` instantiates `LinkService`, `Basic` instantiates `BasicText` for
its program. `Bbs` and `Terminals` stand alone.
Each `*Proofs` module extends the module it proves about. Theorems worth proving next: which
safety of the link remains when T1 may expire before the answer to a SABM (section 6), and,
when the codecs are modelled, that decoding undoes encoding.

## 3. The modules

**`Connection`** has no variables. A `Connection` object is a record of type `ConnType`
with a field per member; a member function is an operator from record to record; frames
handed to the Router are appended to `out`, callbacks to `up`. The operators keep the
order of the code: `ProcessNr` pops, sets T1, flushes; `RecvI` processes N(R) before it looks at
N(S); `AcceptI` calls `on_data`, which may send or hang up (`Reaction`), before it arms T2
or answers a poll, on whatever `on_data` left.

* Timers are Booleans; the modules above choose when they expire. `Tick` handles the
  expired ones in the order T2, T1, T3 of the code.
* `on_connect` and `on_disconnect` are the last thing a handler does, or are followed by a
  `flush_window` that finds nothing more to do: what an application does inside them is
  the same as a call right after, an action of its own. Only `on_data` has code after it
  that matters.
* The loops of `flush_window`, `process_nr` and `retransmit_all` are written as what they
  do to the whole queue (`Burst`, `AckedPrefix`, `TxIframes`), so the module has no
  recursion and can be proved about.
* `poll` in a frame is not on the wire: it marks the RR command of `tick`, which is coded
  like the RR response, for the property `PollAnswered` only. No guard reads it.
* `rx_since_ack_` is never read by the code and is left out. Frames of other types (UI,
  FRMR, unknown) are "OTHER".
* The sequence modulus, 8 in the code, is a constant.
* Operators marked "fault" are wrong variants used to show that a property can fail.

**`ConnectionEnv`** puts one such object between an application that calls anything at any
time (`Connect`, `AppSend`, `AppDisconnect`, `AppDestroy`, or from inside `on_data`) and a
peer that sends any frame at any time, well-behaved or not. A closed object may be kept and
opened again by a SABM, with its old queues. `clean` records whether the present session
began with empty queues.

**`Ax25Link`** joins two of them by a FIFO channel in each direction with loss. A station
with no open connection answers as `Router::route` does: a listener accepts a SABM,
everything else gets DM. Chunks are numbered as `send` accepts them; `count`, `starts`,
`got` and `seen` are history variables. Assumptions, each named in the module:

* a closed connection is deleted by its application at once (`Reaped`), as the BBS does
  after each poll; a kept one is the subject of `ConnectionEnv`;
* an application redials only when nothing of an earlier call is on the air (`Connect`):
  AX.25 has no connection identifiers, so frames of an old call would be taken as new;
* T1 and T3 expire when nothing is on the air and the peer owes no acknowledgement
  (`Quiet`), which is what `compute_t1` is for; a run may lift this for T1 in given states
  (`PrematureT1`) or for T3 (`PrematureT3`).

**`LinkService`** is the promise made to two applications, without frames or timers: in one
session a station is handed the beginning of one session of its peer, without gap,
duplicate or stranger. `Ax25Link!Service` instantiates it under the refinement mapping
that keeps `count`, `starts` and `got`.

**`Ptt`** is the PTT controller: a record of what the program believes (`tx`, `inited`, `fd`)
and of what the hardware last obeyed (`hw`), for RTS, DTR, CM108, GPIO (possibly inverted),
CAT, VOX and hamlib. `sure` is FALSE once a write has failed.

**`KissModem`** has the three threads of the software TNC, one action per step between two
accesses to shared memory: the main loop takes frames from hosts, the TX thread walks
`check`, `block`, `dwait`, `dcd_wait`, `settle`, `slot`, `dequeue`, `key`, `write`, `flush`,
`drain`, `unkey`, `reset`, `unmute`, the RX thread reads samples and gives decoded frames to
the hosts. `log` and `popped` are history. The mutex needs no variable: what the code does
under it is one action.

* Hosts send whole frames; PTY and TCP are the same to the queue. The list of TCP clients,
  which two threads use without a lock, is left out.
* `--test-ptt` and `--test-tx` start in modes of their own; PTT writes fail in the modes
  `PttFaults` (a failure in mode "bridge" multiplies the states and shows nothing new).
  `AudioFaults` allows ALSA writes that fail and a CoreAudio ring that stalls.
* The parameters a KISS client sets (TXDELAY, P, ...) change odds and lengths only, so they
  and the collision count are left out; full duplex cannot be switched on.
* What is played reaches the decoder through the capture side whenever the RX thread gets to it
  (`echo`, then `dec`), also after the drain: nothing in the code waits for it. The drain ends
  when the ring is empty, or before that on CoreAudio's deadline (`MayStall`).
* The wait of the condition variable may wake up for no reason, and need not.

**`Bbs`** is one thread whose callbacks poll the Router: `stack` is the call stack, and
`OnRecvPoll`, `ExtRound` and `RunPoll` push a `poll` activation at any depth. A connection is
its state and V(R), an I-frame carries lines of which only the kind matters, and the peers
send what they like. A script that is not found and a fork that fails are a script that ends
at once; the PTY shell is a flag. Broadcasts, UI frames and replies are left out.

**`BleLinux`** has the two threads of the BLE transport over one handle `h`: `ble_connect` and
`ble_disconnect` step by step (`call`), the dispatch thread (`dpc`), the signals waiting on
the bus connection that both share with later handles (`bus`), the match rule that outlives
a handle (`rule`), and the table of file descriptors (`fd`), in which the lowest free number
is the next one opened. At most one notification waits at a time. The private socket of the
bus connection stays open for the life of the process and is not in the table.

**`Bridge`** adds `run_session`: the reconnect loop, the select loop with a step per system call
(`seen`, `todo` and `dead` are its locals), the PTY, TCP and test hosts, the signal, and
RFCOMM, whose socket it opens and closes itself. `tcp_clients` and the two lists taken from it
in a turn are sets: in what order the loop reads its clients is left open, so a run covers
every order. The table has at least two descriptors, the most `do_device` opens before the
loop (`FdAssumption`). What bytes say is left out: a read has data
or has none. A BLE write changes no modelled state, the keep-alive is part of `Select`, a
server socket that cannot be bound is `own = {}`, and a client in `Slow` does not read, so
that a write to it may fail with EAGAIN.

**`BasicText`** is the text of a program and has no variables: the scans the code does
(`find_end_if_line`, `next_case`, ...); the meaning of the text from its nesting (`Enclosing`,
`Chain`, `Follows`), as the reference the scans are compared with; and `Tidy`, the programs that
do without what the interpreter gets wrong (section 5): blocks closed by their kind, EXIT from
the block just around it, variables of its own for each loop around another or around a call, no
DO in a DO, no jump into or out of a block, SUBs and routines that are left by their ends.

**`Basic`** runs a program: `ln`, `col` and `jmp` are where `exec_line` stands and what it will
return, the seven stacks are those of the interpreter, and each keyword is an action whose
jump is the scan that the code does. Conditions are free. `before` and `pending` are history.
FUNCTION calls in expressions, blocks opened in the middle of a line, and data are left out.

**`Terminals`** is ax25tnc in its five modes and ax25sim (`prog`), chosen in `Init`. `pc` is where
the thread is: `loop`, `poll` and `ticks` (the two halves of `Router::poll`, entered from `ret`),
`reap` (deferred deletion), `input` (one line), `script` and `recv` (a BASIC script, and its
wait for a line, which polls), `bye` and `check` (the shutdown), `exit`. `objs` holds the
`Connection` objects in the order of their creation, each with its state, whether the program
attached callbacks (`cb`) and whose `on_data` it calls (`own`); `conn`, `dead`, `done`, `data` are
the locals of the run functions. `HandleFrame`, `Accept` and `LinkFails` are what the Router may
do in a poll; each command is an action. `crowded` is history: a call came while the program
had a connection, or was about to end. `turn` says that the time is before the `tx_next_` of the
Router, which every frame heard pushes forward, and `txq` which connections have a DISC in
`tx_queue_`: `Router::tx`, for whatever frame, and `Router::poll` empty it when the turnaround is over
(`Drained`). `held` is history: the last poll of the shutdown found it not over. What is printed or sent otherwise, and the parameters, are left out.

**`MCConnectionEnv`**, **`MCAx25Link`**, **`MCBbs`** and **`MCBridge`** only name the values for the
`.cfg` files. **`MCBasic`** builds the programs: some 1500, of blocks of every kind within
blocks, loops left early, routines and SUBs called from blocks. Its comment lists the
programs it leaves out because the interpreter gets them wrong (section 5). That every
program of the run is `Tidy`, as the theorems want it, is an assumption TLC evaluates
(`ProgramsTidy`).

## 4. The runs

| Run | Question | Bounds |
|---|---|---|
| `conn_env` | Does one connection stay consistent whatever happens? | window 2 mod 3, N2 = 1, one kind of chunk, 2 queued, `poll_sent_` up to 1 |
| `link_session` | Does data survive loss and early T1, and do calls, crossing calls, hang-ups, deletions and a second session keep sessions apart? | window 2 mod 3, 3 chunks (numbers wrap), one call each way (crossing, or one after the other's session), 1 loss, T1 early while connected, hang-ups of one side and deletions by the other, answers and hang-ups in `on_data`, `poll_sent_` up to 1, 4 frames in flight |
| `link_live` | Do chunks leave, calls end, half-open links close? | window 1 mod 2, 2 chunks, 2 losses, N2 = 1, fair timers and delivery |
| `modem` | Are frames sent once, in order, keyed and muted, do all modes release the radio, and does a TNC that wakes stop? | 3 frames of one connection, 1 chunk, ring of 2, CoreAudio, RTS, inverted or not, all three modes, PTT writes that fail in the test modes |
| `bbs` | Do sessions survive polls nested in callbacks? | 2 users, 4 frames, 2 per read, 2 lines or 3 per frame, welcome script or none |
| `bridge` | Are descriptors, hosts and reconnects right, whatever the two threads interleave? | 2 TCP clients (one slow), 1 reconnect, 5 descriptors, BLE and RFCOMM, PTY, TCP and test |
| `basic` | Do scans and stacks agree with the nesting of the text? | some 1500 programs, 3 turns of loops |
| `terminals` | Is every link the user's and hung up at the end, and does every program told to end do so? | 2 peers, 2 callsigns, 2 connections, all programs and modes |
| `link_poll` | Is every keep-alive poll answered? **No** | finding 1: window 2 mod 3, no loss, timers never early |
| `link_stale_sabm` | Is a chunk dropped only when delivered, if T1 of a call is early? **No** | finding 2 |
| `link_keep_alive` | Is a link failed only after N2 retries? **No** | finding 3: 1 loss |
| `modem_stop` | Does a signal end the TNC? **No** | finding 4: 1 frame, RTS, ALSA, no faults |

Why the bounds suffice: the behaviour of a window depends on full, empty and partial, on
wrapping, and on N(R) inside and outside it, and a modulus one above the window is the
tightest the code allows; N2 = 1 has a first, a last and an exceeded retry; one loss with
an early T1 loses and repeats, and the two losses of `link_live` lose a frame and its repetition.
What the runs of the links and of `conn_env` check for safety is in addition proved for all values
(section 6), and so is `ReleasedAtExit` for the PTT methods other than RTS, for ALSA and for sound
card faults (`AudioFaults`), which `modem` leaves out.

For the programs: three frames are an I-frame between two supervisory frames that supersede;
one more than two frames per read, with two users, is enough for a script inside a script
inside a read; two attempts are a first and a last one, and five descriptors hold a pipe, a
server and two clients with one number to spare that is used again; two levels of blocks and
one of calls show every pair of a scan and a block it must step over; two connections are one being
deleted and the program's, or the program's and one too many; the theorems of section 6 have no bound
on them.

The properties, by what would break them.

* Link: `WindowBound`, `Consecutive` and `WindowsAgree` guard the numbering through Go-Back-N
  and resets; `NoIdleQueue`, `ChunksLeave` the places where a freed slot must be filled and
  T1 started; `Supervised`, `Settles`, `HalfOpenEnds` the timers; `RetryBound` the retry count
  across the paths that do not reset it; `ClosedIsQuiet` and `DeferredAckTimed` what a callback
  or a close leaves behind; `NoSilentLoss` and `ImplementsService` the data itself.
* TNC: `HostOrder` the queue under supersession and shutdown; `PlaysKeyed` and `ReleasedAtExit` the
  key from the first chunk to every way out, and the mute while the card plays; `StopsIfWoken` and
  `FramesLeave` progress: `StopsIfWoken` says that the lost wake-up of finding 4 is the only thing
  that can hold the shutdown up. `Stops` is finding 4; `NoEcho` and `HoldOff` are promises that the
  code breaks as well (section 5), stated in the module and in no run.
* BBS: `Inv` joins the references held across a nested poll (`NoDangling`), the pairing of
  connections and sessions (`Owned`) and the flag that a command may leave behind
  (`BusyInside`); `LiveKept` and `ClosedReaped` are the reaper, from both sides; `Stops` the
  shutdown under any nesting.
* Bridge: `Inv` (with `Owned`) and `NoLeak` every descriptor number two threads hold; `KeptClients` the hosts
  over reconnects; `EndsForCause`, `LossNoticed` and `Ends` the session.
* Terminals: `Inv` the pointers held across callbacks, deferred deletion and scripts; `Attended`
  that no link is open behind the user's back; `TypedIsData` the flag `data_mode` against the
  state of the link; `HungUp` and `Stops` the end from any place. `Attended` and `HungUp` are
  stated for runs without a second caller (`crowded`), see section 5. `HungUp` says what the
  programs do about the turnaround: outside connect mode a DISC is left in the queue only if the
  last of the polls, which go on for up to a second, came within it. `Stops` begins at `g_quit`,
  `done` or the shutdown, and does not say that a Ctrl-C gets that far. `Farewell`,
  `SecondCallRefused` and `CtrlCExits` are promises that the code breaks (section 5).
* BASIC: `Structured` the jumps, `Balanced` the stacks, `CallsReturn` what a caller finds.

Each property of a passing run is paired in `PROJECT.json` with a fault of the code that TLC finds.

Deadlock is not checked for the links: a station may rest for good once it is closed and
its application's calls, which the models bound, are spent. In the other modules only a
program that has ended may rest (`Exited`, `Over`, `Stopped`, `Finished`), and TLC checks that
nothing else does.

**Fairness.**

* `link_live`. Delivery is weakly fair: the radio delivers what it does not lose, and losses are
  bounded. T2 and T3 are weakly fair: a timer that stays running expires because `Router::poll`
  is called for ever. T1 is strongly fair, because the frames of keep-alive polls put something
  on the air again and again and so interrupt the condition `Quiet`; T1 is shorter than T3 (15 s
  and 60 s by default), so it does run out between two of them. Applications are not fair.
* `modem` and `modem_stop`. Threads are scheduled, the card plays, hold-offs pass (weak); the persistence
  test succeeds now and then and the RX thread tests `g_running` after each buffer (strong). Nothing
  is assumed of hosts, channel and spurious wake-ups; `StopsIfWoken` takes it as its hypothesis that
  the TX thread does not sleep on `tx_queue_cv` for ever.
* `bbs`. The one thread runs (weak); the deadlines of `on_recv` and of the shutdown pass, scripts
  do not loop for ever and external commands end (strong): the last two are up to their
  authors, and `ClosedReaped` and `Stops` hold only as far.
* `terminals`. The thread runs, one read holds finitely many frames and the
  Router finitely many connections (weak); the second of the shutdown passes and scripts end (strong), which is up to their authors. Nothing is assumed of
  peers, user and signals.
* `bridge`. The main thread (weak) and the dispatch thread (weak); not the radio, the hosts or
  the signal.
* `basic` checks safety only.

## 5. Findings

1. `link_poll`: the comment at lib/ax25lib.cpp:636 says a P=1 poll must be answered with
   F=1. `poll_sent_` takes any RR with P/F for an answer while it is positive, and it is positive
   not only between a poll and its answer: `flush_window` counts the P=1 of its last I-frame too,
   and a poll that was lost, or answered by an I-frame or REJ, is never counted off. In the run a
   keep-alive poll is on its way while its receiver fills the window, which counts a poll; the
   keep-alive is then taken for the answer and swallowed, with no frame lost, and T1 of the
   other station fails the link.
2. `link_stale_sabm`: the comment at lib/ax25lib.cpp:467 says popped frames have been
   acknowledged. When T1 of a call expires while the UA is on its way, the second SABM
   resets one end of an open link; the N(R) that follows is not in the window of the other,
   and `process_nr` drops what it does not cover.
3. `link_keep_alive`: DESIGN.md:65 says a link is declared failed after N2 retries. A
   connected link with nothing in flight is failed at the first T1 after a keep-alive poll.
4. `modem_stop`: kiss_modem.cpp:613 says "Ctrl-C to stop." and kiss_modem/README.md:594 that Ctrl-C
   releases the PTT. `g_running` is cleared and the condition notified (958) without the mutex: between
   the predicate and the wait of the TX thread both are missed, and the join never returns.

`NoSilentLoss` and `ImplementsService` hold in `link_session`, where T1 of a call is not early; finding 2 is exactly what lies beyond that assumption.

Five more promises of the repository fail. Each is a property stated in its module and left out of the
cfg of its run: added to `Modem.cfg` or `Terminals.cfg` as a PROPERTY (`NoEcho` as an INVARIANT), TLC
finds it violated.

* `KissModem!NoEcho`. The comments at kiss_modem.cpp:630-632 and 647 say that the mute keeps the TNC's own
  frames from the hosts. It is lifted (851) when the playback has drained, which says nothing of
  the capture side: an own frame still in its buffers, or decoded by an RX thread that reads
  `tx_active` late, is given to the hosts. It takes a capture path that lags by more than TXTAIL,
  which may be 0.
* `KissModem!HoldOff`. spec.md:50 says that CSMA does not start within dwait of the last received frame.
  The TX thread reads the time of that frame once (749), before it sleeps, waits for the carrier to
  drop and settles; a frame received meanwhile, the one whose carrier it waits out included, gets
  no hold-off.
* `Terminals!Farewell`. `~.` is "disconnect and exit" (ax25tnc.cpp:781). When a frame was heard just before,
  `Router::tx` queues the DISC for the turnaround; the program leaves its loop at once, and the polls
  at the end (824: "A single poll() is not enough") are for links still connected. The DISC goes
  with the process. In tnc mode and in ax25sim the shutdown polls, which is `HungUp`.
* `Terminals!CtrlCExits`. monitor, unproto and test print "Ctrl-C to exit" (ax25tnc.cpp:443, 485, 1563);
  the handler (117) sets `g_quit` at the second one only. ax25sim, in turn, says that a second
  Ctrl-C within five seconds ends it (518), and its loop sets the count back to 0 when it warns of the
  first (`SimReap`, 882): only two between two rounds count.
* `Terminals!SecondCallRefused`. The comment at ax25tnc.cpp:1320 says that the library refuses a second
  caller with DM. `on_accept` returns, and `Router::route` goes on to answer UA: the link stays open,
  with no callbacks and nobody who will close it.

Further observations. They shaped the properties, which state what does hold:

* BBS: a write to a command that has exited raises SIGPIPE and ends the program; `dead_` names
  sessions by callsign, so a session reopened by a SABM before it is reaped is erased
  (`LiveKept` is stated for sessions never disconnected).
* Bridge: match rules and signals of an earlier BLE session outlive it. A stale Connected=false
  ends the next session; `ble_disconnect` then believes the link is gone and leaves it up; the
  attempt after that finds the device connected and disconnects it first, and so on to the last
  attempt. `EndsForCause` is therefore stated for the first BLE session and all RFCOMM ones: with
  MaxReconnects = 2 the stronger form has a counterexample. A link lost before its match rule is
  added is reported to nobody (`link = "silent"`), and the attempt counter is never reset.
* Terminals. After its first hang-up ax25tnc listens again without the guard of `on_accept`, so
  that a second caller takes the place of a live connection; the hang-up of either then
  files the other for deletion. ax25sim exits without closing a call it accepts during its
  shutdown. In tnc mode a script has no Router to poll, and its RECV only times out. WIN, T1, T3,
  MTU and TXDELAY change the program's own configuration, of which Router and connections have
  copies. MYCALL makes the Router deaf to open connections of the old callsign.
* BASIC: a DO that repeats inside a DO (or in a SUB called from one, as in scripts/email.bas)
  leaves frames that the outer LOOP takes for its own; a single-line IF in a later branch of a
  block IF ends the program; `ELSE IF` in two words is taken for ELSE; a FOR takes over the
  frame of a caller's loop with the same variable; EXIT out of a block IF or SELECT leaves its
  frame; END in a SUB only returns, and a GOSUB in a SUB to a line below it returns from the SUB.

## 6. The proofs

**`ConnectionProofs`** proves, for every modulus, window below it, N2 and set of chunks, and
with the bounds of the model left as arbitrary naturals, that every invariant of `conn_env`
is an invariant of `ConnectionEnv!Spec` (`TypeCorrect`, `WindowBounded`, `LinkSupervised`,
`ClosedQuiet`, `RetriesBounded`, `QueueServed`, `AckTimed`). The assumptions are those of
`Connection`: `NoData` is no chunk, the modulus exceeds 1, the window lies in
1 .. Modulus - 1, N2 is a natural number.

They follow from one inductive invariant (`IInv`): the record is `Sound` (types and window,
and for each state the timers that run, the retries, the owed acknowledgement), and in a
clean session the queue is `Served`. The conjuncts lean on each other: a hang-up that ends
(`Down`) stops T1 only, so that it leaves no T3 behind needs that T3 runs in a connected
record only; T1 with nothing in flight leaves a link without T1, so that it is still
watched needs the `t3 \/ (t1 /\ pollPending)` of `Supervised`; `NoIdleQueue` needs
`WindowBound`, or a queue beyond the window would count as full. The proof goes up the call graph of the
code: one lemma per function says what it keeps (`Kept`, `Heard`, `Same`, `Untimed`) and
what it establishes (`Served`, `Sound`), the lemmas of `handle_frame` and `tick` combine
them per state and per timer, and `NextIInv` has one step per action. The lemmas about the
operators are in **`ConnectionLemmas`**, which `Ax25LinkProofs` uses as well.

**`Ax25LinkProofs`** proves of two stations and a path that loses frames, for every modulus,
window below it, role of the stations and bound: the types (`LinkTypeCorrect`), the numbers in
flight (`LinkConsecutive`), the agreement of the windows (`LinkWindowsAgree`), that no chunk is
lost silently (`LinkNoSilentLoss`), and that the link implements `LinkService`
(`LinkImplementsService`). Only the first of them is nearly inductive (with the soundness of both
records, `Typed`). The others lean on one another: a station renumbers what is unacknowledged
from `va_`, which is right only if the N(R) it last believed was the peer's, of this session, and
not a window old; and that rests on what every frame still on its way says.

The inductive invariant `LinkInv` therefore looks at the link as two *views*. A view counts
without wrapping: `b` is the first chunk of the session, `lo` and `hi` the ends of its window
counted from `b`; `Speaker` says that `va_`, `vs_`, `vr_`, the N(S) and the chunks in
`unacked_` and `send_buf_` are those numbers modulo `Modulus`. For each direction,

* `Control` says which control frames may be under way in which states of the two ends, and in
  which order: never two SABMs one behind the other, no numbered frame behind a SABM to a
  station that is connected, and nothing of a session behind a UA whose sender has closed;
* `Session` says of the live part of a channel, what its receiver will take before a SABM
  resets it (`Live`), that the I frames are of one session, less than a window ahead of
  what was received and less than a window behind (`Chunks`, `Rising`), and that the N(R) are
  of chunks the peer's application has, rising along the channel (`Answers`, `Ordered`).

Two lemmas are the heart of it: `InWindow`, that in a window shorter than the modulus a number
stands for one chunk only, and `HeadNumbered`, that the frame a station reads next, if its N(S)
is the expected one, carries the very next chunk of the session (`Due`). From the lemmas
about the code (`ConnectionLemmas`: `Talking` for a session that goes on, `Fresh` for one that
starts again) each action is a step of views: a session begins (`Begins`), the station
talks (`Talks`), or nothing of its session changes (`Idles`); `NextLink` has one case per action
and gives `LinkInv'` together with this (`Steps`). The theorems follow from the two: an action
property and the refinement need no more of the code than `Steps`. TLC checked the parts of the
invariant on small links before they were proved.

`LinkConsecutive` and the theorems after it have the hypothesis `"CONNECTING" \notin PrematureT1`:
T1 does not expire between a SABM and its answer. All runs but `link_stale_sabm` choose their
constants so, and the code counts on it (`compute_t1`: T1 is the larger of `t1_ms`, 15 s by
default, and five times a full window's time on the air). It is no convenience of the proof: with it lifted, as in `LinkStaleSabm.cfg`, and not
one frame lost, TLC finds `Consecutive`, `WindowsAgree` and `NoSilentLoss` violated, since the
second SABM restarts the called side in the middle of a session the caller believes to go on
(finding 2). `ImplementsService` needs the hypothesis as well: with a third chunk to send
(`Data = {1,2,3}`, `MaxSend = 3`) TLC finds a step of that link that is none of the service,
the two chunks of `LinkStaleSabm.cfg` being too few to show it. In the other states T1 may
expire as early as it likes, and T3 in all of them: the theorems cover every other
`PrematureT1`, and both values of `PrematureT3`.

The last section proves what users of `LinkService` are handed in each session: a run of
consecutive chunks accepted by the peer's `send`, of one session only (`ServiceInOrder`, from an
inductive invariant of the service alone). With `LinkImplementsService` it gives the same of two
applications on a link (`LinkInOrder`).

The programs around the connection each have a module of proofs of the same build: the
inductive invariant, one lemma per group of actions that says what the group keeps, `NextIInv`
with one case per action, and the theorems. Every constant is arbitrary within the module's
assumptions, bounds included. TLC checked each inductive invariant on the program's run first.

**`TerminalsProofs`**: no dangling pointer (`NoDanglingPointers`), no unattended link
(`EveryLinkAttended`), typed lines are data (`TypedLinesAreData`), every link hung up at the end and
its DISC offered to the channel (`LinksHungUp`). None is inductive alone. That `conn` outlives a poll
needs that a script holds a pointer only where nothing is deleted (`ScriptRuns`); that deletion spares
`conn` needs that `conn` is not in `dead_conns` (`Held`), which needs that each callback files the
object it clears; that the only link open at the end is `conn` needs `Known` all along, and
`Ending` during the shutdown, when new calls still come. The DISC needs `Offered`: outside
connect mode, between the last read of the shutdown and the exit, a turnaround that lasts or a DISC
still queued means that the poll found the turnaround not over (`held`); nothing after it, the DISC
that `tick` repeats included, fills the queue again once the turnaround has passed. That a DISC left so is ever heard is not claimed: nothing is sent after the exit.

**`KissModemProofs`**: the types (`TypeCorrect`), the order of the frames (`FramesInHostOrder`),
the release of the radio (`RadioReleased`), and playing only while keyed and muted
(`PlaysOnlyKeyed`, where playback cannot stall; with a CoreAudio ring that stalls the drain gives
up with chunks left, and they do play into a radio that is no longer keyed). The key needs
`Keying`, what the controller believes against what the hardware last obeyed at each label of each
thread, and `Draining`, that chunks wait only inside a transmission. Order needs `Numbered`: with at
most one supervisory frame of a connection in the queue, replacing it in its place passes no other
frame of its connection. That no own frame comes back is not among the theorems: it fails
(section 5).

**`BbsProofs`**: the references held across nested polls (`ReferencesHold`) and the reaper
(`ReaperSpares`). The stack of activations has no bound, and the proof reduces it to two sets, the
users it serves and those for whom a script or a command runs (`Reduced`); pushing and popping
an activation changes each by one user. `Dying`, that every name in `dead_` is of a session
disconnected since it was accepted, carries `LiveKept`.

**`BridgeProofs`**: the descriptors (`DescriptorsOwned`, `NothingLeaks`), the hosts
(`ClientsKept`) and the ends of sessions (`SessionsEndForCause`). A number closed by one thread is
opened again by the other, so the invariant says who holds each number, and that a write end
closed by the filter is not its holder's any more between the `close` and the assignment that
forgets it (`Held`: `NoLeak` without this is not inductive); where `run_session` and the two
calls of the transport are (`Control`); that a handle lives from its creation to
`ble_disconnect`, or its descriptors would be lost with the next one (`Handle`); that the
locals of a turn name what they named when it began (`Turn`). `Given`, that a client is dropped
only when it has hung up, carries `KeptClients`; `Truthful`, that a flag, a signal on the bus or
an end of file means a lost link, carries `EndsForCause`.

**`BasicProofs`**: the stacks (`StacksBalanced`) and the return of calls (`CallsComeBack`), of every
program that is `Tidy`, whatever its length and depth, for every bound on its loops, with `interrupt()` at
any point. `Tidy` is a hypothesis on the text, `Tidy /\ Spec => []Balanced`: without it the
properties do not hold (section 5), and each of its parts names one thing the interpreter gets
wrong. The proof has two halves.

* The text. `Nest` goes up and down by one from line to line, so a block and its end have nothing
  shallower between them (`Deeper`) and two blocks do not overlap (`Laminar`); below a line a block
  has as many ends of each kind as beginnings (`Even`); so a scan that counts the keywords of one kind
  finds the end that the nesting of all of them gives (`PartnerIs`, and `FindWend`, `FindLoop`,
  `FindEndIf`, `FindEndSelect`, `FindNext`, `FindBranch`, `FindCase`, `FindFirst` for the scans of
  the code). `Around` is what encloses a line, and it changes by one block at a time.
* The run. `Balanced` speaks of the beginning of a line only, and a statement may leave the line
  in the middle of a SUB, so the inductive invariant `BasicInv` is about the line the
  interpreter is on its way to (`Here`): above what the innermost call has to come back to (`Base`), the
  stacks list the blocks around `Here` (`StacksFit`); what each open call holds fits the place it comes
  back to, in frames of loops that call (`CallHolds`, `DosHold`), which no routine touches
  because no routine has a loop of that variable (`OwnVars`); a SUB stays in its body and a routine in its
  lines (`Placed`, `ExitsOutside`); `pending` is the two call stacks, one after the other (`Matching`).
  An interrupted `call_proc` returns from wherever it is, blocks open: from then on the stacks mean
  nothing, and the invariant says instead that no line begins any more (`Away`).

Each keyword has its lemma (`ForKeeps`, `CaseKeeps`, ...): where the scan lands, the blocks around that
line are what the statement made of the stacks (`Fine`, `Onward`).

Only model-checked among the safety properties: `Structured`, which compares each jump with `Follows` and, unlike
the other two, also fails in a tidy program with an empty branch, where the line before does not tell whether the
branch was taken. Liveness is outside the prover's reach (`ChunksLeave`, `Settles`,
`HalfOpenEnds`, `StopsIfWoken`, `FramesLeave`, `ClosedReaped`, `Stops`, `LossNoticed`, `Ends`), as
are ENABLED and induction over recursive definitions.

## 7. Not modelled

The codecs (pure functions on bytes with unit tests; a broken frame counts as lost), the
ax25kiss and ax25send (UI frames only), bt_sniffer, configuration and scripts. Of the modelled programs: device I/O and
signal processing, discovery of devices and of GATT characteristics, the macOS transports
(a vendor framework carries their state), text, options and monitors, the values and files of
BASIC. Within the Router: UI frames, and the turnaround queue except for the DISCs of `Terminals`:
it delays and does not reorder. Within the link: two stations only, frames in order, no digipeaters
(`ConnectionEnv` has any order), corruption appears as loss because the frame check drops it.
Races on data without a lock whose outcome is a damaged container (the TNC's list of TCP
clients) are listed as hazards only.
