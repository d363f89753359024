----------------------------- MODULE RemoteChain -----------------------------
(***************************************************************************)
(* A key of the USB remote drives the robot: its frames (RemoteKeys) are   *)
(* read by the bridge on a PC (tools/remote_bridge.py), whose two threads  *)
(* share a mailbox of one slot; each state is posted to the dashboard,     *)
(* which publishes it, and the executor jogs under a lease.  Frames,       *)
(* requests and answers may be lost, and a request that was given up may   *)
(* still be served later.                                                  *)
(*                                                                         *)
(* The scheduler of the PC is prompt: a read returns when its time is up   *)
(* and the worker takes what it finds.  Of the executor only the lease is  *)
(* here; MotionExecutor has the rest.                                      *)
(***************************************************************************)
EXTENDS RemoteKeys

CONSTANTS
    ReadTime,     \* longest serial read (100 ms)
    SerialLease,  \* silence that counts as a release (300 ms)
    PostTimeout,  \* longest request: --http-timeout (250 ms) bounds each wait of urlopen
                  \* (connect, send, receive), of which a request may take several
    Lease         \* lease_ms (500 ms)

ASSUME ChainAssumption ==
    /\ ReadTime \in Nat \ {0} /\ SerialLease \in Nat \ {0}
    /\ PostTimeout \in Nat \ {0} /\ Lease \in Nat \ {0}

VARIABLES
    turn,      \* who acts before the next tick: remote, bridge, network
    unread,    \* the newest frame not yet read; a read takes less than 64 bytes
    bridge,    \* running; closing: the finally clause; gone
    reading,   \* age of the current read
    silence,   \* age of last_frame
    stopped,
    pending,   \* LatestJogSender.pending, the mailbox
    worker,    \* the request being posted, or None
    stray,     \* a request given up that the dashboard may still serve, or None
    left,      \* what is left of the executor's lease
    wanted,    \* history: the state last submitted
    heard,     \* history: the state the executor heard last
    adrift,    \* history: the last request was given up, or a stray was heard after it
    revived,   \* history: the jog that runs was begun or renewed by a stray
    idle_for   \* history: ticks since the key has been let go

pc_side == <<bridge, reading, silence, stopped, pending>>
network == <<worker, stray>>
robot == <<left, heard, adrift, revived>>
vars == <<turn, keys, unread, pc_side, network, robot, wanted, idle_for>>

\* A request of post_jog; handled: the executor has heard it, the answer is due.
Posts == [direction : Directions \union {Idle}, age : 0..PostTimeout, handled : BOOLEAN]
ASSUME PostsAssumption == None \notin Posts

Post(direction) ==
    [direction |-> IF direction \in {Idle, Halt} THEN Idle ELSE direction,
     age |-> 0, handled |-> FALSE]

\* The longest a robot moves after the key was let go: the debouncing, the read
\* that returns the last frame, a request it waits for, its own, and the lease.
LongestTail == (Debounce - 1) + (ReadTime - 1) + 2 * PostTimeout + (Lease - 1)

TypeOK ==
    /\ turn \in {"remote", "bridge", "network"}
    /\ keys \in Keys
    /\ unread \in Commands \union {None}
    /\ bridge \in {"running", "closing", "gone"}
    /\ reading \in 0..ReadTime
    /\ silence \in 0..SerialLease
    /\ stopped \in BOOLEAN
    /\ pending \in Commands \union {None}
    /\ worker \in Posts \union {None}
    /\ stray \in Directions \union {Idle, None}
    /\ left \in 0..Lease
    /\ wanted \in Directions \union {Idle} /\ heard \in Directions \union {Idle}
    /\ adrift \in BOOLEAN /\ revived \in BOOLEAN
    /\ idle_for \in 0..(LongestTail + 1)

Init ==
    /\ KeysInit
    /\ turn = "remote" /\ unread = None
    /\ bridge = "running" /\ reading = 0 /\ silence = 0 /\ stopped = TRUE
    /\ pending = None /\ worker = None /\ stray = None
    /\ left = 0 /\ wanted = Idle /\ heard = Idle /\ adrift = FALSE /\ revived = FALSE
    /\ idle_for = LongestTail + 1

-----------------------------------------------------------------------------
(* The remote board: one pass of its loop between two ticks. *)

\* The key points nowhere, and has settled there.
LetGo(reading_of_key) ==
    reading_of_key \in {Idle, Halt, Broken} /\ reading_of_key \in {keys.candidate, Broken}

RemoteLoop(reading_of_key, lost) ==
    LET sampled == AfterSample(reading_of_key)
        frame == Sends(sampled)
    IN /\ turn = "remote" /\ turn' = "bridge"
       /\ keys' = AfterSend(sampled)
       /\ unread' = IF frame = None \/ lost THEN unread ELSE frame
       /\ idle_for' = IF LetGo(reading_of_key) THEN idle_for ELSE 0
       /\ UNCHANGED <<pc_side, network, robot, wanted>>

-----------------------------------------------------------------------------
(* The bridge. *)

\* Mutant: the mailbox keeps what it has.
SubmitIfEmpty(direction) == pending' = IF pending = None THEN direction ELSE pending

\* submit: the one slot is written over.
Submit(direction) == pending' = direction

\* The read is up.  frames[-1:] is forwarded, or the line has been silent.
Read ==
    /\ turn = "bridge" /\ turn' = "network"
    /\ bridge = "running" /\ reading = ReadTime
    /\ reading' = 0
    /\ unread' = None
    /\ \/ /\ unread # None
          /\ silence' = 0
          /\ Submit(unread)
          /\ stopped' = (unread \in {Idle, Halt})
          /\ wanted' = Post(unread).direction
       \/ /\ unread = None /\ ~stopped /\ silence = SerialLease
          /\ Submit(Idle)
          /\ stopped' = TRUE /\ wanted' = Idle
          /\ UNCHANGED silence
       \/ /\ unread = None /\ (stopped \/ silence < SerialLease)
          /\ UNCHANGED <<silence, pending, stopped, wanted>>
    /\ UNCHANGED <<keys, bridge, network, robot, idle_for>>

NoRead ==
    /\ turn = "bridge" /\ turn' = "network"
    /\ bridge # "running" \/ reading < ReadTime
    /\ UNCHANGED <<keys, unread, pc_side, network, robot, wanted, idle_for>>

\* run: the worker empties the mailbox.
Take ==
    /\ bridge = "running" /\ pending # None /\ worker = None
    /\ worker' = Post(pending)
    /\ pending' = None
    /\ UNCHANGED <<turn, keys, unread, bridge, reading, silence, stopped, stray, robot,
                   wanted, idle_for>>

\* Ctrl-C, or the remote is pulled out: the worker finishes, without the mailbox.
Quit ==
    /\ bridge = "running"
    /\ bridge' = "closing"
    /\ pending' = None
    /\ UNCHANGED <<turn, keys, unread, reading, silence, stopped, network, robot, wanted,
                   idle_for>>

\* The finally clause posts a release, after close() has joined the worker.  A join that
\* gives up leaves the worker's request to the network: that is Fail, possible at any
\* age, and the request a stray that may be served before, beside or after the release.
LastPost ==
    /\ bridge = "closing" /\ worker = None
    /\ bridge' = "gone"
    /\ worker' = Post(Idle)
    /\ wanted' = Idle
    /\ UNCHANGED <<turn, keys, unread, reading, silence, stopped, pending, stray, robot,
                   idle_for>>

-----------------------------------------------------------------------------
(* The network, the dashboard and the executor. *)

Hears(direction) ==
    /\ heard' = direction
    /\ left' = IF direction = Idle THEN 0 ELSE Lease

\* do_POST publishes the jog, on_jog begins, renews or ends it.
Serve ==
    /\ worker # None /\ ~worker.handled
    /\ worker' = [worker EXCEPT !.handled = TRUE]
    /\ Hears(worker.direction)
    /\ adrift' = FALSE /\ revived' = FALSE
    /\ UNCHANGED <<turn, keys, unread, pc_side, stray, wanted, idle_for>>

Answer ==
    /\ worker # None /\ worker.handled
    /\ worker' = None
    /\ UNCHANGED <<turn, keys, unread, pc_side, stray, robot, wanted, idle_for>>

\* Mutant: a request that failed is tried again.
Retry(post) == pending' = IF pending = None THEN post.direction ELSE pending

\* Nothing is tried again; the lease on the robot ends what it must.
GiveUpOn(post) == UNCHANGED pending

\* An error, or a time-out.  The server may have it all the same.
Fail ==
    /\ worker # None
    /\ worker' = None
    /\ stray' \in {stray} \union IF worker.handled THEN {} ELSE {worker.direction}
    /\ adrift' = (adrift \/ ~worker.handled)
    /\ GiveUpOn(worker)
    /\ UNCHANGED <<turn, keys, unread, bridge, reading, silence, stopped, left, heard,
                   revived, wanted, idle_for>>

\* Another thread of the dashboard serves a request nobody waits for any more.
ServeStray ==
    /\ stray # None
    /\ stray' = None
    /\ Hears(stray)
    /\ adrift' = TRUE /\ revived' = TRUE
    /\ UNCHANGED <<turn, keys, unread, pc_side, worker, wanted, idle_for>>

-----------------------------------------------------------------------------

LeaseRuns == IF left = 0 THEN 0 ELSE left - 1

\* Time passes once everybody had a turn: a request that is as old as the longest one
\* has been answered or given up and the mailbox emptied.
Tick ==
    /\ turn = "network" /\ turn' = "remote"
    /\ worker # None => worker.age < PostTimeout
    /\ bridge = "running" => pending = None \/ worker # None
    /\ bridge # "closing" \/ worker # None
    /\ keys' = Later(keys)
    /\ reading' = IF reading < ReadTime THEN reading + 1 ELSE reading
    /\ silence' = IF silence < SerialLease THEN silence + 1 ELSE silence
    /\ worker' = IF worker = None THEN None ELSE [worker EXCEPT !.age = @ + 1]
    /\ left' = LeaseRuns
    /\ idle_for' = IF idle_for > LongestTail THEN idle_for ELSE idle_for + 1
    /\ UNCHANGED <<unread, bridge, stopped, pending, stray, heard, adrift, revived, wanted>>

Next ==
    \/ \E reading_of_key \in Commands \union {Broken}, lost \in BOOLEAN :
          RemoteLoop(reading_of_key, lost)
    \/ Read \/ NoRead \/ Take \/ Quit \/ LastPost
    \/ Serve \/ Answer \/ Fail \/ ServeStray
    \/ Tick

Spec == Init /\ [][Next]_vars

-----------------------------------------------------------------------------
(* Properties. *)

\* docs/windows-stc-remote.md: the mailbox writes over older renewals, and no
\* direction passes a release that has arrived.  When the bridge has nothing left
\* to post, the robot has heard last what the bridge wanted last, unless a request
\* was given up.
LatestWins ==
    /\ pending = None /\ (worker = None \/ worker.handled)
    /\ bridge # "closing" /\ ~adrift
    => heard = wanted

\* docs/windows-stc-remote.md: the lease on the robot does not rely on a stop that
\* arrives.  Whatever is lost or late, a key that was let go moves the robot for no
\* longer than the waits on its way add up to, unless a request that was given up
\* is served after all.
DeadMan == left > 0 /\ ~revived => idle_for <= LongestTail
=============================================================================
