-------------------------- MODULE RemoteChainProofs --------------------------
(***************************************************************************)
(* What the chain from a key of the remote to the wheels promises for      *)
(* every choice of its waits: everything keeps its type, the newest state  *)
(* wins, and a key that was let go moves the robot for no longer than the  *)
(* waits on its way add up to.                                             *)
(*                                                                         *)
(* The last is proved stage by stage.  A direction that is still in the    *)
(* key, unread, in the mailbox, on its way or under the lease is as old as *)
(* the waits before that stage and its age there.                          *)
(***************************************************************************)
EXTENDS RemoteChain, TLAPS

\* What the bridge has not posted yet is what it wants.
MailboxWanted == bridge # "closing" /\ pending # None => wanted = Post(pending).direction
PostWanted ==
    bridge # "closing" /\ pending = None /\ worker # None /\ ~worker.handled
    => wanted = worker.direction
MailboxClosed == bridge # "running" => pending = None

Wanted == MailboxWanted /\ PostWanted /\ MailboxClosed /\ LatestWins

\* The waits up to the mailbox.
UntilRead == (Debounce - 1) + (ReadTime - 1)

KeyFresh ==
    keys.stable \in Directions =>
        /\ keys.valid
        /\ keys.candidate \notin Directions => idle_for <= keys.changed
        /\ turn # "remote" => idle_for <= Debounce - 1
        /\ turn # "remote" /\ keys.candidate \notin Directions => keys.changed < Debounce
        /\ turn = "remote" => reading >= 1
FirstPass == turn = "remote" /\ reading = 0 => ~keys.valid
UnreadFresh ==
    unread \in Directions /\ bridge = "running" =>
        /\ idle_for <= (Debounce - 1) + (reading - 1)
        /\ turn = "network" => reading < ReadTime
MailFresh ==
    pending \in Directions =>
        idle_for <= UntilRead + (IF worker = None THEN PostTimeout ELSE worker.age)
PostFresh ==
    worker # None /\ worker.direction \in Directions /\ ~worker.handled =>
        idle_for <= UntilRead + PostTimeout + worker.age
LeaseFresh ==
    left > 0 /\ ~revived => idle_for <= UntilRead + 2 * PostTimeout + (Lease - left)

Fresh == KeyFresh /\ FirstPass /\ UnreadFresh /\ MailFresh /\ PostFresh /\ LeaseFresh

-----------------------------------------------------------------------------
(* The remote board. *)

LEMMA SampleTyped ==
    ASSUME keys \in Keys, NEW r \in Commands \union {Broken}
    PROVE  AfterSample(r) \in Keys
<1>1. ReleaseFrames \in 0..ReleaseFrames /\ 0 \in 0..ReleaseFrames
  BY DEF ReleaseFrames
<1>2. 0 \in 0..Debounce /\ 0 \in 0..(ReleaseGap + Repeat)
  BY TimesAssumption
<1>3. Idle \in Commands
  BY DEF Commands
<1>4. CASE r = Broken
  BY <1>1, <1>2, <1>3, <1>4 DEF AfterSample, Unreadable, Keys
<1>5. CASE r # Broken
  <2>1. r \in Commands
    BY <1>5
  <2>2. Sampled(keys, r) \in Keys
    BY <1>1, <1>2, <1>3, <2>1 DEF Sampled, Keys
  <2> QED  BY <1>5, <2>2 DEF AfterSample
<1> QED  BY <1>4, <1>5

LEMMA SendTyped ==
    ASSUME NEW s \in Keys
    PROVE  /\ AfterSend(s) \in Keys
           /\ AfterSend(s).stable = s.stable /\ AfterSend(s).candidate = s.candidate
           /\ AfterSend(s).valid = s.valid /\ AfterSend(s).changed = s.changed
<1>1. ReleaseGap \in 0..(ReleaseGap + Repeat) /\ Repeat \in 0..(ReleaseGap + Repeat)
  BY TimesAssumption
<1>2. s.release_frames > 0 => s.release_frames - 1 \in 0..ReleaseFrames
  BY DEF Keys, ReleaseFrames
<1> QED  BY <1>1, <1>2 DEF AfterSend, Keys

LEMMA SendsTyped ==
    ASSUME NEW s \in Keys
    PROVE  /\ Sends(s) \in Commands \union {None}
           /\ Sends(s) \in Directions => s.stable \in Directions
<1>1. Idle \in Commands /\ Idle \notin Directions /\ None \notin Directions
  BY CommandsAssumption, NoneAssumption DEF Commands
<1> QED  BY <1>1 DEF Sends, Keys

LEMMA LaterTyped ==
    ASSUME NEW s \in Keys
    PROVE  /\ Later(s) \in Keys
           /\ Later(s).stable = s.stable /\ Later(s).candidate = s.candidate
           /\ Later(s).valid = s.valid
           /\ s.changed < Debounce => Later(s).changed = s.changed + 1
<1>1. s.changed < Debounce => s.changed + 1 \in 0..Debounce
  BY TimesAssumption DEF Keys
<1>2. s.wait > 0 => s.wait - 1 \in 0..(ReleaseGap + Repeat)
  BY TimesAssumption DEF Keys
<1>3. Later(s) \in Keys
  <2> DEFINE changed == IF s.changed < Debounce THEN s.changed + 1 ELSE s.changed
             wait == IF s.wait > 0 THEN s.wait - 1 ELSE 0
  <2>1. changed \in 0..Debounce
    BY <1>1 DEF Keys
  <2>2. wait \in 0..(ReleaseGap + Repeat)
    BY <1>2, TimesAssumption DEF Keys
  <2>3. Later(s) = [s EXCEPT !.changed = changed, !.wait = wait]
    BY DEF Later
  <2> HIDE DEF changed, wait
  <2> QED  BY <2>1, <2>2, <2>3 DEF Keys
<1>4. /\ Later(s).stable = s.stable /\ Later(s).candidate = s.candidate
      /\ Later(s).valid = s.valid
  BY DEF Later, Keys
<1>5. s.changed < Debounce => Later(s).changed = s.changed + 1
  BY DEF Later, Keys
<1> QED  BY <1>3, <1>4, <1>5

-----------------------------------------------------------------------------
(* Types. *)

LEMMA WaitsTyped ==
    /\ Debounce \in Nat \ {0} /\ ReadTime \in Nat \ {0} /\ PostTimeout \in Nat \ {0}
    /\ Lease \in Nat \ {0} /\ SerialLease \in Nat \ {0}
    /\ UntilRead \in Nat
    /\ LongestTail = UntilRead + 2 * PostTimeout + (Lease - 1) /\ LongestTail \in Nat
<1>1. Debounce \in Nat \ {0} /\ ReadTime \in Nat \ {0} /\ PostTimeout \in Nat \ {0}
      /\ Lease \in Nat \ {0} /\ SerialLease \in Nat \ {0}
  BY TimesAssumption, ChainAssumption
<1> QED  BY <1>1 DEF UntilRead, LongestTail

LEMMA PostTyped ==
    ASSUME NEW c \in Commands PROVE Post(c) \in Posts /\ Post(c).direction \in Directions \union {Idle}
<1>1. 0 \in 0..PostTimeout
  BY WaitsTyped
<1>2. Post(c).direction \in Directions \union {Idle}
  BY DEF Post, Commands
<1> QED  BY <1>1, <1>2 DEF Post, Posts

\* The parts of TypeOK that different steps touch.
PcTyped ==
    /\ unread \in Commands \union {None}
    /\ bridge \in {"running", "closing", "gone"} /\ reading \in 0..ReadTime
    /\ silence \in 0..SerialLease /\ stopped \in BOOLEAN
    /\ pending \in Commands \union {None} /\ wanted \in Directions \union {Idle}
NetTyped ==
    /\ worker \in Posts \union {None} /\ stray \in Directions \union {Idle, None}
    /\ left \in 0..Lease /\ heard \in Directions \union {Idle}
    /\ adrift \in BOOLEAN /\ revived \in BOOLEAN
ClockTyped ==
    /\ turn \in {"remote", "bridge", "network"} /\ keys \in Keys
    /\ idle_for \in 0..(LongestTail + 1)

LEMMA TypeParts == TypeOK <=> PcTyped /\ NetTyped /\ ClockTyped
BY DEF TypeOK, PcTyped, NetTyped, ClockTyped

LEMMA RemoteTyped ==
    ASSUME TypeOK, NEW r \in Commands \union {Broken}, NEW lost \in BOOLEAN, RemoteLoop(r, lost)
    PROVE  (PcTyped /\ NetTyped /\ ClockTyped)'
<1>1. AfterSample(r) \in Keys
  BY SampleTyped DEF TypeOK
<1>2. keys' \in Keys
  BY <1>1, SendTyped DEF RemoteLoop
<1>3. unread' \in Commands \union {None}
  BY <1>1, SendsTyped DEF RemoteLoop, TypeOK
<1>4. idle_for' \in 0..(LongestTail + 1)
  BY WaitsTyped DEF RemoteLoop, TypeOK
<1>5. turn' = "bridge" /\ UNCHANGED <<pc_side, network, robot, wanted>>
  BY DEF RemoteLoop
<1> QED
  BY <1>2, <1>3, <1>4, <1>5
     DEF TypeOK, PcTyped, NetTyped, ClockTyped, pc_side, network, robot

LEMMA BridgeTyped ==
    ASSUME TypeOK, Read \/ NoRead \/ Take \/ Quit \/ LastPost
    PROVE  (PcTyped /\ NetTyped /\ ClockTyped)'
<1> USE DEF PcTyped, NetTyped, ClockTyped
<1>1. PcTyped /\ NetTyped /\ ClockTyped
  BY TypeParts
<1>2. Idle \in Commands /\ 0 \in 0..ReadTime /\ 0 \in 0..SerialLease
  BY WaitsTyped DEF Commands
<1>3. CASE Read
  <2>1. unread # None => Post(unread).direction \in Directions \union {Idle}
    BY <1>1, PostTyped
  <2>2. PcTyped'
    <3>1. unread' = None /\ reading' = 0 /\ bridge' = bridge
      BY <1>3 DEF Read
    <3>2. silence' \in 0..SerialLease
      BY <1>1, <1>2, <1>3 DEF Read
    <3>3. stopped' \in BOOLEAN
      <4>1. \/ stopped' = (unread \in {Idle, Halt}) \/ stopped' = TRUE \/ stopped' = stopped
        BY <1>3 DEF Read
      <4>2. CASE stopped' = (unread \in {Idle, Halt})
        BY <4>2
      <4> QED  BY <1>1, <4>1, <4>2
    <3>4. pending' \in Commands \union {None}
      BY <1>1, <1>2, <1>3 DEF Read, Submit
    <3>5. wanted' \in Directions \union {Idle}
      <4>1. \/ wanted' = wanted \/ wanted' = Idle
            \/ unread # None /\ wanted' = Post(unread).direction
        BY <1>3 DEF Read
      <4> QED  BY <1>1, <2>1, <4>1
    <3> QED  BY <1>1, <1>2, <3>1, <3>2, <3>3, <3>4, <3>5
  <2> QED  BY <1>1, <1>3, <2>2 DEF Read, network, robot
<1>4. CASE NoRead
  BY <1>1, <1>4 DEF NoRead, pc_side, network, robot
<1>5. CASE Take
  <2>1. worker' \in Posts
    BY <1>1, <1>5, PostTyped DEF Take
  <2> QED  BY <1>1, <1>5, <2>1 DEF Take, robot
<1>6. CASE Quit
  BY <1>1, <1>6 DEF Quit, network, robot
<1>7. CASE LastPost
  <2>1. worker' \in Posts
    BY <1>2, <1>7, PostTyped DEF LastPost
  <2> QED  BY <1>1, <1>7, <2>1 DEF LastPost, robot
<1> QED  BY <1>3, <1>4, <1>5, <1>6, <1>7

LEMMA NetworkTyped ==
    ASSUME TypeOK, Serve \/ Answer \/ Fail \/ ServeStray
    PROVE  (PcTyped /\ NetTyped /\ ClockTyped)'
<1>1. PcTyped /\ NetTyped /\ ClockTyped
  BY TypeParts
<1>2. Idle \notin Directions /\ None # Idle /\ None \notin Directions
  BY CommandsAssumption, NoneAssumption DEF Commands
<1>3. 0 \in 0..Lease /\ Lease \in 0..Lease
  BY WaitsTyped
<1>4. worker # None =>
         worker \in Posts /\ worker.direction \in Directions \union {Idle}
  BY <1>1 DEF NetTyped, Posts
<1>5. CASE Serve
  <2>1. worker' \in Posts
    BY <1>4, <1>5 DEF Serve, Posts
  <2>2. heard' \in Directions \union {Idle} /\ left' \in 0..Lease
    BY <1>3, <1>4, <1>5 DEF Serve, Hears
  <2> QED
    BY <1>1, <1>5, <2>1, <2>2 DEF Serve, PcTyped, NetTyped, ClockTyped, pc_side
<1>6. CASE Answer
  BY <1>1, <1>6 DEF Answer, PcTyped, NetTyped, ClockTyped, pc_side, robot
<1>7. CASE Fail
  <2>1. stray' \in Directions \union {Idle, None}
    BY <1>1, <1>4, <1>7 DEF Fail, NetTyped
  <2>2. adrift' \in BOOLEAN
    BY <1>7 DEF Fail
  <2> QED
    BY <1>1, <1>7, <2>1, <2>2 DEF Fail, GiveUpOn, PcTyped, NetTyped, ClockTyped
<1>8. CASE ServeStray
  <2>1. heard' \in Directions \union {Idle} /\ left' \in 0..Lease
    BY <1>1, <1>3, <1>8 DEF ServeStray, Hears, NetTyped
  <2> QED
    BY <1>1, <1>8, <2>1 DEF ServeStray, PcTyped, NetTyped, ClockTyped, pc_side
<1> QED  BY <1>5, <1>6, <1>7, <1>8

LEMMA PostAges ==
    ASSUME TypeOK, Tick, worker # None
    PROVE  worker \in Posts /\ worker' \in Posts /\ worker' = [worker EXCEPT !.age = @ + 1]
<1>1. worker \in Posts /\ worker.age < PostTimeout /\ worker' = [worker EXCEPT !.age = @ + 1]
  BY DEF Tick, TypeOK
<1>2. worker.age + 1 \in 0..PostTimeout
  BY <1>1, WaitsTyped DEF Posts
<1> QED  BY <1>1, <1>2 DEF Posts

LEMMA TickTyped ==
    ASSUME TypeOK, Tick PROVE (PcTyped /\ NetTyped /\ ClockTyped)'
<1>1. PcTyped /\ NetTyped /\ ClockTyped
  BY TypeParts
<1>2. keys' \in Keys
  BY <1>1, LaterTyped DEF Tick, ClockTyped
<1>3. reading' \in 0..ReadTime
  BY <1>1, WaitsTyped DEF Tick, PcTyped
<1>4. silence' \in 0..SerialLease
  BY <1>1, WaitsTyped DEF Tick, PcTyped
<1>5. worker' \in Posts \union {None}
  <2>1. CASE worker = None
    BY <2>1 DEF Tick
  <2>2. CASE worker # None
    BY <2>2, PostAges
  <2> QED  BY <2>1, <2>2
<1>6. left' \in 0..Lease
  BY <1>1, WaitsTyped DEF Tick, LeaseRuns, NetTyped
<1>7. idle_for' \in 0..(LongestTail + 1)
  BY <1>1, WaitsTyped DEF Tick, ClockTyped
<1> QED
  BY <1>1, <1>2, <1>3, <1>4, <1>5, <1>6, <1>7 DEF Tick, PcTyped, NetTyped, ClockTyped

\* Everything keeps its type, for every choice of the waits and any keys.
THEOREM Typing == Spec => []TypeOK
<1>1. Init => TypeOK
  <2> SUFFICES ASSUME Init PROVE PcTyped /\ NetTyped /\ ClockTyped
    BY TypeParts
  <2>1. keys \in Keys
    <3>1. 0 \in 0..Debounce /\ 0 \in 0..(ReleaseGap + Repeat) /\ 0 \in 0..ReleaseFrames
      BY TimesAssumption DEF ReleaseFrames
    <3>2. Idle \in Commands
      BY DEF Commands
    <3> QED  BY <3>1, <3>2 DEF Init, KeysInit, Keys
  <2>2. PcTyped
    <3>1. 0 \in 0..ReadTime /\ 0 \in 0..SerialLease
      BY WaitsTyped
    <3> QED  BY <3>1 DEF Init, PcTyped
  <2>3. NetTyped
    <3>1. 0 \in 0..Lease
      BY WaitsTyped
    <3> QED  BY <3>1 DEF Init, NetTyped
  <2>4. ClockTyped
    BY <2>1, WaitsTyped DEF Init, ClockTyped
  <2> QED  BY <2>2, <2>3, <2>4
<1>2. TypeOK /\ [Next]_vars => TypeOK'
  <2> SUFFICES ASSUME TypeOK, [Next]_vars PROVE (PcTyped /\ NetTyped /\ ClockTyped)'
    <3>1. (TypeOK <=> PcTyped /\ NetTyped /\ ClockTyped)'
      BY TypeParts, PTL
    <3> QED  BY <3>1
  <2>1. CASE UNCHANGED vars
    BY <2>1, TypeParts
       DEF vars, pc_side, network, robot, PcTyped, NetTyped, ClockTyped
  <2>2. CASE Next
    <3>1. CASE \E r \in Commands \union {Broken}, lost \in BOOLEAN : RemoteLoop(r, lost)
      BY <3>1, RemoteTyped
    <3> QED  BY <2>2, <3>1, BridgeTyped, NetworkTyped, TickTyped DEF Next
  <2> QED  BY <2>1, <2>2
<1> QED  BY <1>1, <1>2, PTL DEF Spec

-----------------------------------------------------------------------------
(* The newest state wins. *)

LEMMA WantedHolds == ASSUME TypeOK, Wanted, [Next]_vars PROVE Wanted'
<1> USE DEF Wanted, MailboxWanted, PostWanted, MailboxClosed, LatestWins
<1>1. None \notin Commands /\ Idle \in Commands /\ Post(Idle).direction = Idle
  BY NoneAssumption DEF Commands, Post
<1>2. \A c \in Commands : Post(c).handled = FALSE /\ Post(c) # None
  <2>1. \A c \in Commands : Post(c) # None
    BY PostTyped, PostsAssumption
  <2> QED  BY <2>1 DEF Post
<1>3. pending \in Commands \union {None} /\ worker \in Posts \union {None}
      /\ unread \in Commands \union {None}
  BY DEF TypeOK
<1>4. CASE UNCHANGED vars
  BY <1>4 DEF vars, pc_side, network, robot
<1>5. CASE \E r \in Commands \union {Broken}, lost \in BOOLEAN : RemoteLoop(r, lost)
  BY <1>5 DEF RemoteLoop, pc_side, network, robot
<1>6. CASE Read
  <2>1. /\ UNCHANGED <<bridge, worker, heard, adrift>> /\ bridge = "running"
        /\ \/ pending' = unread /\ unread # None /\ wanted' = Post(unread).direction
           \/ pending' = Idle /\ wanted' = Idle
           \/ UNCHANGED <<pending, wanted>>
    BY <1>6 DEF Read, Submit, network, robot
  <2>2. Idle # None
    BY <1>1
  <2> QED  BY <1>1, <2>1, <2>2
<1>7. CASE NoRead
  BY <1>7 DEF NoRead, pc_side, network, robot
<1>8. CASE Take
  <2>1. pending \in Commands
    BY <1>3, <1>8 DEF Take
  <2> QED  BY <1>2, <1>8, <2>1 DEF Take, robot
<1>9. CASE Quit
  BY <1>9 DEF Quit, network, robot
<1>10. CASE LastPost
  BY <1>1, <1>2, <1>10 DEF LastPost, robot
<1>11. CASE Serve
  <2>1. /\ worker # None /\ ~worker.handled /\ worker'.handled /\ heard' = worker.direction
        /\ UNCHANGED <<bridge, pending, wanted>>
    <3>1. worker \in Posts
      BY <1>3, <1>11 DEF Serve
    <3> QED  BY <1>11, <3>1 DEF Serve, Hears, pc_side, Posts
  <2> QED  BY <2>1
<1>12. CASE Answer
  BY <1>12 DEF Answer, pc_side, robot
<1>13. CASE Fail
  BY <1>13 DEF Fail, GiveUpOn
<1>14. CASE ServeStray
  BY <1>14 DEF ServeStray, pc_side
<1>15. CASE Tick
  <2>1. CASE worker = None
    BY <1>15, <2>1 DEF Tick
  <2>2. CASE worker # None
    <3>1. worker \in Posts /\ worker' = [worker EXCEPT !.age = @ + 1]
      BY <1>15, <2>2, PostAges
    <3>2. worker'.handled = worker.handled /\ worker'.direction = worker.direction
      BY <3>1 DEF Posts
    <3>3. UNCHANGED <<bridge, pending, wanted, heard, adrift>>
      BY <1>15 DEF Tick
    <3>4. worker' # None
      <4>1. worker' \in Posts
        BY <1>15, <2>2, PostAges
      <4> QED  BY <4>1, PostsAssumption
    <3> QED  BY <2>2, <3>2, <3>3, <3>4
  <2> QED  BY <2>1, <2>2
<1> QED
  BY <1>4, <1>5, <1>6, <1>7, <1>8, <1>9, <1>10, <1>11, <1>12, <1>13, <1>14, <1>15 DEF Next

\* Whatever is submitted, posted, lost and given up in whatever order: once the bridge
\* has nothing left to post, the robot has heard last what was wanted last.
THEOREM Latest_wins == Spec => []LatestWins
<1>1. Init => Wanted
  BY DEF Init, Wanted, MailboxWanted, PostWanted, MailboxClosed, LatestWins
<1>2. TypeOK /\ Wanted /\ [Next]_vars => Wanted'
  BY WantedHolds
<1>3. Wanted => LatestWins
  BY DEF Wanted
<1> QED  BY <1>1, <1>2, <1>3, Typing, PTL DEF Spec

-----------------------------------------------------------------------------
(* A key that was let go. *)

\* What the samples leave of a direction: it is being pressed, or the key has been
\* seen off it for less than the debouncing.
LEMMA SampleFresh ==
    ASSUME TypeOK, KeyFresh, FirstPass, turn = "remote",
           NEW r \in Commands \union {Broken}, AfterSample(r).stable \in Directions
    PROVE  /\ AfterSample(r).valid /\ AfterSample(r).candidate = r /\ r \in Commands
           /\ reading >= 1
           /\ r \notin Directions => /\ ~LetGo(r) \/ idle_for <= AfterSample(r).changed
                                     /\ AfterSample(r).changed < Debounce
<1>1. keys \in Keys /\ reading \in Nat
  BY DEF TypeOK
<1>2. Idle \notin Directions /\ Halt \notin Directions /\ Broken \notin Directions
  BY CommandsAssumption
<1>3. r # Broken /\ r \in Commands
  BY <1>2 DEF AfterSample, Unreadable
<1>4. AfterSample(r) = Sampled(keys, r)
  BY <1>3 DEF AfterSample
<1> DEFINE changed == IF keys.valid /\ r = keys.candidate THEN keys.changed ELSE 0
<1>5. /\ Sampled(keys, r).valid /\ Sampled(keys, r).candidate = r
      /\ Sampled(keys, r).changed = changed
  BY <1>1 DEF Sampled, Keys
<1>6. \/ keys.stable \in Directions /\ (r \in Directions \/ changed < Debounce)
      \/ r \in Directions /\ ~(changed < Debounce)
  BY <1>1, <1>4 DEF Sampled, Keys
<1>7. reading >= 1
  <2>1. CASE keys.stable \in Directions
    BY <2>1 DEF KeyFresh
  <2>2. CASE ~(changed < Debounce)
    <3>1. keys.valid
      BY <2>2, WaitsTyped
    <3> QED  BY <1>1, <3>1 DEF FirstPass
  <2> QED  BY <1>6, <2>1, <2>2
<1>8. ASSUME r \notin Directions
      PROVE  changed < Debounce /\ (~LetGo(r) \/ idle_for <= changed)
  <2>1. keys.stable \in Directions /\ changed < Debounce
    BY <1>6, <1>8
  <2>2. CASE LetGo(r)
    <3>1. r = keys.candidate /\ keys.valid /\ keys.candidate \notin Directions
      BY <1>3, <1>8, <2>1, <2>2 DEF LetGo, KeyFresh
    <3> QED  BY <2>1, <3>1 DEF KeyFresh
  <2> QED  BY <2>1, <2>2
<1> QED  BY <1>3, <1>4, <1>5, <1>7, <1>8

LEMMA RemoteFresh ==
    ASSUME TypeOK, Fresh, NEW r \in Commands \union {Broken}, NEW lost \in BOOLEAN,
           RemoteLoop(r, lost)
    PROVE  Fresh'
<1> DEFINE sampled == AfterSample(r)
<1>1. /\ turn = "remote" /\ turn' = "bridge" /\ UNCHANGED <<pc_side, network, robot>>
      /\ keys' = AfterSend(sampled)
      /\ unread' = unread \/ unread' = Sends(sampled)
      /\ idle_for' = IF LetGo(r) THEN idle_for ELSE 0
  BY DEF RemoteLoop
<1>2. /\ sampled \in Keys /\ idle_for \in Nat /\ idle_for' \in Nat /\ idle_for' <= idle_for
      /\ reading \in Nat /\ Debounce \in Nat
  BY <1>1, SampleTyped, WaitsTyped DEF TypeOK
<1> HIDE DEF sampled
<1>3. /\ keys'.stable = sampled.stable /\ keys'.candidate = sampled.candidate
      /\ keys'.valid = sampled.valid /\ keys'.changed = sampled.changed
  BY <1>1, <1>2, SendTyped
<1>4. sampled.changed \in Nat
  BY <1>2 DEF Keys
<1>5. ASSUME sampled.stable \in Directions
      PROVE  /\ sampled.valid /\ reading >= 1
             /\ idle_for' <= Debounce - 1
             /\ sampled.candidate \notin Directions =>
                   idle_for' <= sampled.changed /\ sampled.changed < Debounce
  <2>1. /\ sampled.valid /\ sampled.candidate = r /\ r \in Commands /\ reading >= 1
        /\ r \notin Directions => /\ ~LetGo(r) \/ idle_for <= sampled.changed
                                  /\ sampled.changed < Debounce
    BY <1>1, <1>5, SampleFresh DEF Fresh, sampled
  <2>2. CASE r \in Directions
    <3>1. ~LetGo(r)
      BY <2>2, CommandsAssumption DEF LetGo
    <3>2. idle_for' = 0
      BY <1>1, <3>1
    <3> QED  BY <2>1, <2>2, <3>2, WaitsTyped
  <2>3. CASE r \notin Directions
    <3>1. idle_for' <= sampled.changed
      BY <1>1, <1>2, <1>4, <2>1, <2>3
    <3>2. sampled.changed < Debounce
      BY <2>1, <2>3
    <3>3. idle_for' <= Debounce - 1
      BY <1>2, <1>4, <3>1, <3>2
    <3> QED  BY <2>1, <3>1, <3>2, <3>3
  <2> QED  BY <2>2, <2>3
<1>6. KeyFresh'
  BY <1>1, <1>3, <1>5 DEF KeyFresh
<1>7. FirstPass'
  BY <1>1 DEF FirstPass
<1>8. UnreadFresh'
  <2>1. CASE unread' = unread
    BY <1>1, <1>2, <2>1 DEF Fresh, UnreadFresh, pc_side
  <2>2. CASE unread' = Sends(sampled)
    <3>1. unread' \in Directions => sampled.stable \in Directions
      BY <1>2, <2>2, SendsTyped
    <3> QED  BY <1>1, <1>2, <1>5, <3>1 DEF UnreadFresh, pc_side
  <2> QED  BY <1>1, <2>1, <2>2
<1>9. UntilRead \in Nat /\ PostTimeout \in Nat /\ (worker # None => worker.age \in Nat)
      /\ Lease - left \in Nat
  BY WaitsTyped DEF TypeOK, Posts
<1>10. MailFresh'
  BY <1>1, <1>2, <1>9 DEF Fresh, MailFresh, pc_side, network
<1>11. PostFresh'
  BY <1>1, <1>2, <1>9 DEF Fresh, PostFresh, network
<1>12. LeaseFresh'
  BY <1>1, <1>2, <1>9 DEF Fresh, LeaseFresh, robot
<1> QED  BY <1>6, <1>7, <1>8, <1>10, <1>11, <1>12 DEF Fresh

\* The facts of arithmetic the stages need.
LEMMA Ages ==
    ASSUME TypeOK
    PROVE  /\ UntilRead \in Nat /\ PostTimeout \in Nat /\ Lease \in Nat /\ left \in Nat
           /\ idle_for \in Nat /\ reading \in Nat /\ Debounce \in Nat /\ ReadTime \in Nat
           /\ worker # None => worker \in Posts /\ worker.age \in Nat /\ worker.age <= PostTimeout
<1>1. worker # None => worker \in Posts
  BY DEF TypeOK
<1>2. worker # None => worker.age \in Nat /\ worker.age <= PostTimeout
  BY <1>1, WaitsTyped DEF Posts
<1> QED  BY <1>1, <1>2, WaitsTyped DEF TypeOK

LEMMA BridgeFresh ==
    ASSUME TypeOK, Wanted, Fresh, Read \/ NoRead \/ Take \/ Quit \/ LastPost
    PROVE  Fresh'
<1>1. UNCHANGED <<keys, idle_for, left, revived>>
  BY DEF Read, NoRead, Take, Quit, LastPost, robot
<1>2. None \notin Directions /\ Idle \notin Directions /\ Post(Idle).direction = Idle
  BY CommandsAssumption, NoneAssumption DEF Commands, Post
<1>3. LeaseFresh'
  BY <1>1 DEF Fresh, LeaseFresh
<1>4. CASE Read
  <2>1. /\ turn = "bridge" /\ turn' = "network" /\ bridge = "running" /\ bridge' = bridge
        /\ reading = ReadTime /\ unread' = None /\ worker' = worker
        /\ pending' = unread \/ pending' = Idle \/ pending' = pending
    BY <1>4 DEF Read, Submit, network
  <2>2. KeyFresh' /\ FirstPass'
    BY <1>1, <2>1 DEF Fresh, KeyFresh, FirstPass
  <2>3. UnreadFresh'
    BY <1>2, <2>1 DEF UnreadFresh
  <2>4. unread \in Directions => idle_for <= UntilRead
    BY <2>1 DEF Fresh, UnreadFresh, UntilRead
  <2>5. MailFresh'
    BY <1>1, <1>2, <2>1, <2>4, Ages DEF Fresh, MailFresh
  <2>6. PostFresh'
    BY <1>1, <2>1 DEF Fresh, PostFresh
  <2> QED  BY <1>3, <2>2, <2>3, <2>5, <2>6 DEF Fresh
<1>5. CASE NoRead
  BY <1>1, <1>3, <1>5, Ages
     DEF NoRead, Fresh, KeyFresh, FirstPass, UnreadFresh, MailFresh, PostFresh, pc_side, network
<1>6. CASE Take
  <2>1. /\ worker = None /\ worker' = Post(pending) /\ pending' = None
        /\ UNCHANGED <<turn, unread, bridge, reading>>
    BY <1>6 DEF Take
  <2>2. worker'.direction \in Directions => pending \in Directions
    BY <1>2, <2>1 DEF Post, TypeOK, Commands, Take
  <2>3. worker'.age = 0
    BY <2>1 DEF Post
  <2>4. PostFresh'
    BY <1>1, <2>1, <2>2, <2>3, Ages DEF Fresh, MailFresh, PostFresh
  <2>5. KeyFresh' /\ FirstPass' /\ UnreadFresh'
    BY <1>1, <2>1 DEF Fresh, KeyFresh, FirstPass, UnreadFresh
  <2> QED  BY <1>2, <1>3, <2>1, <2>4, <2>5 DEF Fresh, MailFresh
<1>7. CASE Quit
  BY <1>1, <1>2, <1>3, <1>7
     DEF Quit, Fresh, KeyFresh, FirstPass, UnreadFresh, MailFresh, PostFresh, network
<1>8. CASE LastPost
  <2>1. /\ worker = None /\ worker' = Post(Idle) /\ bridge' = "gone"
        /\ UNCHANGED <<turn, unread, reading, pending>>
    BY <1>8 DEF LastPost
  <2>2. pending = None
    BY <1>8 DEF LastPost, Wanted, MailboxClosed
  <2>3. MailFresh' /\ PostFresh'
    BY <1>2, <2>1, <2>2 DEF MailFresh, PostFresh
  <2> QED  BY <1>1, <1>3, <2>1, <2>3 DEF Fresh, KeyFresh, FirstPass, UnreadFresh
<1> QED  BY <1>4, <1>5, <1>6, <1>7, <1>8

LEMMA NetworkFresh ==
    ASSUME TypeOK, Fresh, Serve \/ Answer \/ Fail \/ ServeStray
    PROVE  Fresh'
<1>1. UNCHANGED <<turn, keys, unread, bridge, reading, pending, idle_for>>
  BY DEF Serve, Answer, Fail, ServeStray, GiveUpOn, pc_side
<1>2. KeyFresh' /\ FirstPass' /\ UnreadFresh'
  BY <1>1 DEF Fresh, KeyFresh, FirstPass, UnreadFresh
<1>3. CASE Serve
  <2>1. /\ worker # None /\ ~worker.handled /\ worker' = [worker EXCEPT !.handled = TRUE]
        /\ left' = (IF worker.direction = Idle THEN 0 ELSE Lease)
    BY <1>3 DEF Serve, Hears
  <2>2. worker \in Posts
    BY <2>1, Ages
  <2>3. worker'.handled /\ worker'.age = worker.age
    BY <2>1, <2>2 DEF Posts
  <2>4. MailFresh'
    <3>1. CASE worker' = None
      BY <1>1, <2>1, <3>1, Ages DEF Fresh, MailFresh
    <3>2. CASE worker' # None
      BY <1>1, <2>1, <2>3, <3>2 DEF Fresh, MailFresh
    <3> QED  BY <3>1, <3>2
  <2>5. PostFresh'
    BY <2>3 DEF PostFresh
  <2>6. LeaseFresh'
    <3>1. CASE worker.direction = Idle
      BY <2>1, <3>1 DEF LeaseFresh
    <3>2. CASE worker.direction # Idle
      <4>1. worker.direction \in Directions
        BY <2>2, <3>2 DEF Posts
      <4>2. idle_for <= UntilRead + PostTimeout + worker.age
        BY <2>1, <4>1 DEF Fresh, PostFresh
      <4>3. left' = Lease
        BY <2>1, <3>2
      <4> QED  BY <1>1, <2>1, <4>2, <4>3, Ages DEF LeaseFresh
    <3> QED  BY <3>1, <3>2
  <2> QED  BY <1>2, <2>4, <2>5, <2>6 DEF Fresh
<1>4. CASE Answer \/ Fail
  <2>1. worker # None /\ worker' = None /\ UNCHANGED <<left, revived>>
    BY <1>4 DEF Answer, Fail, robot
  <2>2. MailFresh'
    BY <1>1, <2>1, Ages DEF Fresh, MailFresh
  <2> QED  BY <1>1, <1>2, <2>1, <2>2 DEF Fresh, PostFresh, LeaseFresh
<1>5. CASE ServeStray
  <2>1. revived' = TRUE /\ worker' = worker
    BY <1>5 DEF ServeStray
  <2> QED  BY <1>1, <1>2, <2>1 DEF Fresh, MailFresh, PostFresh, LeaseFresh
<1> QED  BY <1>3, <1>4, <1>5

LEMMA TickFresh == ASSUME TypeOK, Wanted, Fresh, Tick PROVE Fresh'
<1>1. /\ turn = "network" /\ turn' = "remote" /\ keys' = Later(keys)
      /\ reading' = (IF reading < ReadTime THEN reading + 1 ELSE reading)
      /\ UNCHANGED <<unread, bridge, pending, revived>>
      /\ bridge = "running" => pending = None \/ worker # None
  BY DEF Tick
<1>2. idle_for' \in Nat /\ idle_for' <= idle_for + 1 /\ reading' \in Nat /\ reading' >= 1
  BY <1>1, Ages, WaitsTyped DEF Tick
<1>3. KeyFresh'
  <2>1. SUFFICES ASSUME keys'.stable \in Directions PROVE KeyFresh'
    BY DEF KeyFresh
  <2>2. /\ keys \in Keys /\ keys'.stable = keys.stable /\ keys'.candidate = keys.candidate
        /\ keys'.valid = keys.valid
        /\ keys.changed < Debounce => keys'.changed = keys.changed + 1
    BY <1>1, LaterTyped DEF TypeOK
  <2>3. keys.changed \in Nat
    BY <2>2 DEF Keys
  <2>4. keys.valid /\ (keys.candidate \notin Directions =>
                          idle_for <= keys.changed /\ keys.changed < Debounce)
    BY <1>1, <2>1, <2>2 DEF Fresh, KeyFresh
  <2>5. keys'.candidate \notin Directions => idle_for' <= keys'.changed
    BY <1>2, <2>2, <2>3, <2>4, Ages
  <2> QED  BY <1>1, <1>2, <2>2, <2>4, <2>5 DEF KeyFresh
<1>4. FirstPass'
  BY <1>2 DEF FirstPass
<1>5. UnreadFresh'
  <2>1. SUFFICES ASSUME unread \in Directions, bridge = "running" PROVE UnreadFresh'
    BY <1>1 DEF UnreadFresh
  <2>2. reading < ReadTime /\ idle_for <= (Debounce - 1) + (reading - 1)
    BY <1>1, <2>1 DEF Fresh, UnreadFresh
  <2> QED  BY <1>1, <1>2, <2>2, Ages DEF UnreadFresh
<1>6. worker # None => /\ worker'.age = worker.age + 1 /\ worker' # None
                       /\ worker'.direction = worker.direction
                       /\ worker'.handled = worker.handled
  BY PostAges, PostsAssumption DEF Posts
<1>7. worker = None => worker' = None
  BY DEF Tick
<1>8. MailFresh'
  <2>1. SUFFICES ASSUME pending \in Directions PROVE MailFresh'
    BY <1>1 DEF MailFresh
  <2>2. worker # None
    BY <1>1, <2>1, NoneAssumption DEF Commands, Wanted, MailboxClosed
  <2>3. idle_for <= UntilRead + worker.age
    BY <2>1, <2>2 DEF Fresh, MailFresh
  <2> QED  BY <1>1, <1>2, <1>6, <2>2, <2>3, Ages DEF MailFresh
<1>9. PostFresh'
  <2>1. CASE worker = None
    BY <1>7, <2>1 DEF PostFresh
  <2>2. CASE worker # None
    BY <1>2, <1>6, <2>2, Ages DEF Fresh, PostFresh
  <2> QED  BY <2>1, <2>2
<1>10. LeaseFresh'
  <2>1. left' = IF left = 0 THEN 0 ELSE left - 1
    BY DEF Tick, LeaseRuns
  <2>2. CASE left = 0
    BY <2>1, <2>2 DEF LeaseFresh
  <2>3. CASE left # 0
    <3>1. left' = left - 1 /\ left > 0
      BY <2>1, <2>3, Ages
    <3> QED  BY <1>1, <1>2, <3>1, Ages DEF Fresh, LeaseFresh
  <2> QED  BY <2>2, <2>3
<1> QED  BY <1>3, <1>4, <1>5, <1>8, <1>9, <1>10 DEF Fresh

\* Whatever the debouncing, the read, the request and the lease take, and whatever is
\* lost or late in between, no robot moves for longer after the key was let go than
\* these add up to, the request twice; a request served after it was given up apart.
THEOREM Dead_man == Spec => []DeadMan
<1>1. Init => Fresh
  <2> SUFFICES ASSUME Init PROVE Fresh
    OBVIOUS
  <2>1. Idle \notin Directions /\ None \notin Directions
    BY CommandsAssumption, NoneAssumption DEF Commands
  <2>2. /\ keys.stable = Idle /\ ~keys.valid /\ unread = None /\ pending = None
        /\ worker = None /\ left = 0
    BY DEF Init, KeysInit
  <2> QED
    BY <2>1, <2>2
       DEF Fresh, KeyFresh, FirstPass, UnreadFresh, MailFresh, PostFresh, LeaseFresh
<1>2. TypeOK /\ Wanted /\ Fresh /\ [Next]_vars => Fresh'
  <2> SUFFICES ASSUME TypeOK, Wanted, Fresh, [Next]_vars PROVE Fresh'
    OBVIOUS
  <2>1. CASE UNCHANGED vars
    BY <2>1
       DEF vars, pc_side, network, robot, Fresh, KeyFresh, FirstPass, UnreadFresh, MailFresh,
           PostFresh, LeaseFresh
  <2>2. CASE \E r \in Commands \union {Broken}, lost \in BOOLEAN : RemoteLoop(r, lost)
    BY <2>2, RemoteFresh
  <2> QED  BY <2>1, <2>2, BridgeFresh, NetworkFresh, TickFresh DEF Next
<1>3. TypeOK /\ Fresh => DeadMan
  <2> SUFFICES ASSUME TypeOK, Fresh, left > 0, ~revived PROVE idle_for <= LongestTail
    BY DEF DeadMan
  <2>1. idle_for <= UntilRead + 2 * PostTimeout + (Lease - left)
    BY DEF Fresh, LeaseFresh
  <2>2. LongestTail = UntilRead + 2 * PostTimeout + (Lease - 1)
    BY WaitsTyped
  <2> QED  BY <2>1, <2>2, Ages
<1>4. Init => Wanted
  BY DEF Init, Wanted, MailboxWanted, PostWanted, MailboxClosed, LatestWins
<1>5. TypeOK /\ Wanted /\ [Next]_vars => Wanted'
  BY WantedHolds
<1> QED  BY <1>1, <1>2, <1>3, <1>4, <1>5, Typing, PTL DEF Spec
=============================================================================
