----------------------- MODULE PluginForwarderProofs ------------------------
(***************************************************************************)
(* Proofs about the plugin forwarder: its accept loop, for any number of   *)
(* connections, descriptors and passing errors, and what is relayed over,  *)
(* for any option string.                                                  *)
(***************************************************************************)
EXTENDS PluginForwarder, SequenceLemmas

\* Why a loop may be in the state it is in, and what it has counted since.
LoopInv ==
  /\ loop = "over" => broken
  /\ failures \in Nat
  /\ failures <= 1
  /\ loop = "accept" => failures = 0

\* The errors that are not retried are the ones of a broken listener.
LEMMA OnlyListenerErrorsAreFatal ==
  ASSUME NEW e \in AcceptErrors, ~is_transient_accept_error(e)
  PROVE  e \in ListenerErrors
BY DEF AcceptErrors, PeerErrors, FdErrors, PassingErrors, ListenerErrors,
       is_transient_accept_error

\* A failed accept pauses the loop, or ends it when the listener is gone.
LEMMA AcceptFailsLoop ==
  ASSUME LoopInv, NEW e \in AcceptErrors, AcceptFails(e) PROVE LoopInv'
<1>1. failures = 0 /\ failures' = 1
  BY DEF LoopInv, AcceptFails, Accepting
<1>2. loop' # "accept"
  BY DEF AcceptFails, Retry
<1>3. loop' = "over" => broken'
  <2>1. CASE is_transient_accept_error(e)
    BY <2>1 DEF AcceptFails, Retry
  <2>2. CASE ~is_transient_accept_error(e)
    <3>1. e \in ListenerErrors
      BY <2>2, OnlyListenerErrorsAreFatal
    <3>2. broken
      BY <3>1 DEF AcceptFails, Occurs, ListenerErrors, PeerErrors, FdErrors, PassingErrors
    <3> QED
      BY <3>2 DEF AcceptFails
  <2> QED
    BY <2>1, <2>2
<1> QED
  BY <1>1, <1>2, <1>3 DEF LoopInv

\* The steps of the connections do not touch the loop.
LEMMA TaskLoop ==
  ASSUME LoopInv, UNCHANGED <<loop, broken, failures>> PROVE LoopInv'
BY DEF LoopInv

\* The invariant of the accept loop.
THEOREM LoopInvariance == Spec => []LoopInv
<1>1. Init => LoopInv
  BY DEF Init, LoopInv
<1>2. LoopInv /\ [Next]_vars => LoopInv'
  <2> SUFFICES ASSUME LoopInv, [Next]_vars PROVE LoopInv'
    OBVIOUS
  <2>1. CASE AcceptLoop
    <3>1. CASE Accept
      BY <3>1, TaskLoop DEF Accept
    <3> QED
      BY <2>1, <3>1, AcceptFailsLoop DEF AcceptLoop
  <2>2. CASE BackoffOver
    BY <2>2 DEF LoopInv, BackoffOver
  <2>3. CASE ListenerBreaks
    BY <2>3 DEF LoopInv, ListenerBreaks
  <2>4. CASE RuntimeDropped
    BY <2>4 DEF LoopInv, RuntimeDropped
  <2>5. ASSUME NEW c \in Conns,
               Arrive(c) \/ OpenSocket(c) \/ NoSocket(c) \/ Dialed(c) \/ TaskFails(c)
                 \/ \E w \in {"up", "down"} : WayEnds(c, w)
        PROVE  LoopInv'
    BY <2>5, TaskLoop
       DEF Arrive, OpenSocket, NoSocket, Dialed, TaskFails, WayEnds, End
  <2>6. CASE UNCHANGED vars
    BY <2>6, TaskLoop DEF vars
  <2> QED
    BY <2>1, <2>2, <2>3, <2>4, <2>5, <2>6 DEF Next
<1> QED
  BY <1>1, <1>2, PTL DEF Spec

\* start_forwarder: whatever happens to connections, descriptors and buffers, the
\* accept loop ends only when the listening socket is gone.
THEOREM ListenerStays == Spec => []ListenerKept
<1>1. LoopInv => ListenerKept
  BY DEF LoopInv, ListenerKept
<1> QED
  BY <1>1, LoopInvariance, PTL

\* ACCEPT_RETRY_DELAY: no two accept calls fail without a pause between them.
THEOREM LoopPauses == Spec => []NoBusyLoop
<1>1. LoopInv => NoBusyLoop
  BY DEF LoopInv, NoBusyLoop
<1> QED
  BY <1>1, LoopInvariance, PTL

\* The steps of the accept loop keep the types.
LEMMA LoopTypes ==
  ASSUME TypeOK, AcceptLoop \/ BackoffOver \/ ListenerBreaks \/ RuntimeDropped PROVE TypeOK'
<1> USE DEF TypeOK, Active
<1>1. CASE Accept
  <2>1. Head(backlog) \in Conns /\ Tail(backlog) \in Seq(Conns)
    BY <1>1 DEF Accept
  <2> QED
    BY <1>1, <2>1 DEF Accept, Accepting
<1>2. ASSUME NEW e \in AcceptErrors, AcceptFails(e) PROVE TypeOK'
  <2>1. backlog' \in Seq(Conns)
    <3>1. CASE is_transient_accept_error(e)
      <4>1. CASE e \in PeerErrors
        <5>1. backlog # <<>>
          BY <1>2, <4>1 DEF AcceptFails, Occurs, PeerErrors, ListenerErrors
        <5>2. backlog' = Tail(backlog)
          BY <1>2, <3>1, <4>1 DEF AcceptFails
        <5>3. Tail(backlog) \in Seq(Conns)
          BY <5>1
        <5> QED
          BY <5>2, <5>3
      <4>2. CASE e \notin PeerErrors
        BY <1>2, <3>1, <4>2 DEF AcceptFails
      <4> QED
        BY <4>1, <4>2
    <3>2. CASE ~is_transient_accept_error(e)
      BY <1>2, <3>2 DEF AcceptFails
    <3> QED
      BY <3>1, <3>2
  <2>2. hiccups' \in 0 .. MaxHiccups
    <3>1. CASE e \in PassingErrors
      <4>1. Occurs(e) = (~broken /\ backlog # <<>> /\ hiccups < MaxHiccups)
        BY <3>1 DEF Occurs, PassingErrors, PeerErrors, FdErrors, ListenerErrors
      <4>2. hiccups < MaxHiccups /\ hiccups' = hiccups + 1
        BY <1>2, <3>1, <4>1 DEF AcceptFails
      <4> QED
        BY <4>2, FdsAssumption
    <3>2. CASE e \notin PassingErrors
      BY <1>2, <3>2 DEF AcceptFails
    <3> QED
      BY <3>1, <3>2
  <2>3. loop' \in {"backoff", "over"} /\ loop = "accept"
    BY <1>2 DEF AcceptFails, Accepting, Retry
  <2> QED
    BY <1>2, <2>1, <2>2, <2>3 DEF AcceptFails, tasks
<1>3. CASE BackoffOver
  BY <1>3 DEF BackoffOver, tasks
<1>4. CASE ListenerBreaks
  BY <1>4 DEF ListenerBreaks, tasks
<1>5. CASE RuntimeDropped
  BY <1>5 DEF RuntimeDropped
<1> QED
  BY <1>1, <1>2, <1>3, <1>4, <1>5 DEF AcceptLoop

\* So do the steps of a connection.
LEMMA TaskTypes ==
  ASSUME TypeOK, NEW c \in Conns,
         Arrive(c) \/ OpenSocket(c) \/ NoSocket(c) \/ Dialed(c) \/ TaskFails(c)
           \/ \E w \in {"up", "down"} : WayEnds(c, w)
  PROVE  TypeOK'
<1> USE DEF TypeOK, Active
<1>1. CASE Arrive(c)
  BY <1>1 DEF Arrive, tasks
<1>2. CASE OpenSocket(c)
  BY <1>2 DEF OpenSocket
<1>3. ASSUME End(c) PROVE TypeOK'
  BY <1>3 DEF End
<1>4. CASE Dialed(c)
  <2>1. task[c] = "dial" /\ c \in out
    BY <1>4 DEF Dialed
  <2>2. awaited' \in [Conns -> Nat]
    BY <1>4 DEF Dialed
  <2>3. CASE Wrapped(c, awaited[c] + 1)
    <3>1. task' = [task EXCEPT ![c] = "relay"] /\ ways' = [ways EXCEPT ![c] = {"up", "down"}]
      BY <1>4, <2>3 DEF Dialed
    <3> QED
      BY <1>4, <2>2, <3>1 DEF Dialed
  <2>4. CASE ~Wrapped(c, awaited[c] + 1)
    BY <1>4, <2>2, <2>4 DEF Dialed
  <2> QED
    BY <2>3, <2>4
<1>5. ASSUME NEW w \in {"up", "down"}, WayEnds(c, w), ~End(c) PROVE TypeOK'
  BY <1>5 DEF WayEnds
<1> QED
  BY <1>1, <1>2, <1>3, <1>4, <1>5 DEF NoSocket, TaskFails

\* start_forwarder: loop and tasks keep their types, the loop runs just for a plugin
\* that was accepted, and no socket is left by a task that is gone.
THEOREM TypeCorrect == Spec => []TypeOK
<1>1. Init => TypeOK
  <2> SUFFICES ASSUME Init PROVE TypeOK
    OBVIOUS
  <2>1. loop = IF kind = NoPlugin THEN "refused" ELSE "accept"
    BY DEF Init
  <2>2. /\ loop \in {"refused", "accept", "backoff", "over", "dropped"}
        /\ (loop = "refused") = (kind = NoPlugin)
    BY <2>1
  <2>3. request \in Requests /\ hiccups \in 0 .. MaxHiccups
    BY FdsAssumption DEF Init
  <2>4. /\ task \in [Conns -> {"none", "dial", "relay"}]
        /\ out \subseteq Active
    BY DEF Init, Active
  <2>5. /\ awaited \in [Conns -> Nat]
        /\ ways \in [Conns -> SUBSET {"up", "down"}]
    BY DEF Init
  <2>6. backlog \in Seq(Conns)
    BY DEF Init
  <2>7. broken \in BOOLEAN
    BY DEF Init
  <2> QED
    BY <2>2, <2>3, <2>4, <2>5, <2>6, <2>7 DEF TypeOK
<1>2. TypeOK /\ [Next]_vars => TypeOK'
  <2> SUFFICES ASSUME TypeOK, [Next]_vars PROVE TypeOK'
    OBVIOUS
  <2>1. CASE UNCHANGED vars
    BY <2>1 DEF vars, tasks, TypeOK, Active
  <2> QED
    BY <2>1, LoopTypes, TaskTypes DEF Next
<1> QED
  BY <1>1, <1>2, PTL DEF Spec

-----------------------------------------------------------------------------
(* Options: what the loops over an option string compute.                  *)

\* The states of a loop over n options that makes f[k] of f[k - 1] by F[k].
Turns(f, a, F, n) == f = [k \in 0 .. n |-> IF k = 0 THEN a ELSE F[k][f[k - 1]]]

\* The recursion over the options is well-founded: it defines a function.
LEMMA TurnsExist ==
  ASSUME NEW S, NEW a \in S, NEW F, NEW n \in Nat,
         \A k \in 1 .. n : \A x \in S : F[k][x] \in S
  PROVE  \E f \in [0 .. n -> S] : Turns(f, a, F, n)
<1> DEFINE N == {k \in Nat : k <= n => \E f \in [0 .. k -> S] : Turns(f, a, F, k)}
<1>1. 0 \in N
  <2> DEFINE f == [k \in 0 .. 0 |-> a]
  <2>1. Turns(f, a, F, 0) /\ f \in [0 .. 0 -> S]
    BY DEF Turns
  <2> HIDE DEF f
  <2> QED BY <2>1
<1>2. ASSUME NEW m \in N, m + 1 <= n PROVE m + 1 \in N
  <2>0. m \in Nat /\ m <= n /\ m + 1 \in 1 .. n
    BY <1>2
  <2>1. PICK old \in [0 .. m -> S] : Turns(old, a, F, m)
    BY <2>0
  <2> DEFINE f == [k \in 0 .. m + 1 |-> IF k \in 0 .. m THEN old[k] ELSE F[k][old[k - 1]]]
  <2>2. ASSUME NEW k \in 0 .. m + 1
        PROVE  f[k] = IF k = 0 THEN a ELSE F[k][f[k - 1]]
    <3>1. CASE k = m + 1
      BY <3>1
    <3>2. CASE k \in 0 .. m
      <4>1. old[k] = IF k = 0 THEN a ELSE F[k][old[k - 1]]
        BY <2>1, <3>2 DEF Turns
      <4>2. f[k] = old[k] /\ (k # 0 => f[k - 1] = old[k - 1])
        BY <3>2
      <4> QED BY <4>1, <4>2
    <3> QED BY <3>1, <3>2
  <2>3. Turns(f, a, F, m + 1)
    <3>1. f = [k \in 0 .. m + 1 |-> f[k]]
      OBVIOUS
    <3> HIDE DEF f
    <3> QED BY <2>2, <3>1 DEF Turns
  <2>4. f \in [0 .. m + 1 -> S]
    <3>1. ASSUME NEW k \in 0 .. m + 1 PROVE f[k] \in S
      <4>1. CASE k = m + 1
        <5>1. f[k] = F[m + 1][old[m]]
          BY <2>0, <4>1
        <5>2. old[m] \in S
          BY <2>0
        <5> HIDE DEF f
        <5> QED BY <1>2, <2>0, <5>1, <5>2
      <4>2. CASE k \in 0 .. m
        BY <4>2
      <4> QED BY <4>1, <4>2
    <3>2. f = [k \in 0 .. m + 1 |-> f[k]]
      OBVIOUS
    <3> HIDE DEF f
    <3> QED BY <3>1, <3>2
  <2> HIDE DEF f
  <2> QED BY <2>0, <2>3, <2>4
<1>a. ASSUME NEW m \in N PROVE m + 1 \in N
  <2>1. CASE m + 1 <= n
    BY <1>2, <2>1
  <2>2. CASE ~(m + 1 <= n)
    BY <2>2
  <2> QED BY <2>1, <2>2
<1>3. N = Nat
  <2>1. N \in SUBSET Nat
    OBVIOUS
  <2> HIDE DEF N
  <2> QED BY <1>1, <1>a, <2>1, Induction
<1> QED BY <1>3

Option == [key : Strings, value : Strings \cup {Bare}]
Options == Seq(Option)

\* What v is after the first k options: the value of the last one with this key,
\* `bare` when that is a bare one, `default` when there is none.
Valued(o, bare) == IF o.value = Bare THEN bare ELSE o.value
IsLast(i, opts, key, k) == /\ i \in 1 .. k /\ opts[i].key = key
                           /\ \A j \in 1 .. k : opts[j].key = key => j <= i
Means(v, opts, key, bare, default, k) ==
  \/ v = default /\ \A j \in 1 .. k : opts[j].key # key
  \/ \E i : IsLast(i, opts, key, k) /\ v = Valued(opts[i], bare)

\* What the last of the options with a key says, with one option more.
LEMMA MeansNext ==
  ASSUME NEW opts, NEW key, NEW bare, NEW default, NEW k \in Nat, NEW v,
         Means(v, opts, key, bare, default, k)
  PROVE  Means(IF opts[k + 1].key = key THEN Valued(opts[k + 1], bare) ELSE v,
               opts, key, bare, default, k + 1)
<1>0. \A j \in 1 .. k + 1 : j = k + 1 \/ j \in 1 .. k
  OBVIOUS
<1>1. CASE opts[k + 1].key = key
  <2>1. k + 1 \in 1 .. k + 1 /\ \A j \in 1 .. k + 1 : j <= k + 1
    OBVIOUS
  <2>2. IsLast(k + 1, opts, key, k + 1)
    BY <1>1, <2>1 DEF IsLast
  <2> QED BY <1>1, <2>2 DEF Means
<1>2. CASE opts[k + 1].key # key
  <2>1. CASE v = default /\ \A j \in 1 .. k : opts[j].key # key
    BY <1>0, <1>2, <2>1 DEF Means
  <2>2. CASE \E i : IsLast(i, opts, key, k) /\ v = Valued(opts[i], bare)
    <3>1. PICK i : IsLast(i, opts, key, k) /\ v = Valued(opts[i], bare)
      BY <2>2
    <3>2. i \in 1 .. k + 1
      BY <3>1 DEF IsLast
    <3>3. IsLast(i, opts, key, k + 1)
      BY <1>0, <1>2, <3>1, <3>2 DEF IsLast
    <3> QED BY <1>2, <3>1, <3>3 DEF Means
  <2> QED BY <2>1, <2>2 DEF Means
<1> QED BY <1>1, <1>2

\* What the last of all options with a key says.
LEMMA MeansLast ==
  ASSUME NEW key, NEW bare, NEW default, NEW v, request.opts \in Options,
         Means(v, request.opts, key, bare, default, Len(request.opts))
  PROVE  LastOf(key, bare, default) = v
<1> DEFINE n == Len(request.opts)
<1>1. n \in Nat /\ DOMAIN request.opts = 1 .. n
  BY DEF Options
<1>2. CASE v = default /\ \A j \in 1 .. n : request.opts[j].key # key
  <2>1. Given(key) = {}
    BY <1>1, <1>2 DEF Given
  <2> QED BY <1>2, <2>1 DEF LastOf
<1>3. CASE \E i : IsLast(i, request.opts, key, n) /\ v = Valued(request.opts[i], bare)
  <2>1. PICK i : IsLast(i, request.opts, key, n) /\ v = Valued(request.opts[i], bare)
    BY <1>3
  <2> HIDE DEF n
  <2>2. i \in Given(key) /\ \A j \in Given(key) : j <= i
    BY <1>1, <2>1 DEF IsLast, Given
  <2> DEFINE c == CHOOSE c \in Given(key) : \A j \in Given(key) : j <= c
  <2>3. c \in Given(key) /\ \A j \in Given(key) : j <= c
    BY <2>2
  <2>4. Given(key) \subseteq Nat
    BY <1>1 DEF Given
  <2>5. c = i
    <3> HIDE DEF c
    <3>1. c <= i /\ i <= c /\ c \in Nat /\ i \in Nat
      BY <2>2, <2>3, <2>4
    <3> QED BY <3>1
  <2>6. LastOf(key, bare, default) = Valued(request.opts[c], bare)
    BY <2>2 DEF LastOf, ValueAt, Valued
  <2> QED BY <2>1, <2>5, <2>6
<1> QED BY <1>2, <1>3 DEF Means

\* The turns of the loop in parse_simple_obfs_opts, and a state they pass.
ObfsStates == [mode : Strings \cup {NoPlugin}, host : Strings]
ObfsFirst == [mode |-> NoPlugin, host |-> ""]
ObfsTurns(f, opts) == f = [k \in 0 .. Len(opts) |-> IF k = 0 THEN ObfsFirst
                                                   ELSE obfs_option(f[k - 1], opts[k])]
ObfsAt(s, opts, k) ==
  /\ s \in ObfsStates
  /\ \E v : /\ Means(v, opts, "obfs", "", "", k)
            /\ s.mode = v \/ (s.mode = NoPlugin /\ v = "")
  /\ Means(s.host, opts, "obfs-host", "", "", k)

\* What one option changes for simple-obfs.
LEMMA ObfsOption ==
  ASSUME NEW s \in ObfsStates, NEW o \in Option
  PROVE  /\ obfs_option(s, o) \in ObfsStates
         /\ obfs_option(s, o).mode = IF o.key = "obfs" THEN Valued(o, "") ELSE s.mode
         /\ obfs_option(s, o).host = IF o.key = "obfs-host" THEN Valued(o, "") ELSE s.host
<1> DEFINE v == Valued(o, "")
<1>1. v \in Strings
  BY StringsAssumption DEF Valued, Option
<1>2. obfs_option(s, o) = CASE o.key = "obfs" -> [s EXCEPT !.mode = v]
                            [] o.key = "obfs-host" -> [s EXCEPT !.host = v]
                            [] OTHER -> s
  BY DEF obfs_option, Valued
<1> HIDE DEF v
<1>3. CASE o.key = "obfs"
  <2>1. obfs_option(s, o) = [s EXCEPT !.mode = v]
    BY <1>2, <1>3
  <2> QED BY <1>1, <1>3, <2>1 DEF ObfsStates, v
<1>4. CASE o.key = "obfs-host"
  <2>1. obfs_option(s, o) = [s EXCEPT !.host = v]
    BY <1>2, <1>4
  <2> QED BY <1>1, <1>4, <2>1 DEF ObfsStates, v
<1>5. CASE o.key # "obfs" /\ o.key # "obfs-host"
  BY <1>2, <1>5
<1> QED BY <1>3, <1>4, <1>5

\* The loop over simple-obfs's options ends.
LEMMA ObfsTurnsExist ==
  ASSUME NEW opts \in Options
  PROVE  \E f : ObfsTurns(f, opts)
<1> DEFINE n == Len(opts)
           F == [k \in 1 .. n |-> [s \in ObfsStates |-> obfs_option(s, opts[k])]]
<1>1. n \in Nat /\ \A k \in 1 .. n : opts[k] \in Option
  BY DEF Options
<1>2. ObfsFirst \in ObfsStates
  BY StringsAssumption DEF ObfsFirst, ObfsStates
<1>3. \A k \in 1 .. n : \A s \in ObfsStates : F[k][s] = obfs_option(s, opts[k])
  OBVIOUS
<1> HIDE DEF n, F
<1>4. \A k \in 1 .. n : \A s \in ObfsStates : F[k][s] \in ObfsStates
  BY <1>1, <1>3, ObfsOption
<1>5. PICK f \in [0 .. n -> ObfsStates] : Turns(f, ObfsFirst, F, n)
  BY <1>1, <1>2, <1>4, TurnsExist
<1>6. ASSUME NEW k \in 0 .. n
      PROVE  f[k] = IF k = 0 THEN ObfsFirst ELSE obfs_option(f[k - 1], opts[k])
  <2>1. f[k] = IF k = 0 THEN ObfsFirst ELSE F[k][f[k - 1]]
    BY <1>5 DEF Turns
  <2>2. CASE k # 0
    <3>1. k \in 1 .. n /\ f[k - 1] \in ObfsStates
      BY <1>1, <2>2
    <3> QED BY <1>3, <2>1, <2>2, <3>1
  <2> QED BY <2>1, <2>2
<1>7. f = [k \in 0 .. n |-> f[k]]
  OBVIOUS
<1>8. ObfsTurns(f, opts)
  BY <1>6, <1>7 DEF ObfsTurns, n
<1> QED BY <1>8

\* After all options, each setting is what the last one for it says.
LEMMA ObfsParsed ==
  ASSUME NEW opts \in Options, NEW f, ObfsTurns(f, opts)
  PROVE  ObfsAt(f[Len(opts)], opts, Len(opts))
<1> DEFINE n == Len(opts)
           N == {k \in Nat : k <= n => ObfsAt(f[k], opts, k)}
<1>1. n \in Nat /\ \A k \in 1 .. n : opts[k] \in Option
  BY DEF Options
<1>2. \A k \in 0 .. n : f[k] = IF k = 0 THEN ObfsFirst ELSE obfs_option(f[k - 1], opts[k])
  BY DEF ObfsTurns
<1> HIDE DEF n
<1>3. 0 \in N
  <2>1. f[0] = ObfsFirst
    BY <1>1, <1>2
  <2>2. \A key : Means("", opts, key, "", "", 0)
    BY DEF Means
  <2>3. ObfsFirst \in ObfsStates /\ ObfsFirst.mode = NoPlugin /\ ObfsFirst.host = ""
    BY StringsAssumption DEF ObfsFirst, ObfsStates
  <2>4. ObfsAt(ObfsFirst, opts, 0)
    BY <2>2, <2>3 DEF ObfsAt
  <2> QED BY <2>1, <2>4
<1>4. ASSUME NEW k \in N, k + 1 <= n PROVE ObfsAt(f[k + 1], opts, k + 1)
  <2> DEFINE s == f[k]
             o == opts[k + 1]
             t == obfs_option(s, o)
  <2>1. k \in Nat /\ k <= n /\ k + 1 \in 1 .. n /\ k + 1 \in 0 .. n /\ k + 1 # 0 /\ (k + 1) - 1 = k
    BY <1>1, <1>4
  <2>2. ObfsAt(s, opts, k)
    BY <2>1
  <2>3. f[k + 1] = t /\ o \in Option
    BY <1>1, <1>2, <2>1
  <2> HIDE DEF s, N, t
  <2>4. s \in ObfsStates /\ Means(s.host, opts, "obfs-host", "", "", k)
    BY <2>2 DEF ObfsAt
  <2>5. PICK v : /\ Means(v, opts, "obfs", "", "", k)
                 /\ s.mode = v \/ (s.mode = NoPlugin /\ v = "")
    BY <2>2 DEF ObfsAt
  <2>6. /\ t \in ObfsStates
        /\ t.mode = IF o.key = "obfs" THEN Valued(o, "") ELSE s.mode
        /\ t.host = IF o.key = "obfs-host" THEN Valued(o, "") ELSE s.host
    BY <2>3, <2>4, ObfsOption DEF t
  <2>7. Means(IF o.key = "obfs" THEN Valued(o, "") ELSE v, opts, "obfs", "", "", k + 1)
    BY <2>1, <2>5, MeansNext
  <2>8. Means(IF o.key = "obfs-host" THEN Valued(o, "") ELSE s.host, opts, "obfs-host", "", "", k + 1)
    BY <2>1, <2>4, MeansNext
  <2>9. Means(t.host, opts, "obfs-host", "", "", k + 1)
    BY <2>6, <2>8
  <2>10. \E w : /\ Means(w, opts, "obfs", "", "", k + 1)
                /\ t.mode = w \/ (t.mode = NoPlugin /\ w = "")
    <3> DEFINE w == IF o.key = "obfs" THEN Valued(o, "") ELSE v
    <3>1. t.mode = w \/ (t.mode = NoPlugin /\ w = "")
      BY <2>5, <2>6
    <3>2. Means(w, opts, "obfs", "", "", k + 1)
      BY <2>7
    <3> HIDE DEF w
    <3> QED BY <3>1, <3>2
  <2>11. ObfsAt(t, opts, k + 1)
    BY <2>6, <2>9, <2>10 DEF ObfsAt
  <2> QED BY <2>3, <2>11
<1>5. ASSUME NEW k \in N PROVE k + 1 \in N
  <2>1. k + 1 \in Nat
    OBVIOUS
  <2> QED BY <1>4, <2>1
<1>6. N = Nat
  <2>1. N \in SUBSET Nat
    OBVIOUS
  <2> HIDE DEF N
  <2> QED BY <1>3, <1>5, <2>1, Induction
<1> QED BY <1>1, <1>6 DEF n

\* What parse_simple_obfs_opts returns.
LEMMA ObfsKind ==
  ASSUME request.opts \in Options
  PROVE  LET m == LastOf("obfs", "", "")
             h == LastOf("obfs-host", "", "")
         IN /\ h \in Strings
            /\ parse_simple_obfs_opts(request.opts) =
                 CASE m = "http" -> [kind |-> "SimpleObfsHttp", host |-> h]
                   [] m = "tls" -> [kind |-> "SimpleObfsTls", host |-> h]
                   [] OTHER -> NoPlugin
<1> DEFINE opts == request.opts
           f == CHOOSE f : ObfsTurns(f, opts)
           s == f[Len(opts)]
           m == LastOf("obfs", "", "")
           h == LastOf("obfs-host", "", "")
<1>1. parse_simple_obfs_opts(opts) = CASE s.mode = "http" -> [kind |-> "SimpleObfsHttp", host |-> s.host]
                                       [] s.mode = "tls" -> [kind |-> "SimpleObfsTls", host |-> s.host]
                                       [] OTHER -> NoPlugin
  BY DEF parse_simple_obfs_opts, ObfsTurns, ObfsFirst
<1>2. ObfsTurns(f, opts)
  BY ObfsTurnsExist
<1> HIDE DEF f
<1>3. ObfsAt(s, opts, Len(opts))
  BY <1>2, ObfsParsed
<1> HIDE DEF s
<1>4. h = s.host
  BY <1>3, MeansLast DEF ObfsAt
<1>5. s.mode = m \/ (s.mode = NoPlugin /\ m = "")
  <2>1. PICK v : /\ Means(v, opts, "obfs", "", "", Len(opts))
                 /\ s.mode = v \/ (s.mode = NoPlugin /\ v = "")
    BY <1>3 DEF ObfsAt
  <2>2. m = v
    BY <2>1, MeansLast
  <2> HIDE DEF m
  <2> QED BY <2>1, <2>2
<1>6. s.host \in Strings
  BY <1>3 DEF ObfsAt, ObfsStates
<1>7. NoPlugin # "http" /\ NoPlugin # "tls"
  BY NoPluginAssumption, StringsAssumption
<1> HIDE DEF m, h
<1>8. (s.mode = "http" <=> m = "http") /\ (s.mode = "tls" <=> m = "tls")
  BY <1>5, <1>7
<1> QED BY <1>1, <1>4, <1>6, <1>8 DEF m, h

\* The same for parse_opts: a bad mode is remembered.
BadMode(o) == o.key = "mode" /\ ~Says(Valued(o, "true"), {"websocket", "ws"})
V2rayKinds == [kind : {"V2ray"}, tls : BOOLEAN, host : Strings, skip_cert_verify : BOOLEAN]
V2rayTurns(f, opts) == f = [k \in 0 .. Len(opts) |-> IF k = 0 THEN V2rayDefault
                                                    ELSE v2ray_option(f[k - 1], opts[k])]
V2rayRead(s, opts, k) ==
  /\ s \in V2rayKinds
  /\ \A i \in 1 .. k : ~BadMode(opts[i])
  /\ \E v : Means(v, opts, "tls", "true", "", k) /\ (s.tls <=> Truthy(v))
  /\ Means(s.host, opts, "host", "true", "", k)
  /\ \E v : Means(v, opts, "skip-cert-verify", "true", "", k)
            /\ (s.skip_cert_verify <=> Truthy(v))
V2rayAt(s, opts, k) ==
  \/ s = NoPlugin /\ \E i \in 1 .. k : BadMode(opts[i])
  \/ V2rayRead(s, opts, k)

\* A v2ray-plugin is not the absence of a plugin.
LEMMA V2rayNotNo == ASSUME NEW s \in V2rayKinds PROVE s # NoPlugin
BY NoPluginAssumption DEF V2rayKinds, PluginKind

\* A value says one of some lower-case words if it is one of them in lower case.
LEMMA SaysLower ==
  ASSUME NEW v, NEW words, \A word \in words : Lower[word] = word
  PROVE  Says(v, words) <=> Lower[v] \in words
BY DEF Says

\* Which values of an option are true, and which modes there are.
LEMMA ParseBool ==
  /\ \A v : parse_bool(v) <=> Truthy(v)
  /\ \A v : Lower[v] \in {"websocket", "ws"} <=> Says(v, {"websocket", "ws"})
<1> DEFINE T == {"1", "true", "yes", "on"}
           M == {"websocket", "ws"}
<1>1. (\A word \in T : Lower[word] = word) /\ (\A word \in M : Lower[word] = word)
  BY LowerAssumption
<1>2. \A v : parse_bool(v) = (Lower[v] \in T) /\ Truthy(v) = Says(v, T)
  BY DEF parse_bool, Truthy
<1> HIDE DEF T, M
<1>3. \A v : (Says(v, T) <=> Lower[v] \in T) /\ (Says(v, M) <=> Lower[v] \in M)
  BY <1>1, SaysLower
<1>4. \A v : parse_bool(v) <=> Truthy(v)
  BY <1>2, <1>3
<1>5. \A v : Lower[v] \in M <=> Says(v, M)
  BY <1>3
<1> QED BY <1>4, <1>5 DEF M

\* What parse_opts makes of an option with its value.
LEMMA V2rayCases ==
  ASSUME NEW s, s # NoPlugin, NEW o
  PROVE  v2ray_option(s, o) =
           CASE o.key = "mode" -> IF BadMode(o) THEN NoPlugin ELSE s
             [] o.key = "tls" -> [s EXCEPT !.tls = parse_bool(Valued(o, "true"))]
             [] o.key = "host" -> [s EXCEPT !.host = Valued(o, "true")]
             [] o.key = "skip-cert-verify" ->
                  [s EXCEPT !.skip_cert_verify = parse_bool(Valued(o, "true"))]
             [] OTHER -> s
<1> DEFINE v == Valued(o, "true")
<1>1. v2ray_option(s, o) =
        CASE o.key = "mode" -> IF Lower[v] \in {"websocket", "ws"} THEN s ELSE NoPlugin
          [] o.key = "tls" -> [s EXCEPT !.tls = parse_bool(v)]
          [] o.key = "host" -> [s EXCEPT !.host = v]
          [] o.key = "skip-cert-verify" -> [s EXCEPT !.skip_cert_verify = parse_bool(v)]
          [] OTHER -> s
  BY DEF v2ray_option, Valued
<1>2. Lower[v] \in {"websocket", "ws"} <=> Says(v, {"websocket", "ws"})
  BY ParseBool
<1>3. o.key = "mode" => (BadMode(o) <=> ~Says(v, {"websocket", "ws"}))
  BY DEF BadMode
<1> HIDE DEF v
<1>4. o.key = "mode" => (BadMode(o) <=> Lower[v] \notin {"websocket", "ws"})
  BY <1>2, <1>3
<1> QED BY <1>1, <1>4 DEF v

\* What one option changes for v2ray-plugin.
LEMMA V2rayOption ==
  ASSUME NEW s \in V2rayKinds, NEW o \in Option, ~BadMode(o)
  PROVE  LET t == v2ray_option(s, o)
         IN /\ t \in V2rayKinds
            /\ IF o.key = "tls" THEN t.tls <=> Truthy(Valued(o, "true")) ELSE t.tls = s.tls
            /\ t.host = IF o.key = "host" THEN Valued(o, "true") ELSE s.host
            /\ IF o.key = "skip-cert-verify"
               THEN t.skip_cert_verify <=> Truthy(Valued(o, "true"))
               ELSE t.skip_cert_verify = s.skip_cert_verify
<1> DEFINE v == Valued(o, "true")
           b == parse_bool(v)
<1>1. s # NoPlugin
  BY V2rayNotNo
<1>2. v \in Strings /\ b \in BOOLEAN
  <2>1. v \in Strings
    BY StringsAssumption DEF Valued, Option
  <2>2. b \in BOOLEAN
    BY DEF parse_bool
  <2> QED BY <2>1, <2>2
<1>3. b <=> Truthy(v)
  BY ParseBool
<1>4. v2ray_option(s, o) = CASE o.key = "mode" -> s
                             [] o.key = "tls" -> [s EXCEPT !.tls = b]
                             [] o.key = "host" -> [s EXCEPT !.host = v]
                             [] o.key = "skip-cert-verify" -> [s EXCEPT !.skip_cert_verify = b]
                             [] OTHER -> s
  BY <1>1, V2rayCases
<1> HIDE DEF b, v
<1>5. CASE o.key = "tls"
  <2>1. v2ray_option(s, o) = [s EXCEPT !.tls = b]
    BY <1>4, <1>5
  <2>2. [s EXCEPT !.tls = b] \in V2rayKinds /\ [s EXCEPT !.tls = b].tls = b
    BY <1>2 DEF V2rayKinds
  <2>3. [s EXCEPT !.tls = b].host = s.host /\ [s EXCEPT !.tls = b].skip_cert_verify = s.skip_cert_verify
    BY DEF V2rayKinds
  <2> QED BY <1>3, <1>5, <2>1, <2>2, <2>3, Zenon DEF v
<1>6. CASE o.key = "host"
  <2>1. v2ray_option(s, o) = [s EXCEPT !.host = v]
    BY <1>4, <1>6
  <2>2. [s EXCEPT !.host = v] \in V2rayKinds /\ [s EXCEPT !.host = v].host = v
    BY <1>2 DEF V2rayKinds
  <2>3. [s EXCEPT !.host = v].tls = s.tls /\ [s EXCEPT !.host = v].skip_cert_verify = s.skip_cert_verify
    BY DEF V2rayKinds
  <2> QED BY <1>6, <2>1, <2>2, <2>3 DEF v
<1>7. CASE o.key = "skip-cert-verify"
  <2>1. v2ray_option(s, o) = [s EXCEPT !.skip_cert_verify = b]
    BY <1>4, <1>7
  <2>2. /\ [s EXCEPT !.skip_cert_verify = b] \in V2rayKinds
        /\ [s EXCEPT !.skip_cert_verify = b].skip_cert_verify = b
    BY <1>2 DEF V2rayKinds
  <2>3. /\ [s EXCEPT !.skip_cert_verify = b].host = s.host
        /\ [s EXCEPT !.skip_cert_verify = b].tls = s.tls
    BY DEF V2rayKinds
  <2> QED BY <1>3, <1>7, <2>1, <2>2, <2>3, Zenon DEF v
<1>8. CASE o.key \notin {"tls", "host", "skip-cert-verify"}
  <2>1. v2ray_option(s, o) = s
    BY <1>4, <1>8
  <2> QED BY <1>8, <2>1
<1> QED BY <1>5, <1>6, <1>7, <1>8

\* With one option more, each setting is what the last one for it says.
LEMMA V2rayNext ==
  ASSUME NEW opts \in Options, NEW k \in Nat, k + 1 <= Len(opts), NEW s, V2rayAt(s, opts, k)
  PROVE  V2rayAt(v2ray_option(s, opts[k + 1]), opts, k + 1)
<1> DEFINE o == opts[k + 1]
           t == v2ray_option(s, o)
<1>1. o \in Option /\ \A i \in 1 .. k + 1 : i = k + 1 \/ i \in 1 .. k
  BY DEF Options
<1>2. CASE s = NoPlugin
  <2>1. t = NoPlugin
    BY <1>2 DEF v2ray_option
  <2>2. \E i \in 1 .. k + 1 : BadMode(opts[i])
    <3>1. PICK i \in 1 .. k : BadMode(opts[i])
      BY <1>2, V2rayNotNo DEF V2rayAt, V2rayRead
    <3> QED BY <3>1
  <2> HIDE DEF t
  <2> QED BY <2>1, <2>2 DEF V2rayAt, t
<1>3. CASE s # NoPlugin /\ BadMode(o)
  <2>1. t = NoPlugin
    BY <1>3, V2rayCases DEF BadMode
  <2>2. \E i \in 1 .. k + 1 : BadMode(opts[i])
    BY <1>3
  <2> HIDE DEF t
  <2> QED BY <2>1, <2>2 DEF V2rayAt, t
<1>4. CASE s # NoPlugin /\ ~BadMode(o)
  <2>1. V2rayRead(s, opts, k)
    BY <1>4 DEF V2rayAt
  <2>2. s \in V2rayKinds /\ Means(s.host, opts, "host", "true", "", k)
    BY <2>1 DEF V2rayRead
  <2>3. PICK u : Means(u, opts, "tls", "true", "", k) /\ (s.tls <=> Truthy(u))
    BY <2>1 DEF V2rayRead
  <2>4. PICK w : /\ Means(w, opts, "skip-cert-verify", "true", "", k)
                 /\ s.skip_cert_verify <=> Truthy(w)
    BY <2>1 DEF V2rayRead
  <2>5. /\ t \in V2rayKinds
        /\ IF o.key = "tls" THEN t.tls <=> Truthy(Valued(o, "true")) ELSE t.tls = s.tls
        /\ t.host = IF o.key = "host" THEN Valued(o, "true") ELSE s.host
        /\ IF o.key = "skip-cert-verify"
           THEN t.skip_cert_verify <=> Truthy(Valued(o, "true"))
           ELSE t.skip_cert_verify = s.skip_cert_verify
    BY <1>1, <1>4, <2>2, V2rayOption
  <2> HIDE DEF t
  <2>6. Means(IF o.key = "tls" THEN Valued(o, "true") ELSE u, opts, "tls", "true", "", k + 1)
    BY <2>3, MeansNext
  <2>7. Means(IF o.key = "host" THEN Valued(o, "true") ELSE s.host, opts, "host", "true", "", k + 1)
    BY <2>2, MeansNext
  <2>8. Means(IF o.key = "skip-cert-verify" THEN Valued(o, "true") ELSE w,
              opts, "skip-cert-verify", "true", "", k + 1)
    BY <2>4, MeansNext
  <2>9. Means(t.host, opts, "host", "true", "", k + 1)
    BY <2>5, <2>7
  <2>10. \E x : Means(x, opts, "tls", "true", "", k + 1) /\ (t.tls <=> Truthy(x))
    <3>1. CASE o.key = "tls"
      <4>1. t.tls <=> Truthy(Valued(o, "true"))
        BY <2>5, <3>1
      <4>2. Means(Valued(o, "true"), opts, "tls", "true", "", k + 1)
        BY <2>6, <3>1
      <4> QED BY <4>1, <4>2
    <3>2. CASE o.key # "tls"
      <4>1. t.tls = s.tls
        BY <2>5, <3>2
      <4>2. Means(u, opts, "tls", "true", "", k + 1)
        BY <2>6, <3>2
      <4> QED BY <2>3, <4>1, <4>2
    <3> QED BY <3>1, <3>2
  <2>11. \E x : /\ Means(x, opts, "skip-cert-verify", "true", "", k + 1)
                /\ t.skip_cert_verify <=> Truthy(x)
    <3>1. CASE o.key = "skip-cert-verify"
      <4>1. t.skip_cert_verify <=> Truthy(Valued(o, "true"))
        BY <2>5, <3>1
      <4>2. Means(Valued(o, "true"), opts, "skip-cert-verify", "true", "", k + 1)
        BY <2>8, <3>1
      <4> QED BY <4>1, <4>2
    <3>2. CASE o.key # "skip-cert-verify"
      <4>1. t.skip_cert_verify = s.skip_cert_verify
        BY <2>5, <3>2
      <4>2. Means(w, opts, "skip-cert-verify", "true", "", k + 1)
        BY <2>8, <3>2
      <4> QED BY <2>4, <4>1, <4>2
    <3> QED BY <3>1, <3>2
  <2>12. \A i \in 1 .. k + 1 : ~BadMode(opts[i])
    BY <1>1, <1>4, <2>1 DEF V2rayRead
  <2>13. V2rayRead(t, opts, k + 1)
    BY <2>5, <2>9, <2>10, <2>11, <2>12 DEF V2rayRead
  <2> QED BY <2>13 DEF V2rayAt, t
<1> QED BY <1>2, <1>3, <1>4

\* An option leaves a v2ray-plugin or refuses it.
LEMMA V2rayTyped ==
  ASSUME NEW s \in V2rayKinds \cup {NoPlugin}, NEW o \in Option
  PROVE  v2ray_option(s, o) \in V2rayKinds \cup {NoPlugin}
<1>1. CASE s = NoPlugin
  BY <1>1 DEF v2ray_option
<1>2. CASE s \in V2rayKinds /\ BadMode(o)
  BY <1>2, V2rayCases, V2rayNotNo DEF BadMode
<1>3. CASE s \in V2rayKinds /\ ~BadMode(o)
  BY <1>3, V2rayOption
<1> QED BY <1>1, <1>2, <1>3

\* The settings without options.
LEMMA V2rayFirst == V2rayDefault \in V2rayKinds
BY StringsAssumption DEF V2rayDefault, V2rayKinds

\* The loop over v2ray-plugin's options ends.
LEMMA V2rayTurnsExist ==
  ASSUME NEW opts \in Options
  PROVE  \E f : V2rayTurns(f, opts)
<1> DEFINE n == Len(opts)
           S == V2rayKinds \cup {NoPlugin}
           F == [k \in 1 .. n |-> [s \in S |-> v2ray_option(s, opts[k])]]
<1>1. n \in Nat /\ \A k \in 1 .. n : opts[k] \in Option
  BY DEF Options
<1>2. V2rayDefault \in S
  BY V2rayFirst
<1>3. \A k \in 1 .. n : \A s \in S : F[k][s] = v2ray_option(s, opts[k])
  OBVIOUS
<1>a. \A o \in Option : \A s \in S : v2ray_option(s, o) \in S
  BY V2rayTyped
<1> HIDE DEF n, F, S
<1>4. \A k \in 1 .. n : \A s \in S : F[k][s] \in S
  BY <1>1, <1>3, <1>a
<1>5. PICK f \in [0 .. n -> S] : Turns(f, V2rayDefault, F, n)
  BY <1>1, <1>2, <1>4, TurnsExist
<1>6. ASSUME NEW k \in 0 .. n
      PROVE  f[k] = IF k = 0 THEN V2rayDefault ELSE v2ray_option(f[k - 1], opts[k])
  <2>1. f[k] = IF k = 0 THEN V2rayDefault ELSE F[k][f[k - 1]]
    BY <1>5 DEF Turns
  <2>2. CASE k # 0
    <3>1. k \in 1 .. n /\ f[k - 1] \in S
      BY <1>1, <2>2
    <3> QED BY <1>3, <2>1, <2>2, <3>1
  <2> QED BY <2>1, <2>2
<1>7. f = [k \in 0 .. n |-> f[k]]
  OBVIOUS
<1>8. V2rayTurns(f, opts)
  BY <1>6, <1>7 DEF V2rayTurns, n
<1> QED BY <1>8

\* After all options, each setting is what the last one for it says.
LEMMA V2rayParsed ==
  ASSUME NEW opts \in Options
  PROVE  V2rayAt(parse_opts(opts), opts, Len(opts))
<1> DEFINE n == Len(opts)
           f == CHOOSE f : V2rayTurns(f, opts)
           N == {k \in Nat : k <= n => V2rayAt(f[k], opts, k)}
<1>1. parse_opts(opts) = f[n]
  BY DEF parse_opts, V2rayTurns
<1>2. V2rayTurns(f, opts)
  BY V2rayTurnsExist
<1>3. n \in Nat
  BY DEF Options
<1> HIDE DEF f
<1>4. \A k \in 0 .. n : f[k] = IF k = 0 THEN V2rayDefault ELSE v2ray_option(f[k - 1], opts[k])
  BY <1>2 DEF V2rayTurns
<1>5. 0 \in N
  <2>1. f[0] = V2rayDefault
    BY <1>3, <1>4
  <2>2. \A key : Means("", opts, key, "true", "", 0)
    BY DEF Means
  <2>3. /\ V2rayDefault.host = ""
        /\ ~V2rayDefault.tls /\ ~V2rayDefault.skip_cert_verify
    BY DEF V2rayDefault
  <2>4. ~Truthy("")
    BY LowerAssumption DEF Truthy, Says
  <2>5. V2rayRead(V2rayDefault, opts, 0)
    <3>1. \A i \in 1 .. 0 : ~BadMode(opts[i])
      OBVIOUS
    <3>2. Means(V2rayDefault.host, opts, "host", "true", "", 0)
      BY <2>2, <2>3
    <3>3. \E v : Means(v, opts, "tls", "true", "", 0) /\ (V2rayDefault.tls <=> Truthy(v))
      BY <2>2, <2>3, <2>4
    <3>4. \E v : /\ Means(v, opts, "skip-cert-verify", "true", "", 0)
                 /\ V2rayDefault.skip_cert_verify <=> Truthy(v)
      BY <2>2, <2>3, <2>4
    <3> HIDE DEF n, N
    <3> QED BY <3>1, <3>2, <3>3, <3>4, V2rayFirst, Zenon DEF V2rayRead
  <2> QED BY <2>1, <2>5 DEF V2rayAt
<1>6. ASSUME NEW k \in N PROVE k + 1 \in N
  <2> SUFFICES ASSUME k + 1 <= n PROVE V2rayAt(f[k + 1], opts, k + 1)
    OBVIOUS
  <2>1. k \in Nat /\ k <= n /\ k + 1 \in 0 .. n /\ k + 1 # 0 /\ (k + 1) - 1 = k
    BY <1>3
  <2>2. f[k + 1] = v2ray_option(f[k], opts[k + 1])
    BY <1>4, <2>1
  <2>3. V2rayAt(f[k], opts, k)
    BY <2>1
  <2> HIDE DEF N
  <2> QED BY <2>1, <2>2, <2>3, V2rayNext
<1>7. N = Nat
  <2>1. N \in SUBSET Nat
    OBVIOUS
  <2> HIDE DEF N
  <2> QED BY <1>5, <1>6, <2>1, Induction
<1> QED BY <1>1, <1>3, <1>7

-----------------------------------------------------------------------------
(* Dialing: FlattenSeq of the few layers there are.                        *)

\* One layer on another.
LEMMA Two == ASSUME NEW x, NEW y PROVE <<x>> \o <<y>> = <<x, y>>
<1> DEFINE S == {x, y}
           p == <<x>>
           q == <<y>>
           b == <<x, y>>
<1>1. /\ p \in Seq(S) /\ q \in Seq(S) /\ b \in Seq(S)
      /\ Len(p) = 1 /\ Len(q) = 1 /\ Len(b) = 2
      /\ p[1] = x /\ q[1] = y /\ b[1] = x /\ b[2] = y
  OBVIOUS
<1> DEFINE a == p \o q
<1> HIDE DEF p, q, b, S
<1>2. /\ a \in Seq(S) /\ Len(a) = Len(p) + Len(q)
      /\ \A i \in 1 .. Len(p) + Len(q) : a[i] = IF i <= Len(p) THEN p[i] ELSE q[i - Len(p)]
  BY <1>1, ConcatProperties
<1> HIDE DEF a
<1>3. Len(a) = Len(b) /\ \A i \in 1 .. Len(a) : a[i] = b[i]
  BY <1>1, <1>2
<1>4. a = b
  BY <1>1, <1>2, <1>3, SeqEqual
<1> QED BY <1>4 DEF a, b, p, q

\* A third layer on two.
LEMMA Three == ASSUME NEW x, NEW y, NEW z PROVE <<x, y>> \o <<z>> = <<x, y, z>>
<1> DEFINE S == {x, y, z}
           p == <<x, y>>
           q == <<z>>
           b == <<x, y, z>>
<1>1. /\ p \in Seq(S) /\ q \in Seq(S) /\ b \in Seq(S)
      /\ Len(p) = 2 /\ Len(q) = 1 /\ Len(b) = 3
      /\ p[1] = x /\ p[2] = y /\ q[1] = z /\ b[1] = x /\ b[2] = y /\ b[3] = z
  OBVIOUS
<1> DEFINE a == p \o q
<1> HIDE DEF p, q, b, S
<1>2. /\ a \in Seq(S) /\ Len(a) = Len(p) + Len(q)
      /\ \A i \in 1 .. Len(p) + Len(q) : a[i] = IF i <= Len(p) THEN p[i] ELSE q[i - Len(p)]
  BY <1>1, ConcatProperties
<1> HIDE DEF a
<1>3. Len(a) = Len(b) /\ \A i \in 1 .. Len(a) : a[i] = b[i]
  BY <1>1, <1>2
<1>4. a = b
  BY <1>1, <1>2, <1>3, SeqEqual
<1> QED BY <1>4 DEF a, b, p, q

\* No layer on one.
LEMMA OneNone == ASSUME NEW x PROVE <<x>> \o <<>> = <<x>>
OBVIOUS

\* The recursive function inside FlattenSeq.
Flat(f, s) == f = [i \in 1 .. Len(s) |-> IF i = 1 THEN s[i] ELSE f[i - 1] \o s[i]]

\* FlattenSeq is its recursion up to the last sequence.
LEMMA FlatIs == ASSUME NEW s, Len(s) # 0 PROVE FlattenSeq(s) = (CHOOSE f : Flat(f, s))[Len(s)]
BY DEF FlattenSeq, Flat

\* Flattening one sequence.
LEMMA FlatOne == ASSUME NEW a PROVE FlattenSeq(<<a>>) = a
<1> DEFINE s == <<a>>
           f == CHOOSE f : Flat(f, s)
<1>1. Len(s) = 1 /\ s[1] = a
  OBVIOUS
<1> HIDE DEF s
<1>2. Flat(f, s)
  <2> DEFINE g == [i \in 1 .. 1 |-> a]
  <2>1. Flat(g, s)
    BY <1>1 DEF Flat
  <2> QED BY <2>1
<1>b. Len(s) # 0
  BY <1>1
<1>a. FlattenSeq(s) = f[Len(s)]
  BY <1>b, FlatIs, Zenon
<1>3. FlattenSeq(s) = f[1]
  BY <1>1, <1>a
<1> HIDE DEF f
<1>4. f[1] = a
  BY <1>1, <1>2 DEF Flat
<1> QED BY <1>3, <1>4 DEF s

\* Flattening two sequences.
LEMMA FlatTwo == ASSUME NEW a, NEW b PROVE FlattenSeq(<<a, b>>) = a \o b
<1> DEFINE s == <<a, b>>
           f == CHOOSE f : Flat(f, s)
<1>1. Len(s) = 2 /\ s[1] = a /\ s[2] = b
  OBVIOUS
<1> HIDE DEF s
<1>2. Flat(f, s)
  <2> DEFINE g == [i \in 1 .. 2 |-> IF i = 1 THEN a ELSE a \o b]
  <2>1. Flat(g, s)
    BY <1>1 DEF Flat
  <2> QED BY <2>1
<1>b. Len(s) # 0
  BY <1>1
<1>a. FlattenSeq(s) = f[Len(s)]
  BY <1>b, FlatIs, Zenon
<1>3. FlattenSeq(s) = f[2]
  BY <1>1, <1>a
<1> HIDE DEF f
<1>4. \A i \in 1 .. 2 : f[i] = IF i = 1 THEN s[i] ELSE f[i - 1] \o s[i]
  BY <1>1, <1>2 DEF Flat
<1>5. f[1] = a /\ f[2] = f[2 - 1] \o b
  BY <1>1, <1>4
<1>6. 2 - 1 = 1
  OBVIOUS
<1>7. f[2] = a \o b
  BY <1>5, <1>6
<1> QED BY <1>3, <1>7 DEF s

\* Flattening three sequences of one element.
LEMMA FlatThree == \A x, y, z : FlattenSeq(<< <<x>>, <<y>>, <<z>> >>) = <<x, y, z>>
<1> TAKE x, y, z
<1> DEFINE a == <<x>>
           b == <<y>>
           c == <<z>>
           s == <<a, b, c>>
           f == CHOOSE f : Flat(f, s)
<1>0. a \o b = <<x, y>> /\ <<x, y>> \o c = <<x, y, z>>
  BY Two, Three
<1> HIDE DEF a, b, c
<1>1. Len(s) = 3 /\ s[1] = a /\ s[2] = b /\ s[3] = c
  OBVIOUS
<1> HIDE DEF s
<1>2. Flat(f, s)
  <2> DEFINE g == [i \in 1 .. 3 |-> IF i = 1 THEN a ELSE IF i = 2 THEN a \o b ELSE (a \o b) \o c]
  <2>1. Flat(g, s)
    BY <1>1 DEF Flat
  <2> QED BY <2>1
<1>b. Len(s) # 0
  BY <1>1
<1>a. FlattenSeq(s) = f[Len(s)]
  BY <1>b, FlatIs, Zenon
<1>3. FlattenSeq(s) = f[3]
  BY <1>1, <1>a
<1> HIDE DEF f
<1>4. \A i \in 1 .. 3 : f[i] = IF i = 1 THEN s[i] ELSE f[i - 1] \o s[i]
  BY <1>1, <1>2 DEF Flat
<1>5. f[1] = a /\ f[2] = f[2 - 1] \o b /\ f[3] = f[3 - 1] \o c
  BY <1>1, <1>4
<1>6. 2 - 1 = 1 /\ 3 - 1 = 2
  OBVIOUS
<1>7. f[2] = <<x, y>>
  BY <1>0, <1>5, <1>6
<1>8. f[3] = <<x, y, z>>
  BY <1>0, <1>5, <1>6, <1>7
<1>9. FlattenSeq(<<a, b, c>>) = <<x, y, z>>
  BY <1>3, <1>8 DEF s
<1> QED BY <1>9 DEF a, b, c

-----------------------------------------------------------------------------
(* Which layers a kind stands for, and which the options ask for.          *)

\* The layers of a kind, all of them.
Stream(k) == FlattenSeq(wrap_stream(k))

\* Streams, as sequences of layers; NoPlugin is not one of them.
Streams == Seq(Layer)

\* The host that is put into a request is a string.
LEMMA HostTyped == ASSUME NEW k, k.host \in Strings PROVE HostOf(k) = Named(k.host) /\ HostOf(k) \in Strings
BY StringsAssumption DEF HostOf, Named

\* The layers of a simple-obfs connection.
LEMMA ObfsStream ==
  ASSUME NEW h \in Strings, NEW w \in {"SimpleObfsHttp", "SimpleObfsTls"}
  PROVE  /\ Stream([kind |-> w, host |-> h]) = << <<"tcp">>, <<w, Named(h)>> >>
         /\ Len(wrap_stream([kind |-> w, host |-> h])) \in Nat
         /\ wrap_stream([kind |-> w, host |-> h]) \in Seq(Streams)
         /\ << <<"tcp">>, <<w, Named(h)>> >> # NoPlugin
<1> DEFINE k == [kind |-> w, host |-> h]
           v == << <<"tcp">>, <<w, Named(h)>> >>
<1>1. k.kind = w /\ k.host = h /\ w # "V2ray"
  OBVIOUS
<1>2. HostOf(k) = Named(h) /\ Named(h) \in Strings
  BY <1>1, HostTyped
<1> HIDE DEF k
<1>3. wrap_stream(k) = <<v>>
  BY <1>1, <1>2 DEF wrap_stream
<1>4. v \in Streams
  <2>1. "tcp" \in Strings /\ w \in Strings
    BY StringsAssumption
  <2> DEFINE a == <<"tcp">>
             b == <<w, Named(h)>>
  <2>2. a \in Seq(Strings) /\ b \in Seq(Strings)
    BY <1>2, <2>1
  <2> HIDE DEF a, b
  <2>3. a \in Layer /\ b \in Layer
    BY <2>2 DEF Layer
  <2>4. <<a, b>> \in Seq(Layer)
    BY <2>3
  <2> QED BY <2>4 DEF a, b, Streams
<1>5. v # NoPlugin
  BY <1>4, NoPluginAssumption DEF Streams
<1> HIDE DEF v
<1>6. Stream(k) = v
  BY <1>3, FlatOne DEF Stream
<1>7. <<v>> \in Seq(Streams) /\ Len(<<v>>) \in Nat
  BY <1>4
<1> QED BY <1>3, <1>5, <1>6, <1>7 DEF v, k

\* The layers of a v2ray-plugin connection.
LEMMA V2rayStream ==
  ASSUME NEW k \in V2rayKinds
  PROVE  LET v == IF k.tls THEN << <<"tcp">>, <<"tls", Named(k.host), ~k.skip_cert_verify>>,
                                   <<"ws", Named(k.host)>> >>
                  ELSE << <<"tcp">>, <<"ws", Named(k.host)>> >>
         IN /\ Stream(k) = v
            /\ wrap_stream(k) \in Seq(Streams)
            /\ v # NoPlugin
<1> DEFINE h == Named(k.host)
           t == <<"tcp">>
           l == <<"tls", h, ~k.skip_cert_verify>>
           u == <<"ws", h>>
<1>1. k.kind = "V2ray" /\ k.tls \in BOOLEAN /\ k.host \in Strings
  BY DEF V2rayKinds
<1>2. HostOf(k) = h /\ h \in Strings
  BY <1>1, HostTyped
<1>3. wrap_stream(k) = dial(k)
  BY <1>1 DEF wrap_stream
<1>4. t \in Layer /\ l \in Layer /\ u \in Layer
  <2>1. "tcp" \in Strings /\ "tls" \in Strings /\ "ws" \in Strings /\ (~k.skip_cert_verify) \in BOOLEAN
    BY StringsAssumption
  <2> DEFINE b == ~k.skip_cert_verify
  <2> HIDE DEF h, b
  <2>2. t \in Seq(Strings) /\ u \in Seq(Strings)
    BY <1>2, <2>1
  <2>3. <<"tls", h, b>> \in Strings \X Strings \X BOOLEAN
    BY <1>2, <2>1 DEF b
  <2> QED BY <2>2, <2>3 DEF Layer, b
<1>5. dial(k) = << <<t>> >> \o (IF k.tls THEN << <<l>> >> ELSE <<>>) \o << <<u>> >>
  BY <1>2 DEF dial
<1> HIDE DEF t, l, u, h
<1>6. <<t>> \in Seq(Layer) /\ <<l>> \in Seq(Layer) /\ <<u>> \in Seq(Layer)
  BY <1>4
<1>7. CASE k.tls
  <2> DEFINE v == <<t, l, u>>
  <2>1. dial(k) = << <<t>>, <<l>>, <<u>> >>
    <3>1. dial(k) = (<< <<t>> >> \o << <<l>> >>) \o << <<u>> >>
      BY <1>5, <1>7
    <3> DEFINE a == <<t>>
               b == <<l>>
               c == <<u>>
    <3> HIDE DEF a, b, c
    <3>2. <<a>> \o <<b>> = <<a, b>>
      BY Two
    <3>3. <<a, b>> \o <<c>> = <<a, b, c>>
      BY Three
    <3>4. dial(k) = <<a, b, c>>
      BY <3>1, <3>2, <3>3 DEF a, b, c
    <3> QED BY <3>4 DEF a, b, c
  <2>3. FlattenSeq(dial(k)) = v
    <3>1. FlattenSeq(<< <<t>>, <<l>>, <<u>> >>) = <<t, l, u>>
      BY FlatThree
    <3> QED BY <2>1, <3>1
  <2>4. dial(k) \in Seq(Seq(Layer))
    BY <1>6, <2>1
  <2>5. v \in Seq(Layer)
    BY <1>4
  <2>6. v # NoPlugin
    BY <2>5, NoPluginAssumption
  <2> QED BY <1>3, <1>7, <2>3, <2>4, <2>6 DEF v, t, l, u, h, Stream, Streams
<1>8. CASE ~k.tls
  <2> DEFINE v == <<t, u>>
  <2>1. dial(k) = << <<t>>, <<u>> >>
    <3>1. dial(k) = (<< <<t>> >> \o <<>>) \o << <<u>> >>
      BY <1>5, <1>8
    <3> QED BY <3>1, Two, OneNone
  <2>2. FlattenSeq(dial(k)) = <<t>> \o <<u>>
    BY <2>1, FlatTwo
  <2>3. FlattenSeq(dial(k)) = v
    BY <2>2, Two
  <2>4. dial(k) \in Seq(Seq(Layer))
    BY <1>6, <2>1
  <2>5. v \in Seq(Layer)
    BY <1>4
  <2>6. v # NoPlugin
    BY <2>5, NoPluginAssumption
  <2> QED BY <1>3, <1>8, <2>3, <2>4, <2>6 DEF v, t, l, u, h, Stream, Streams
<1> QED BY <1>7, <1>8

\* A plugin that is accepted stands for the layers its options ask for, a refused
\* one for none.
LEMMA ParsedAsAsked ==
  ASSUME request.opts \in Options, kind = parse_plugin(request.name, request.opts),
         kind # NoPlugin
  PROVE  Asked = Stream(kind) /\ Asked # NoPlugin /\ wrap_stream(kind) \in Seq(Streams)
<1> DEFINE opts == request.opts
<1>1. CASE request.name \in SimpleObfs
  <2> DEFINE m == LastOf("obfs", "", "")
             h == LastOf("obfs-host", "", "")
  <2>1. /\ h \in Strings
        /\ kind = CASE m = "http" -> [kind |-> "SimpleObfsHttp", host |-> h]
                    [] m = "tls" -> [kind |-> "SimpleObfsTls", host |-> h]
                    [] OTHER -> NoPlugin
    <3>1. kind = parse_simple_obfs_opts(opts)
      BY <1>1 DEF parse_plugin, SimpleObfs
    <3> QED BY <3>1, ObfsKind
  <2>2. Asked = CASE m = "http" -> << <<"tcp">>, <<"SimpleObfsHttp", Named(h)>> >>
                  [] m = "tls" -> << <<"tcp">>, <<"SimpleObfsTls", Named(h)>> >>
                  [] OTHER -> NoPlugin
    BY <1>1 DEF Asked, SimpleObfs
  <2> HIDE DEF m, h
  <2>3. CASE m = "http"
    <3>1. /\ kind = [kind |-> "SimpleObfsHttp", host |-> h]
          /\ Asked = << <<"tcp">>, <<"SimpleObfsHttp", Named(h)>> >>
      BY <2>1, <2>2, <2>3
    <3> QED BY <2>1, <3>1, ObfsStream
  <2>4. CASE m = "tls"
    <3>1. /\ kind = [kind |-> "SimpleObfsTls", host |-> h]
          /\ Asked = << <<"tcp">>, <<"SimpleObfsTls", Named(h)>> >>
      BY <2>1, <2>2, <2>4
    <3> QED BY <2>1, <3>1, ObfsStream
  <2>5. m = "http" \/ m = "tls"
    BY <2>1
  <2> QED BY <2>3, <2>4, <2>5
<1>2. CASE request.name = "v2ray-plugin"
  <2> DEFINE n == Len(opts)
             host == Named(LastOf("host", "true", ""))
             verify == ~Truthy(LastOf("skip-cert-verify", "true", ""))
             bad == \E i \in Given("mode") : ~Says(ValueAt(i, "true"), {"websocket", "ws"})
             tls == Truthy(LastOf("tls", "true", ""))
  <2>1. request.name \notin SimpleObfs
    BY <1>2 DEF SimpleObfs
  <2>2. kind = parse_opts(opts)
    BY <1>2, <2>1 DEF parse_plugin
  <2>3. Asked = IF bad THEN NoPlugin
                ELSE IF tls
                THEN << <<"tcp">>, <<"tls", host, verify>>, <<"ws", host>> >>
                ELSE << <<"tcp">>, <<"ws", host>> >>
    BY <1>2, <2>1 DEF Asked
  <2>4. V2rayRead(kind, opts, n)
    BY <2>2, V2rayParsed DEF V2rayAt
  <2>5. kind \in V2rayKinds
    BY <2>4 DEF V2rayRead
  <2>6. ~bad
    <3>1. \A i \in 1 .. n : ~BadMode(opts[i])
      BY <2>4 DEF V2rayRead
    <3>2. DOMAIN opts = 1 .. n
      BY DEF Options
    <3> QED BY <3>1, <3>2 DEF BadMode, Given, ValueAt, Valued
  <2>7. Named(kind.host) = host
    <3>1. LastOf("host", "true", "") = kind.host
      BY <2>4, MeansLast DEF V2rayRead
    <3> QED BY <3>1
  <2>8. kind.tls <=> tls
    <3>1. PICK v : Means(v, opts, "tls", "true", "", n) /\ (kind.tls <=> Truthy(v))
      BY <2>4 DEF V2rayRead
    <3>2. LastOf("tls", "true", "") = v
      BY <3>1, MeansLast
    <3> QED BY <3>1, <3>2
  <2>9. kind.skip_cert_verify <=> ~verify
    <3>1. PICK v : /\ Means(v, opts, "skip-cert-verify", "true", "", n)
                   /\ kind.skip_cert_verify <=> Truthy(v)
      BY <2>4 DEF V2rayRead
    <3>2. LastOf("skip-cert-verify", "true", "") = v
      BY <3>1, MeansLast
    <3> QED BY <3>1, <3>2
  <2>10. (~kind.skip_cert_verify) = verify
    BY <2>9, Zenon
  <2> HIDE DEF bad, tls, verify, host
  <2>11. CASE kind.tls
    <3>1. Stream(kind) = << <<"tcp">>, <<"tls", Named(kind.host), ~kind.skip_cert_verify>>,
                            <<"ws", Named(kind.host)>> >>
          /\ Stream(kind) # NoPlugin /\ wrap_stream(kind) \in Seq(Streams)
      BY <2>5, <2>11, V2rayStream, Zenon
    <3>2. Asked = << <<"tcp">>, <<"tls", host, verify>>, <<"ws", host>> >>
      BY <2>3, <2>6, <2>8, <2>11
    <3> QED BY <2>7, <2>10, <3>1, <3>2, Zenon
  <2>12. CASE ~kind.tls
    <3>1. Stream(kind) = << <<"tcp">>, <<"ws", Named(kind.host)>> >>
          /\ Stream(kind) # NoPlugin /\ wrap_stream(kind) \in Seq(Streams)
      BY <2>5, <2>12, V2rayStream, Zenon
    <3>2. Asked = << <<"tcp">>, <<"ws", host>> >>
      BY <2>3, <2>6, <2>8, <2>12
    <3> QED BY <2>7, <3>1, <3>2, Zenon
  <2> QED BY <2>11, <2>12
<1> QED BY <1>1, <1>2 DEF parse_plugin

-----------------------------------------------------------------------------
(* What is relayed.                                                        *)

\* The kind is what the options were parsed to; there are tasks for an accepted
\* plugin only, and one that relays has seen all awaits of wrap_stream.
RelayInv ==
  /\ kind = parse_plugin(request.name, request.opts)
  /\ \A c \in Conns : task[c] # "none" => kind # NoPlugin
  /\ \A c \in Conns : task[c] = "relay" => awaited[c] = Len(wrap_stream(kind))

\* The end of a connection keeps the others relayed as asked.
LEMMA RelayedEnd == ASSUME TypeOK, RelayInv, NEW c \in Conns, End(c) PROVE RelayInv'
BY DEF TypeOK, RelayInv, End

\* Every step keeps the connections relayed as asked.
LEMMA RelayedStep == ASSUME TypeOK, RelayInv, [Next]_vars PROVE RelayInv'
<1>1. CASE UNCHANGED <<request, kind, task, awaited>>
  BY <1>1 DEF RelayInv
<1>2. CASE Accept
  <2> DEFINE c == Head(backlog)
  <2>1. c \in Conns /\ kind # NoPlugin
    BY <1>2 DEF Accept, Accepting, TypeOK
  <2>2. /\ UNCHANGED <<request, kind>>
        /\ task' = [task EXCEPT ![c] = "dial"] /\ awaited' = [awaited EXCEPT ![c] = 0]
    BY <1>2 DEF Accept
  <2> HIDE DEF c
  <2> QED BY <2>1, <2>2 DEF RelayInv, TypeOK
<1>3. ASSUME NEW e \in AcceptErrors, AcceptFails(e) PROVE RelayInv'
  BY <1>1, <1>3 DEF AcceptFails, tasks
<1>4. CASE RuntimeDropped
  BY <1>4 DEF RuntimeDropped, RelayInv
<1>5. ASSUME NEW c \in Conns, Dialed(c) PROVE RelayInv'
  <2>1. /\ task[c] = "dial" /\ UNCHANGED <<request, kind>>
        /\ awaited' = [awaited EXCEPT ![c] = awaited[c] + 1]
    BY <1>5 DEF Dialed
  <2>2. CASE Wrapped(c, awaited[c] + 1)
    <3>1. task' = [task EXCEPT ![c] = "relay"]
      BY <1>5, <2>2 DEF Dialed
    <3>2. awaited'[c] = Len(wrap_stream(kind))
      BY <2>1, <2>2 DEF Wrapped, TypeOK
    <3>3. kind # NoPlugin
      BY <2>1 DEF RelayInv
    <3> QED BY <2>1, <3>1, <3>2, <3>3 DEF RelayInv, TypeOK
  <2>3. CASE ~Wrapped(c, awaited[c] + 1)
    <3>1. task' = task
      BY <1>5, <2>3 DEF Dialed
    <3> QED BY <2>1, <3>1 DEF RelayInv, TypeOK
  <2> QED BY <2>2, <2>3
<1>6. ASSUME NEW c \in Conns, NEW w \in {"up", "down"}, WayEnds(c, w) PROVE RelayInv'
  BY <1>1, <1>6, RelayedEnd DEF WayEnds
<1>7. ASSUME NEW c \in Conns, Arrive(c) \/ OpenSocket(c) \/ NoSocket(c) \/ TaskFails(c)
      PROVE  RelayInv'
  BY <1>1, <1>7, RelayedEnd DEF Arrive, OpenSocket, NoSocket, TaskFails, tasks
<1>8. CASE BackoffOver \/ ListenerBreaks
  BY <1>1, <1>8 DEF BackoffOver, ListenerBreaks, tasks
<1>9. CASE UNCHANGED vars
  BY <1>1, <1>9 DEF vars, tasks
<1> QED
  BY <1>2, <1>3, <1>4, <1>5, <1>6, <1>7, <1>8, <1>9 DEF Next, AcceptLoop

\* wrap_stream and the two option parsers: for any option string, of any length and
\* with any keys repeated, a connection is relayed only over exactly the layers,
\* and with exactly the host, that the string asks for.
THEOREM RelayedRight == Spec => []RelayedAsAsked
<1>1. Init => RelayInv
  BY DEF Init, RelayInv
<1>2. TypeOK /\ RelayInv /\ [Next]_vars => RelayInv'
  BY RelayedStep
<1>3. TypeOK /\ RelayInv => RelayedAsAsked
  <2> SUFFICES ASSUME TypeOK, RelayInv PROVE RelayedAsAsked
    OBVIOUS
  <2>1. kind # NoPlugin => Asked = Stream(kind) /\ Asked # NoPlugin
                             /\ wrap_stream(kind) \in Seq(Streams)
    <3>1. request.opts \in Options
      BY RequestsAssumption DEF TypeOK, Options, Option
    <3> QED BY <3>1, ParsedAsAsked DEF RelayInv
  <2>2. loop # "refused" => Asked # NoPlugin
    BY <2>1 DEF TypeOK
  <2>3. ASSUME NEW c \in Conns, task[c] = "relay" PROVE Layers(c) = Asked
    <3>1. kind # NoPlugin /\ awaited[c] = Len(wrap_stream(kind))
      BY <2>3 DEF RelayInv
    <3>2. SubSeq(wrap_stream(kind), 1, awaited[c]) = wrap_stream(kind)
      BY <2>1, <3>1, SubSeqFull
    <3> QED BY <2>1, <3>1, <3>2 DEF Layers, Stream
  <2> QED BY <2>2, <2>3 DEF RelayedAsAsked
<1> QED
  BY <1>1, <1>2, <1>3, TypeCorrect, PTL DEF Spec
=============================================================================
