-------------------------- MODULE NetworkTheorems ---------------------------
(***************************************************************************)
(* Theorems about the blocks of other nodes.  An orphan leaves the queue   *)
(* of downloads when it is applied, and no rejected block is downloaded    *)
(* again.  Leaders and verifiers agree on uncles, and no slot is           *)
(* referenced twice along a chain, for every set of headers, every era     *)
(* schedule and every reference window, although select_uncles looks no    *)
(* further back than the window and the LIB.                               *)
(***************************************************************************)
EXTENDS Uncles, ChainNetwork, CryptarchiaEngineTheorems

-----------------------------------------------------------------------------
(* The orphan downloader. *)

\* What dequeue_next_orphan starts with, and what an iteration makes of it.
FirstTaken(d) == {[d |-> d, next |-> {}]}
NextTaken(X) == UNION {{Dequeue(x, o) : o \in x.d.queue} : x \in {y \in X : y.next = {}}}
TakenEqn(d, n, f) ==
  f = [i \in 0..n |-> IF i = 0 THEN FirstTaken(d) ELSE NextTaken(f[i - 1])]

\* The recursion of Taken has a solution for every number of iterations.
LEMMA TakenExists ==
  ASSUME NEW d, NEW n \in Nat
  PROVE  \E f : TakenEqn(d, n, f)
<1> DEFINE Bad == {m \in Nat : ~ \E f : TakenEqn(d, m, f)}
<1> SUFFICES ASSUME Bad # {} PROVE FALSE
  BY Zenon
<1>1. PICK m \in Bad : \A k \in Bad : m <= k
  <2>1. Bad \subseteq Nat
    BY Zenon
  <2> QED
    BY Zenon, <2>1, SmallestInSet
<1>2. CASE m = 0
  <2> DEFINE f == [i \in 0..0 |-> FirstTaken(d)]
  <2>1. TakenEqn(d, 0, f)
    BY DEF TakenEqn
  <2> QED
    BY Zenon, <1>1, <1>2, <2>1
<1>3. CASE m # 0
  <2>1. m \in Nat /\ m - 1 \in Nat /\ m - 1 < m
    BY <1>1, <1>3
  <2>2. PICK g : TakenEqn(d, m - 1, g)
    BY <1>1, <2>1
  <2> DEFINE f == [i \in 0..m |-> IF i = 0 THEN FirstTaken(d) ELSE NextTaken(g[i - 1])]
  <2>3. ASSUME NEW i \in 0..m, i # 0 PROVE f[i - 1] = g[i - 1]
    <3>1. i - 1 \in 0..(m - 1) /\ i - 1 \in 0..m
      BY <2>1, <2>3
    <3>2. g[i - 1] = IF i - 1 = 0 THEN FirstTaken(d) ELSE NextTaken(g[(i - 1) - 1])
      BY Zenon, <2>2, <3>1 DEF TakenEqn
    <3> QED
      BY Zenon, <3>1, <3>2
  <2>4. f = [i \in 0..m |-> IF i = 0 THEN FirstTaken(d) ELSE NextTaken(f[i - 1])]
    BY Zenon, <2>3
  <2>5. TakenEqn(d, m, f)
    BY Zenon, <2>4 DEF TakenEqn
  <2> QED
    BY Zenon, <1>1, <2>5
<1> QED
  BY Zenon, <1>2, <1>3

\* So Taken computes what it says.
LEMMA TakenEquations ==
  ASSUME NEW d, NEW n \in Nat
  PROVE  /\ Taken(d, n)[0] = FirstTaken(d)
         /\ \A i \in 0..n : i # 0 => Taken(d, n)[i] = NextTaken(Taken(d, n)[i - 1])
<1>1. Taken(d, n) = CHOOSE f : TakenEqn(d, n, f)
  BY Zenon DEF TakenEqn, Taken, FirstTaken, NextTaken
<1>2. TakenEqn(d, n, Taken(d, n))
  BY Zenon, <1>1, TakenExists
<1> QED
  BY <1>2 DEF TakenEqn

\* A downloader has its three fields.
Fields(d) == d = [queue |-> d.queue, state |-> d.state, rejected |-> d.rejected]

\* The cache is all that an insertion or a hit changes.
LEMMA CacheOnly ==
  ASSUME NEW d, Fields(d), NEW b, NEW hit
  PROVE  /\ Fields(InsertRejected(d, b)) /\ InsertRejected(d, b).queue = d.queue
         /\ InsertRejected(d, b).state = d.state
         /\ Fields(Touched(d, hit)) /\ Touched(d, hit).queue = d.queue
         /\ Touched(d, hit).state = d.state
<1>1. PICK q, s, r : d = [queue |-> q, state |-> s, rejected |-> r]
  BY Zenon DEF Fields
<1>2. PICK c : InsertRejected(d, b) = [d EXCEPT !.rejected = c]
  BY Zenon DEF InsertRejected
<1>3. PICK t : Touched(d, hit) = d \/ Touched(d, hit) = [d EXCEPT !.rejected = t]
  BY Zenon, <1>1 DEF Touched
<1> QED
  BY Zenon, <1>1, <1>2, <1>3 DEF Fields

\* What an iteration of dequeue_next_orphan keeps: entries only leave the queue,
\* the state is not touched, and an entry that was found is from the queue and
\* has no hit in the cache.
TakenOK(d, x) ==
  /\ Fields(x.d) /\ x.d.state = d.state /\ x.d.queue \subseteq d.queue
  /\ \A o \in x.next :
       /\ x.next = {o} /\ o \in d.queue
       /\ ({o.orphan} \cup o.parent) \cap RejectedBlocks(x.d) = {}

LEMMA DequeueOK ==
  ASSUME NEW d, NEW x, TakenOK(d, x), x.next = {}, NEW o \in x.d.queue
  PROVE  TakenOK(d, Dequeue(x, o))
<1> DEFINE e == [x.d EXCEPT !.queue = @ \ {o}]
           hit == RejectedHit(e, o.orphan, o.parent)
<1>1. /\ Fields(e) /\ e.state = d.state /\ e.queue \subseteq d.queue /\ o \in d.queue
  <2>1. PICK q, s, r : x.d = [queue |-> q, state |-> s, rejected |-> r]
    BY Zenon DEF TakenOK, Fields
  <2> QED
    BY <2>1 DEF TakenOK, Fields
<1> HIDE DEF e
<1>2. Dequeue(x, o) = IF hit = {} THEN [d |-> e, next |-> {o}]
                      ELSE [d |-> InsertRejected(Touched(e, hit), o.orphan), next |-> {}]
  BY Zenon DEF Dequeue, e
<1>3. CASE hit = {}
  <2>1. ({o.orphan} \cup o.parent) \cap RejectedBlocks(e) = {}
    BY Zenon, <1>3 DEF RejectedHit
  <2> QED
    BY <1>1, <1>2, <1>3, <2>1 DEF TakenOK
<1>4. CASE hit # {}
  <2> DEFINE t == Touched(e, hit)
             f == InsertRejected(t, o.orphan)
  <2>1. Fields(t) /\ t.queue = e.queue /\ t.state = e.state
    BY Zenon, <1>1, CacheOnly
  <2> HIDE DEF t
  <2>2. Fields(f) /\ f.queue = e.queue /\ f.state = e.state
    BY Zenon, <2>1, CacheOnly
  <2>3. Dequeue(x, o) = [d |-> f, next |-> {}]
    BY Zenon, <1>2, <1>4 DEF t
  <2> HIDE DEF f
  <2> QED
    BY <1>1, <2>2, <2>3 DEF TakenOK
<1> QED
  BY Zenon, <1>3, <1>4

LEMMA TakenAllOK ==
  ASSUME NEW d, Fields(d), NEW n \in Nat, NEW i \in 0..n, NEW x \in Taken(d, n)[i]
  PROVE  TakenOK(d, x)
<1> DEFINE Good(k) == \A y \in Taken(d, n)[k] : TakenOK(d, y)
           Bad == {k \in 0..n : ~Good(k)}
<1> SUFFICES ASSUME Bad # {} PROVE FALSE
  BY Zenon
<1>1. PICK k \in Bad : \A j \in Bad : k <= j
  <2>1. Bad \subseteq Nat
    OBVIOUS
  <2> QED
    BY Zenon, <2>1, SmallestInSet
<1>2. CASE k = 0
  <2>1. TakenOK(d, [d |-> d, next |-> {}])
    BY Zenon DEF TakenOK
  <2>2. Good(0)
    BY ZenonT(30), <2>1, TakenEquations DEF FirstTaken
  <2> QED
    BY Zenon, <1>1, <1>2, <2>2
<1>3. CASE k # 0
  <2>1. k \in 0..n /\ k - 1 \in 0..n /\ k - 1 \notin Bad
    BY <1>1, <1>3
  <2>2. Good(k - 1)
    BY Zenon, <2>1
  <2>3. Taken(d, n)[k] = NextTaken(Taken(d, n)[k - 1])
    <3> HIDE DEF Bad
    <3>1. \A m \in 0..n : m # 0 => Taken(d, n)[m] = NextTaken(Taken(d, n)[m - 1])
      BY Zenon, TakenEquations
    <3> QED
      BY Zenon, <1>3, <2>1, <3>1
  <2>4. ASSUME NEW y \in Taken(d, n)[k] PROVE TakenOK(d, y)
    <3>1. PICK z \in Taken(d, n)[k - 1] : z.next = {} /\ \E o \in z.d.queue : y = Dequeue(z, o)
      BY <2>3 DEF NextTaken
    <3>2. PICK o \in z.d.queue : y = Dequeue(z, o)
      BY Zenon, <3>1
    <3> QED
      BY Zenon, <2>2, <3>1, <3>2, DequeueOK
  <2> QED
    BY Zenon, <1>1, <2>4
<1> QED
  BY Zenon, <1>2, <1>3

\* A poll of an idle downloader starts the download of an entry of the queue that
\* has no hit in the cache, or leaves it idle.
LEMMA PollIdleOK ==
  ASSUME NEW d, Fields(d), IsFiniteSet(d.queue), NEW e \in PollIdle(d)
  PROVE  /\ Fields(e) /\ e.queue \subseteq d.queue
         /\ \/ e.state = d.state
            \/ \E o \in d.queue :
                 /\ e.state = Requesting(o, {})
                 /\ ({o.orphan} \cup o.parent) \cap RejectedBlocks(e) = {}
<1> DEFINE n == Cardinality(d.queue)
<1>1. n \in Nat
  BY Zenon, FS_CardinalityType
<1>2. PICK x \in DequeueNextOrphan(d) :
        e = IF x.next = {} THEN x.d
            ELSE [x.d EXCEPT !.state = Requesting(CHOOSE o \in x.next : TRUE, {})]
  BY Zenon DEF PollIdle
<1>3. \E i \in 0..n : x \in Taken(d, n)[i]
  BY Zenon, <1>2 DEF DequeueNextOrphan
<1> HIDE DEF n
<1>4. TakenOK(d, x)
  BY Zenon, <1>1, <1>3, TakenAllOK
<1>5. CASE x.next = {}
  BY Zenon, <1>2, <1>4, <1>5 DEF TakenOK
<1>6. CASE x.next # {}
  <2>1. PICK o \in x.next : o = CHOOSE c \in x.next : TRUE
    BY Zenon, <1>6
  <2>2. PICK q, s, r : x.d = [queue |-> q, state |-> s, rejected |-> r]
    BY Zenon, <1>4 DEF TakenOK, Fields
  <2>3. e = [queue |-> q, state |-> Requesting(o, {}), rejected |-> r]
    BY <1>2, <1>6, <2>1, <2>2
  <2>4. RejectedBlocks(e) = RejectedBlocks(x.d)
    BY <2>2, <2>3 DEF RejectedBlocks
  <2> QED
    BY <1>4, <2>1, <2>2, <2>3, <2>4 DEF TakenOK, Fields
<1> QED
  BY Zenon, <1>5, <1>6

-----------------------------------------------------------------------------
(* The loop of the chain network service. *)

\* An orphan is a block that was seen, told with a local chain of blocks.
InfoOK(o) == o.orphan \in Seen /\ o.tip \in Blocks /\ o.lib \in Blocks

\* A download is of such an orphan, and its stream has blocks that were seen.
StateOK(s) ==
  \/ s = Idle
  \/ s = [phase |-> "Requesting", info |-> s.info, known |-> s.known] /\ InfoOK(s.info)
  \/ /\ s = [phase |-> "Downloading", info |-> s.info, stream |-> s.stream, last |-> s.last]
     /\ InfoOK(s.info) /\ s.stream \in Seq(Seen)

\* The inductive invariant: a block that the local leader has yet to make is
\* neither in the tree nor in the queue, which is why the downloader need not be
\* told when it is applied.
NetworkInv ==
  /\ EngineOK(engine) /\ made \subseteq Local
  /\ engine.branches \ {Genesis} \subseteq Seen
  /\ Fields(downloader) /\ IsFiniteSet(downloader.queue) /\ StateOK(downloader.state)
  /\ \A o \in downloader.queue \cup polled : InfoOK(o)
  /\ \A o \in polled : o.parent = {}
  /\ QueuedNotApplied

\* What was seen are blocks, and their ancestors have been seen.
LEMMA SeenAncestors ==
  ASSUME NEW b \in Seen
  PROVE  /\ b \in Blocks
         /\ \A n \in 1..Len(b) : AtLength(b, n) \in Seen
<1>1. b \in Network /\ b \in Seq(Headers) /\ b \in Blocks /\ Len(b) \in Nat
  BY NetworkAssumption DEF Seen, Blocks
<1>2. ASSUME NEW n \in 1..Len(b) PROVE AtLength(b, n) \in Seen
  <2> DEFINE a == AtLength(b, n)
  <2>1. a \in Network /\ n \in 0..Len(b)
    BY <1>1, NetworkAssumption
  <2>2. a \in Seq(Headers) /\ Len(a) = n /\ \A i \in 1..n : a[i] = b[i]
    BY Zenon, <1>1, <2>1, AtLengthProperties
  <2>3. ASSUME NEW m \in 1..Len(a) PROVE AtLength(a, m) = AtLength(b, m) /\ m \in 1..Len(b)
    <3>1. m \in 0..Len(a) /\ m \in 0..Len(b) /\ m \in 1..Len(b) /\ m \in 1..n
      BY <1>1, <2>2
    <3>2. /\ AtLength(a, m) \in Seq(Headers) /\ Len(AtLength(a, m)) = m
          /\ \A i \in 1..m : AtLength(a, m)[i] = a[i]
      BY Zenon, <2>2, <3>1, AtLengthProperties
    <3>3. /\ AtLength(b, m) \in Seq(Headers) /\ Len(AtLength(b, m)) = m
          /\ \A i \in 1..m : AtLength(b, m)[i] = b[i]
      BY Zenon, <1>1, <3>1, AtLengthProperties
    <3>4. \A i \in 1..m : i \in 1..n
      BY <1>1, <3>1
    <3>5. \A i \in 1..m : AtLength(a, m)[i] = AtLength(b, m)[i]
      BY Zenon, <2>2, <3>2, <3>3, <3>4
    <3>6. AtLength(a, m) = AtLength(b, m)
      BY Zenon, <3>2, <3>3, <3>5, SameSequence
    <3> QED
      BY Zenon, <3>1, <3>6
  <2> HIDE DEF a
  <2>4. \A m \in 1..Len(b) : AtLength(b, m) \notin Local \ made
    BY Zenon DEF Seen, Length
  <2> QED
    BY Zenon, <2>1, <2>3, <2>4 DEF Seen, Length, a
<1> QED
  BY Zenon, <1>1, <1>2

\* Whatever part of the path a peer answers with has been seen.
LEMMA AnswerSeen ==
  ASSUME NEW info, InfoOK(info), NEW known
  PROVE  AnswerOf(info, known) \in Seq(Seen)
<1> DEFINE o == info.orphan
           shared == {n \in 0..Length(o) : \E k \in known \cup {info.tip, info.lib} :
                        IsAncestor(AtLength(o, n), k)}
<1>1. o \in Blocks /\ Len(o) \in Nat /\ info.tip \in Blocks
  BY SeenAncestors DEF InfoOK, Blocks
<1>2. 0 \in shared
  <2>1. 0 \in 0..Length(o) /\ AtLength(o, 0) = << >>
    BY <1>1 DEF Length, AtLength, Blocks
  <2>2. IsAncestor(<< >>, info.tip)
    BY <1>1 DEF IsAncestor, Blocks
  <2> QED
    BY Zenon, <2>1, <2>2
<1>3. shared \subseteq 0..Len(o)
  BY Zenon DEF Length
<1> DEFINE start == CHOOSE s \in shared : \A m \in shared : m <= s
           size == Length(o) - start
           len == IF size <= BatchSize THEN size ELSE BatchSize
<1>4. start \in shared
  <2> DEFINE D == {Len(o) - s : s \in shared}
  <2>1. D \subseteq Nat /\ D # {}
    BY <1>1, <1>2, <1>3
  <2>2. PICK x \in D : \A y \in D : x <= y
    BY Zenon, <2>1, SmallestInSet
  <2>3. PICK s \in shared : x = Len(o) - s
    BY Zenon, <2>2
  <2> HIDE DEF shared
  <2>4. ASSUME NEW m \in shared PROVE m <= s
    <3>1. Len(o) - s <= Len(o) - m
      BY Zenon, <2>2, <2>3
    <3>2. m \in Int /\ s \in Int
      BY <1>3
    <3> QED
      BY <1>1, <3>1, <3>2
  <2> QED
    BY Zenon, <2>3, <2>4
<1>5. AnswerOf(info, known) = [i \in 1..len |-> AtLength(o, start + i)]
  BY Zenon DEF AnswerOf
<1> HIDE DEF shared, start
<1>6. start \in Nat /\ start <= Len(o) /\ BatchSize \in Nat
  BY <1>1, <1>3, <1>4, DownloaderAssumption
<1>7. len \in Nat /\ \A i \in 1..len : start + i \in 1..Len(o)
  BY <1>1, <1>6 DEF Length
<1> HIDE DEF len
<1>8. \A i \in 1..len : AtLength(o, start + i) \in Seen
  BY Zenon, <1>7, SeenAncestors DEF InfoOK
<1> QED
  BY <1>5, <1>7, <1>8

\* A block other than genesis is its parent and its header.
LEMMA ParentAndHeader ==
  ASSUME NEW b \in Blocks, b # Genesis
  PROVE  ParentOf(b) \in Blocks /\ b[Len(b)] \in Headers /\ b = Append(ParentOf(b), b[Len(b)])
<1> DEFINE p == ParentOf(b)
           c == Append(p, b[Len(b)])
<1>1. b \in Seq(Headers) /\ Len(b) \in Nat /\ Len(b) # 0 /\ Len(b) - 1 \in 0..Len(b)
      /\ b[Len(b)] \in Headers
  BY DEF Blocks, Genesis
<1>2. p \in Seq(Headers) /\ Len(p) = Len(b) - 1 /\ \A i \in 1..(Len(b) - 1) : p[i] = b[i]
  BY Zenon, <1>1, AtLengthProperties DEF ParentOf
<1> HIDE DEF p
<1>3. /\ c \in Seq(Headers) /\ Len(c) = Len(p) + 1 /\ c[Len(p) + 1] = b[Len(b)]
      /\ \A i \in 1..Len(p) : c[i] = p[i]
  BY <1>1, <1>2
<1> HIDE DEF c
<1>4. Len(c) = Len(b)
  BY <1>1, <1>2, <1>3
<1>5. ASSUME NEW i \in 1..Len(c) PROVE c[i] = b[i]
  <2>1. i = Len(b) \/ i \in 1..(Len(b) - 1)
    BY <1>1, <1>4
  <2> QED
    BY <1>1, <1>2, <1>3, <2>1
<1>6. c = b
  BY ZenonT(30), <1>1, <1>3, <1>4, <1>5, SameSequence
<1> QED
  BY Zenon, <1>1, <1>2, <1>6 DEF Blocks, c, p

\* A block that apply_block accepts is all that enters the tree.
LEMMA ApplyEffect ==
  ASSUME EngineOK(engine), NEW b \in Blocks, b # Genesis, b \notin engine.branches,
         ApplyAnswer(b) = "Ok", NEW r \in ReceiveOutcomes(engine, b)
  PROVE  /\ EngineOK(r.engine) /\ r.engine.branches \subseteq engine.branches \cup {b}
         /\ ParentOf(b) \in engine.branches
<1>1. ParentOf(b) \in engine.branches /\ ~(SlotOf(b) <= SlotOf(ParentOf(b)))
  BY Zenon DEF ApplyAnswer, ParentMissing
<1>2. PICK p, h : p = ParentOf(b) /\ h = b[Len(b)]
  BY Zenon
<1>3. p \in Blocks /\ h \in Headers /\ b = Append(p, h)
  BY Zenon, <1>2, ParentAndHeader
<1>4. SlotOf(p) \in Nat /\ SlotOf(b) \in Nat
  BY Zenon, <1>3, SecurityParamAtBlock
<1>5. p \in engine.branches /\ SlotOf(p) < SlotOf(b)
  BY <1>1, <1>2, <1>4
<1>6. EngineOK(r.engine)
  BY Zenon, <1>3, <1>5, ReceiveOK
<1>7. PICK a, c, tip : ReceivedVia(engine, b, r, a, c, tip)
  BY Zenon, <1>3, <1>5, ReceiveSteps
<1>8. /\ a.branches = engine.branches \cup {b} /\ EngineOK(c) /\ c.branches = a.branches
      /\ r.engine = UpdateLib(c).engine
  BY Zenon, <1>7 DEF ReceivedVia
<1>9. UpdateLib(c).engine.branches \subseteq c.branches
  BY ZenonT(30), <1>8, UpdateLibEffect
<1> QED
  BY Zenon, <1>1, <1>6, <1>8, <1>9

\* enqueue_orphan adds no other entry, and leaves the state alone.
LEMMA EnqueueEffect ==
  ASSUME NEW d, Fields(d), NEW info
  PROVE  /\ Fields(EnqueueOrphan(d, info)) /\ EnqueueOrphan(d, info).state = d.state
         /\ EnqueueOrphan(d, info).queue \subseteq d.queue \cup {info}
<1> DEFINE hit == RejectedHit(d, info.orphan, info.parent)
           t == Touched(d, hit)
           without == [d EXCEPT !.queue = {o \in @ : o.orphan \notin info.parent}]
           with == [without EXCEPT !.queue = @ \cup {info}]
<1>1. PICK q, s, r : d = [queue |-> q, state |-> s, rejected |-> r]
  BY Zenon DEF Fields
<1>2. Fields(t) /\ t.queue = d.queue /\ t.state = d.state
  BY Zenon, CacheOnly
<1>3. /\ Fields(InsertRejected(t, info.orphan)) /\ InsertRejected(t, info.orphan).queue = d.queue
      /\ InsertRejected(t, info.orphan).state = d.state
  BY Zenon, <1>2, CacheOnly
<1> DEFINE rest == {o \in q : o.orphan \notin info.parent}
<1>4. /\ without = [queue |-> rest, state |-> s, rejected |-> r]
      /\ with = [queue |-> rest \cup {info}, state |-> s, rejected |-> r]
  <2>1. {o \in d.queue : o.orphan \notin info.parent} = rest
    BY Zenon, <1>1
  <2>2. \A x : [d EXCEPT !.queue = x] = [queue |-> x, state |-> s, rejected |-> r]
    BY <1>1
  <2>3. without = [queue |-> rest, state |-> s, rejected |-> r]
    BY Zenon, <2>1, <2>2
  <2> HIDE DEF without, rest
  <2> QED
    BY <2>3
<1>5. /\ Fields(without) /\ without.state = d.state /\ without.queue \subseteq d.queue \cup {info}
      /\ Fields(with) /\ with.state = d.state /\ with.queue \subseteq d.queue \cup {info}
  BY Zenon, <1>1, <1>4 DEF Fields
<1>6. EnqueueOrphan(d, info) \in {InsertRejected(t, info.orphan), d, without, with}
  BY Zenon DEF EnqueueOrphan
<1> HIDE DEF hit, t, without, with
<1> QED
  BY Zenon, <1>3, <1>5, <1>6

\* remove_orphan leaves all other entries.
LEMMA RemoveEffect ==
  ASSUME NEW d, Fields(d), NEW b
  PROVE  /\ Fields(RemoveOrphan(d, b)) /\ RemoveOrphan(d, b).state = d.state
         /\ RemoveOrphan(d, b).queue = {o \in d.queue : o.orphan # b}
<1>1. PICK q, s, r : d = [queue |-> q, state |-> s, rejected |-> r]
  BY Zenon DEF Fields
<1> QED
  BY <1>1 DEF RemoveOrphan, Fields

\* A new state is the only change.
LEMMA StateEffect ==
  ASSUME NEW d, Fields(d), NEW s
  PROVE  /\ Fields([d EXCEPT !.state = s]) /\ [d EXCEPT !.state = s].state = s
         /\ [d EXCEPT !.state = s].queue = d.queue
<1>1. PICK q, t, r : d = [queue |-> q, state |-> t, rejected |-> r]
  BY Zenon DEF Fields
<1> QED
  BY <1>1 DEF Fields

\* More blocks are seen when the local leader makes one.
LEMMA SeenGrows ==
  ASSUME made \subseteq made'
  PROVE  /\ Seen \subseteq Seen'
         /\ \A o : InfoOK(o) => InfoOK(o)'
         /\ \A s : StateOK(s) => StateOK(s)'
<1>1. Seen \subseteq Seen'
  BY Zenon DEF Seen
<1>2. ASSUME NEW o, InfoOK(o) PROVE InfoOK(o)'
  BY Zenon, <1>1, <1>2 DEF InfoOK
<1>3. Seq(Seen) \subseteq Seq(Seen')
  BY <1>1
<1>4. ASSUME NEW s, StateOK(s) PROVE StateOK(s)'
  BY Zenon, <1>2, <1>3, <1>4 DEF StateOK
<1> QED
  BY Zenon, <1>1, <1>2, <1>4

\* A step that changes the downloader and the polled tip only.
LEMMA DownloaderStep ==
  ASSUME NetworkInv, engine' = engine, made' = made,
         NEW d, Fields(d), downloader' = d, IsFiniteSet(d.queue), StateOK(d.state),
         \A o \in d.queue : InfoOK(o) /\ (o.parent # {} => o.orphan \notin engine.branches),
         \A o \in polled' : InfoOK(o) /\ o.parent = {}
  PROVE  NetworkInv'
<1>1. /\ Seen \subseteq Seen' /\ \A o : InfoOK(o) => InfoOK(o)'
      /\ StateOK(downloader.state)'
  BY Zenon, SeenGrows
<1>2. QueuedNotApplied'
  BY Zenon DEF QueuedNotApplied
<1> QED
  BY Zenon, <1>1, <1>2 DEF NetworkInv

\* A step that applies a block, which is not in the queue afterwards.
LEMMA AppliedStep ==
  ASSUME NetworkInv, NEW b \in Blocks, b # Genesis, b \notin engine.branches,
         ApplyAnswer(b) = "Ok", NEW r \in ReceiveOutcomes(engine, b), engine' = r.engine,
         made \subseteq made', made' \subseteq Local, b \in Seen', polled' = polled,
         NEW d, Fields(d), downloader' = d, d.queue \subseteq downloader.queue,
         StateOK(d.state), \A o \in d.queue : o.orphan # b
  PROVE  NetworkInv'
<1>1. /\ Seen \subseteq Seen' /\ \A o : InfoOK(o) => InfoOK(o)'
      /\ StateOK(downloader.state)'
  BY Zenon, SeenGrows
<1>2. EngineOK(engine)' /\ engine'.branches \subseteq engine.branches \cup {b}
  BY Zenon, ApplyEffect DEF NetworkInv
<1>3. QueuedNotApplied'
  BY Zenon, <1>2 DEF QueuedNotApplied, NetworkInv
<1>4. IsFiniteSet(downloader'.queue)
  BY Zenon, FS_Subset DEF NetworkInv
<1> QED
  BY Zenon, <1>1, <1>2, <1>3, <1>4 DEF NetworkInv

\* The parts of the invariant that every step starts from.
LEMMA InvFacts ==
  ASSUME NetworkInv
  PROVE  /\ EngineOK(engine) /\ engine.lib \in Blocks /\ engine.local_chain \in Blocks
         /\ SlotOf(engine.lib) \in Nat
         /\ Fields(downloader) /\ IsFiniteSet(downloader.queue) /\ StateOK(downloader.state)
         /\ \A o \in downloader.queue :
              InfoOK(o) /\ (o.parent # {} => o.orphan \notin engine.branches)
         /\ \A o \in polled : InfoOK(o) /\ o.parent = {}
<1>1. EngineOK(engine) /\ engine.lib \in Blocks /\ engine.local_chain \in Blocks
  BY Zenon DEF NetworkInv, EngineOK, EngineType
<1>2. SlotOf(engine.lib) \in Nat
  BY Zenon, <1>1, SecurityParamAtBlock
<1> QED
  BY Zenon, <1>1, <1>2 DEF NetworkInv, QueuedNotApplied

\* A block after the LIB is not genesis.
LEMMA AfterLib ==
  ASSUME NetworkInv, NEW b, ~OlderThanLib(b)
  PROVE  b # Genesis
<1>1. SlotOf(Genesis) = 0 /\ SlotOf(engine.lib) \in Nat
  BY Zenon, InvFacts DEF SlotOf
<1>2. OlderThanLib(Genesis)
  BY <1>1 DEF OlderThanLib
<1> QED
  BY Zenon, <1>2

\* An incoming proposal.
LEMMA ProposalKeeps ==
  ASSUME NetworkInv, NEW b \in Seen, HandleIncomingProposal(b)
  PROVE  NetworkInv'
<1> DEFINE info == OrphanInfo(b, {ParentOf(b)}, engine.local_chain, engine.lib)
<1>0. UNCHANGED <<outcome, polled, made>> /\ b \in Blocks
  BY Zenon, SeenAncestors DEF HandleIncomingProposal
<1>1. ASSUME Only(InsertRejected(downloader, b)) PROVE NetworkInv'
  <2> DEFINE d == InsertRejected(downloader, b)
  <2>1. Fields(d) /\ d.queue = downloader.queue /\ d.state = downloader.state
    BY Zenon, InvFacts, CacheOnly
  <2>2. downloader' = d /\ engine' = engine
    BY Zenon, <1>1 DEF Only
  <2> HIDE DEF d
  <2> QED
    BY ZenonT(30), <1>0, <2>1, <2>2, InvFacts, DownloaderStep
<1>2. ASSUME ~AlreadyApplied(b), Only(EnqueueOrphan(downloader, info)) PROVE NetworkInv'
  <2> DEFINE d == EnqueueOrphan(downloader, info)
  <2>1. Fields(d) /\ d.queue \subseteq downloader.queue \cup {info} /\ d.state = downloader.state
    BY ZenonT(30), InvFacts, EnqueueEffect
  <2>2. downloader' = d /\ engine' = engine
    BY Zenon, <1>2 DEF Only
  <2> HIDE DEF d
  <2>3. InfoOK(info) /\ info.orphan = b /\ b \notin engine.branches
    BY Zenon, <1>2, InvFacts DEF InfoOK, OrphanInfo, AlreadyApplied
  <2> HIDE DEF info
  <2>4. IsFiniteSet(d.queue)
    <3>1. IsFiniteSet(downloader.queue \cup {info})
      BY Zenon, InvFacts, FS_AddElement
    <3> QED
      BY Zenon, <2>1, <3>1, FS_Subset
  <2>5. \A o \in d.queue : InfoOK(o) /\ (o.parent # {} => o.orphan \notin engine.branches)
    BY Zenon, <2>1, <2>3, InvFacts
  <2> QED
    BY ZenonT(30), <1>0, <2>1, <2>2, <2>4, <2>5, InvFacts, DownloaderStep
<1>3. ASSUME ~OlderThanLib(b), ~AlreadyApplied(b), ApplyAnswer(b) = "Ok",
             Applied(b, RemoveOrphan(downloader, b))
      PROVE  NetworkInv'
  <2> DEFINE d == RemoveOrphan(downloader, b)
  <2>1. /\ Fields(d) /\ d.queue = {o \in downloader.queue : o.orphan # b}
        /\ d.state = downloader.state
    BY Zenon, InvFacts, RemoveEffect
  <2>2. PICK r \in ReceiveOutcomes(engine, b) : engine' = r.engine /\ downloader' = d
    BY Zenon, <1>3 DEF Applied
  <2> HIDE DEF d
  <2>3. b # Genesis /\ b \notin engine.branches
    BY Zenon, <1>3, AfterLib DEF AlreadyApplied
  <2>4. made \subseteq Local /\ made' = made /\ b \in Seen'
    BY Zenon, <1>0, SeenGrows DEF NetworkInv
  <2> QED
    BY ZenonT(30), <1>0, <1>3, <2>1, <2>2, <2>3, <2>4, InvFacts, AppliedStep
<1>4. ApplyAnswer(b) \in {"ParentMissing", "Invalid", "Ok"}
  BY Zenon DEF ApplyAnswer
<1>5. CASE OlderThanLib(b)
  BY Zenon, <1>1, <1>5 DEF HandleIncomingProposal
<1>6. CASE ~OlderThanLib(b) /\ ApplyAnswer(b) = "ParentMissing"
  BY Zenon, <1>2, <1>6 DEF HandleIncomingProposal
<1>7. CASE ~OlderThanLib(b) /\ ApplyAnswer(b) = "Invalid"
  BY Zenon, <1>1, <1>7 DEF HandleIncomingProposal
<1>8. CASE ~OlderThanLib(b) /\ ApplyAnswer(b) = "Ok"
  BY Zenon, <1>3, <1>8 DEF HandleIncomingProposal
<1> QED
  BY ZenonT(30), <1>4, <1>5, <1>6, <1>7, <1>8

\* A downloader that can follow: entries have only left the queue, and the state
\* is one of a download.
Follows(d) == /\ Fields(d) /\ d.queue \subseteq downloader.queue /\ StateOK(d.state)

\* A step to such a downloader keeps the invariant.
LEMMA FollowStep ==
  ASSUME NetworkInv, engine' = engine, made' = made, polled' = polled,
         NEW d, Follows(d), downloader' = d
  PROVE  NetworkInv'
<1>1. IsFiniteSet(d.queue)
  BY Zenon, InvFacts, FS_Subset DEF Follows
<1> QED
  BY Zenon, <1>1, InvFacts, DownloaderStep DEF Follows

\* Cancelling a download, and going idle, only removes.
LEMMA CancelFollows ==
  ASSUME NEW d, Follows(d), NEW b
  PROVE  /\ Follows(RemoveOrphan(d, b)) /\ Follows([d EXCEPT !.state = Idle])
         /\ Follows(CancelActiveDownload(d)) /\ Follows(InsertRejected(d, b))
<1>1. ASSUME NEW e, Follows(e), NEW c PROVE Follows(RemoveOrphan(e, c))
  <2>1. /\ Fields(RemoveOrphan(e, c)) /\ RemoveOrphan(e, c).state = e.state
        /\ RemoveOrphan(e, c).queue = {o \in e.queue : o.orphan # c}
    BY ZenonT(30), <1>1, RemoveEffect DEF Follows
  <2> QED
    BY Zenon, <1>1, <2>1 DEF Follows
<1>2. Follows([d EXCEPT !.state = Idle])
  <2>1. /\ Fields([d EXCEPT !.state = Idle]) /\ [d EXCEPT !.state = Idle].state = Idle
        /\ [d EXCEPT !.state = Idle].queue = d.queue
    BY Zenon, StateEffect DEF Follows
  <2> QED
    BY Zenon, <2>1 DEF Follows, StateOK
<1>3. Follows(CancelActiveDownload(d))
  BY Zenon, <1>1, <1>2 DEF CancelActiveDownload
<1>4. Follows(InsertRejected(d, b))
  <2>1. /\ Fields(InsertRejected(d, b)) /\ InsertRejected(d, b).queue = d.queue
        /\ InsertRejected(d, b).state = d.state
    BY Zenon, CacheOnly DEF Follows
  <2> QED
    BY Zenon, <2>1 DEF Follows
<1> QED
  BY Zenon, <1>1, <1>2, <1>3, <1>4

\* A tip of a peer is found, and enqueued later.
LEMMA PolledTipKeeps ==
  ASSUME NetworkInv
  PROVE  /\ \A b \in Seen : PollPeerTips(b) => NetworkInv'
         /\ EnqueuePolledTip => NetworkInv'
<1>1. ASSUME NEW b \in Seen, PollPeerTips(b) PROVE NetworkInv'
  <2> DEFINE info == OrphanInfo(b, {}, engine.local_chain, engine.lib)
  <2>1. /\ polled' = {info} /\ engine' = engine /\ downloader' = downloader /\ made' = made
    BY Zenon, <1>1 DEF PollPeerTips
  <2>2. InfoOK(info) /\ info.parent = {}
    BY Zenon, InvFacts DEF InfoOK, OrphanInfo
  <2> HIDE DEF info
  <2> QED
    BY Zenon, <2>1, <2>2, InvFacts, DownloaderStep
<1>2. ASSUME EnqueuePolledTip PROVE NetworkInv'
  <2>1. PICK info \in polled : downloader' = EnqueueOrphan(downloader, info)
    BY Zenon, <1>2 DEF EnqueuePolledTip, Only
  <2>2. engine' = engine /\ polled' = {} /\ made' = made
    BY Zenon, <1>2 DEF EnqueuePolledTip, Only
  <2> DEFINE d == EnqueueOrphan(downloader, info)
  <2>3. Fields(d) /\ d.queue \subseteq downloader.queue \cup {info} /\ d.state = downloader.state
    BY Zenon, InvFacts, EnqueueEffect
  <2>4. downloader' = d
    BY Zenon, <2>1
  <2> HIDE DEF d
  <2>5. InfoOK(info) /\ info.parent = {}
    BY Zenon, InvFacts
  <2>6. IsFiniteSet(d.queue)
    <3>1. IsFiniteSet(downloader.queue \cup {info})
      BY Zenon, InvFacts, FS_AddElement
    <3> QED
      BY Zenon, <2>3, <3>1, FS_Subset
  <2>7. \A o \in d.queue : InfoOK(o) /\ (o.parent # {} => o.orphan \notin engine.branches)
    BY Zenon, <2>3, <2>5, InvFacts
  <2> QED
    BY ZenonT(30), <2>2, <2>3, <2>4, <2>6, <2>7, InvFacts, DownloaderStep
<1> QED
  BY Zenon, <1>1, <1>2

\* A block of the local leader: nobody has seen it before.
LEMMA LocalBlockKeeps ==
  ASSUME NetworkInv, NEW b \in Local, ApplyLocalBlock(b)
  PROVE  NetworkInv'
<1>1. /\ b \notin made /\ made' = made \cup {b} /\ polled' = polled
      /\ ApplyAnswer(b) = "Ok" /\ downloader' = downloader
  BY Zenon DEF ApplyLocalBlock, Applied
<1>2. PICK r \in ReceiveOutcomes(engine, b) : engine' = r.engine
  BY Zenon DEF ApplyLocalBlock, Applied
<1>3. b \in Network /\ b \in Blocks /\ Len(b) \in Nat
  BY NetworkAssumption DEF Blocks
<1>4. b # Genesis
  <2>1. SlotOf(Genesis) <= SlotOf(ParentOf(Genesis))
    BY DEF SlotOf, ParentOf, AtLength, Genesis
  <2> QED
    BY Zenon, <1>1, <2>1 DEF ApplyAnswer
<1>5. Len(b) \in 1..Len(b) /\ AtLength(b, Len(b)) = b
  BY <1>3, <1>4 DEF Blocks, AtLength, Genesis
<1>6. b \notin Seen
  BY Zenon, <1>1, <1>5 DEF Seen, Length
<1>7. b \notin engine.branches /\ \A o \in downloader.queue : o.orphan # b
  BY ZenonT(30), <1>4, <1>6, InvFacts DEF NetworkInv, InfoOK
<1>8. ParentOf(b) \in engine.branches
  BY Zenon, <1>1 DEF ApplyAnswer, ParentMissing
<1>9. b \in Seen'
  <2>1. ASSUME NEW n \in 1..Len(b) PROVE AtLength(b, n) \notin Local \ made'
    <3>1. CASE n = Len(b)
      BY ZenonT(30), <1>1, <1>5, <3>1
    <3>2. CASE n # Len(b)
      <4> DEFINE p == ParentOf(b)
      <4>1. b \in Seq(Headers) /\ Len(b) - 1 \in 0..Len(b) /\ n \in 1..(Len(b) - 1) /\ n \in 0..Len(b)
        BY <1>3, <3>2 DEF Blocks
      <4>2. p \in Seq(Headers) /\ Len(p) = Len(b) - 1 /\ \A i \in 1..(Len(b) - 1) : p[i] = b[i]
        BY ZenonT(30), <4>1, AtLengthProperties DEF ParentOf
      <4>3. p \in Seen
        <5>1. p # Genesis
          BY <4>1, <4>2 DEF Genesis
        <5> QED
          BY Zenon, <1>8, <5>1 DEF NetworkInv
      <4> HIDE DEF p
      <4>4. n \in 1..Len(p) /\ n \in 0..Len(p)
        BY <4>1, <4>2
      <4>5. AtLength(p, n) = AtLength(b, n)
        <5>1. /\ AtLength(p, n) \in Seq(Headers) /\ Len(AtLength(p, n)) = n
              /\ \A i \in 1..n : AtLength(p, n)[i] = p[i]
          BY Zenon, <4>2, <4>4, AtLengthProperties
        <5>2. /\ AtLength(b, n) \in Seq(Headers) /\ Len(AtLength(b, n)) = n
              /\ \A i \in 1..n : AtLength(b, n)[i] = b[i]
          BY Zenon, <4>1, AtLengthProperties
        <5>3. \A i \in 1..n : i \in 1..(Len(b) - 1)
          BY <1>3, <4>1
        <5> QED
          BY ZenonT(30), <4>2, <5>1, <5>2, <5>3, SameSequence
      <4> QED
        BY ZenonT(30), <1>1, <4>3, <4>4, <4>5 DEF Seen, Length
    <3> QED
      BY Zenon, <3>1, <3>2
  <2> QED
    BY Zenon, <1>3, <2>1 DEF Seen, Length
<1>10. made \subseteq made' /\ made' \subseteq Local
  BY Zenon, <1>1 DEF NetworkInv
<1> QED
  BY ZenonT(30), <1>1, <1>2, <1>3, <1>4, <1>7, <1>9, <1>10, InvFacts, AppliedStep

\* A download starts, and a peer answers.
LEMMA RequestKeeps ==
  ASSUME NetworkInv
  PROVE  /\ StartDownload => NetworkInv'
         /\ Answered => NetworkInv'
<1>1. ASSUME StartDownload PROVE NetworkInv'
  <2>1. /\ engine' = engine /\ polled' = polled /\ made' = made
        /\ downloader' \in PollIdle(downloader)
    BY Zenon, <1>1 DEF StartDownload, Only
  <2>2. PICK d \in PollIdle(downloader) : downloader' = d
    BY Zenon, <2>1
  <2>3. /\ Fields(d) /\ d.queue \subseteq downloader.queue
        /\ d.state = downloader.state \/ \E o \in downloader.queue : d.state = Requesting(o, {})
    BY Zenon, InvFacts, PollIdleOK
  <2>4. \A o \in downloader.queue : StateOK(Requesting(o, {}))
    BY Zenon, InvFacts DEF StateOK, Requesting
  <2>5. Follows(d)
    BY ZenonT(30), <2>3, <2>4, InvFacts DEF Follows
  <2> QED
    BY ZenonT(30), <2>1, <2>2, <2>5, FollowStep
<1>2. ASSUME Answered PROVE NetworkInv'
  <2> DEFINE s == downloader.state
             answer == AnswerOf(s.info, s.known)
  <2>1. engine' = engine /\ polled' = polled /\ made' = made
    BY Zenon, <1>2 DEF Answered, Only
  <2>2. s.phase = "Requesting" /\ downloader' \in PollRequesting(downloader)
    BY Zenon, <1>2 DEF Answered, Only
  <2>3. InfoOK(s.info)
    BY <2>2, InvFacts DEF StateOK, Idle
  <2>4. answer \in Seq(Seen)
    BY Zenon, <2>3, AnswerSeen
  <2> HIDE DEF answer
  <2>5. ASSUME NEW n \in 0..Len(answer)
        PROVE  StateOK(Downloading(s.info, SubSeq(answer, 1, n), {}))
    <3>1. SubSeq(answer, 1, n) \in Seq(Seen)
      BY <2>4
    <3> QED
      BY Zenon, <2>3, <3>1 DEF StateOK, Downloading
  <2>6. PICK t : downloader' = [downloader EXCEPT !.state = t] /\ StateOK(t)
    <3>1. CASE downloader' = [downloader EXCEPT !.state = Idle]
      BY Zenon, <3>1 DEF StateOK
    <3>2. CASE downloader' # [downloader EXCEPT !.state = Idle]
      <4>1. PICK n \in 0..Len(answer) :
              downloader' = [downloader EXCEPT !.state = Downloading(s.info, SubSeq(answer, 1, n), {})]
        BY Zenon, <2>2, <3>2 DEF PollRequesting, answer
      <4> QED
        BY Zenon, <2>5, <4>1
    <3> QED
      BY Zenon, <3>1, <3>2
  <2>7. Follows([downloader EXCEPT !.state = t])
    <3>1. /\ Fields([downloader EXCEPT !.state = t]) /\ [downloader EXCEPT !.state = t].state = t
          /\ [downloader EXCEPT !.state = t].queue = downloader.queue
      BY Zenon, InvFacts, StateEffect
    <3> QED
      BY Zenon, <2>6, <3>1 DEF Follows
  <2> QED
    BY ZenonT(30), <2>1, <2>6, <2>7, FollowStep
<1> QED
  BY Zenon, <1>1, <1>2

\* The block received leaves the queue, and the download goes on or is over.
LEMMA PollBlockEffect ==
  ASSUME NetworkInv, downloader.state.phase = "Downloading", downloader.state.stream # << >>
  PROVE  /\ ReceivedBlock(downloader) \in Seen
         /\ Follows(PollBlock(downloader))
         /\ \A o \in PollBlock(downloader).queue : o.orphan # ReceivedBlock(downloader)
<1> DEFINE d == downloader
           s == downloader.state
           b == ReceivedBlock(downloader)
           next == Downloading(s.info, Tail(s.stream), {b})
           received == [d EXCEPT !.state = next]
           idle == [d EXCEPT !.state = Idle]
<1>1. /\ Fields(d) /\ InfoOK(s.info) /\ s.stream \in Seq(Seen)
  BY InvFacts DEF StateOK, Idle
<1>2. b \in Seen /\ Tail(s.stream) \in Seq(Seen)
  BY <1>1 DEF ReceivedBlock
<1>3. StateOK(next)
  BY Zenon, <1>1, <1>2 DEF StateOK, Downloading
<1>5. Follows(received) /\ Follows(idle)
  <2>1. Fields(received) /\ received.state = next /\ received.queue = d.queue
    BY Zenon, <1>1, StateEffect
  <2>2. Follows(d)
    BY Zenon, InvFacts DEF Follows
  <2> HIDE DEF next
  <2> QED
    BY ZenonT(30), <1>3, <2>1, <2>2, CancelFollows DEF Follows
<1> DEFINE e == IF b = s.info.orphan THEN idle ELSE received
<1>6. PollBlock(downloader) = RemoveOrphan(e, b)
  BY Zenon DEF PollBlock
<1>7. Follows(e)
  BY Zenon, <1>5
<1> HIDE DEF e, b
<1>8. Follows(RemoveOrphan(e, b)) /\ RemoveOrphan(e, b).queue = {o \in e.queue : o.orphan # b}
  BY ZenonT(30), <1>7, CancelFollows, RemoveEffect DEF Follows
<1> QED
  BY ZenonT(30), <1>2, <1>6, <1>8 DEF b

\* A block of a download is processed, or its stream fails or ends.
LEMMA DownloadKeeps ==
  ASSUME NetworkInv
  PROVE  /\ DownloadedBlock => NetworkInv'
         /\ StreamEnded => NetworkInv'
<1>0. Follows(downloader)
  BY Zenon, InvFacts DEF Follows
<1>1. ASSUME DownloadedBlock PROVE NetworkInv'
  <2> DEFINE b == ReceivedBlock(downloader)
             d == PollBlock(downloader)
  <2>1. polled' = polled /\ made' = made
    BY Zenon, <1>1 DEF DownloadedBlock
  <2>2. b \in Seen /\ Follows(d) /\ \A o \in d.queue : o.orphan # b
    BY Zenon, <1>1, PollBlockEffect DEF DownloadedBlock
  <2>3. ProcessDownloaded(b, d) \/ Only(PollError(downloader))
    BY Zenon, <1>1 DEF DownloadedBlock
  <2> HIDE DEF b, d
  <2>4. ASSUME NEW e, Follows(e), Only(e) PROVE NetworkInv'
    BY Zenon, <2>1, <2>4, FollowStep DEF Only
  <2>5. CASE Only(PollError(downloader))
    BY ZenonT(30), <1>0, <2>4, <2>5, CancelFollows DEF PollError
  <2>6. CASE ~OlderThanLib(b) /\ ~AlreadyApplied(b) /\ ApplyAnswer(b) = "Ok" /\ Applied(b, d)
    <3>1. PICK r \in ReceiveOutcomes(engine, b) : engine' = r.engine /\ downloader' = d
      BY Zenon, <2>6 DEF Applied
    <3>2. b # Genesis /\ b \notin engine.branches /\ b \in Blocks
      BY ZenonT(30), <2>2, <2>6, AfterLib, SeenAncestors DEF AlreadyApplied
    <3>3. made \subseteq Local /\ b \in Seen'
      BY Zenon, <2>1, <2>2, SeenGrows DEF NetworkInv
    <3> QED
      BY ZenonT(30), <2>1, <2>2, <2>6, <3>1, <3>2, <3>3, AppliedStep DEF Follows
  <2>7. Follows(InsertRejected(d, b)) /\ Follows(CancelActiveDownload(d))
    BY Zenon, <2>2, CancelFollows
  <2>8. Follows(CancelActiveDownload(InsertRejected(d, b)))
    BY Zenon, <2>7, CancelFollows
  <2> QED
    BY ZenonT(30), <2>2, <2>3, <2>4, <2>5, <2>6, <2>7, <2>8 DEF ProcessDownloaded
<1>2. ASSUME StreamEnded PROVE NetworkInv'
  <2> DEFINE s == downloader.state
             again == [downloader EXCEPT !.state = Requesting(s.info, s.last)]
  <2>1. /\ engine' = engine /\ polled' = polled /\ made' = made
        /\ downloader' = PollEnd(downloader) /\ s.phase = "Downloading"
    BY Zenon, <1>2 DEF StreamEnded, Only
  <2>2. StateOK(Requesting(s.info, s.last))
    BY <2>1, InvFacts DEF StateOK, Idle, Requesting
  <2>3. Follows(again)
    <3>1. Fields(again) /\ again.state = Requesting(s.info, s.last) /\ again.queue = downloader.queue
      BY Zenon, InvFacts, StateEffect
    <3> QED
      BY Zenon, <2>2, <3>1 DEF Follows
  <2>4. Follows(RemoveOrphan([downloader EXCEPT !.state = Idle], s.info.orphan))
    BY Zenon, <1>0, CancelFollows
  <2>5. Follows(PollEnd(downloader))
    BY Zenon, <2>3, <2>4 DEF PollEnd
  <2> QED
    BY Zenon, <2>1, <2>5, FollowStep
<1> QED
  BY Zenon, <1>1, <1>2

\* The invariant holds initially and is kept by every branch of the loop.
LEMMA NetworkInvHolds ==
  /\ NetworkInit => NetworkInv
  /\ NetworkInv /\ [NetworkNext]_nvars => NetworkInv'
<1>1. ASSUME NetworkInit PROVE NetworkInv
  <2>1. Genesis \in Blocks /\ "Online" \in States
    BY DEF Genesis, Blocks, States
  <2>2. EngineOK(engine) /\ engine.branches = {Genesis}
    BY Zenon, <1>1, <2>1, FromLibOK DEF NetworkInit, FromLib
  <2>3. Fields(downloader) /\ downloader.queue = {} /\ StateOK(downloader.state)
    BY Zenon, <1>1 DEF NetworkInit, NewDownloader, Fields, StateOK
  <2>4. IsFiniteSet(downloader.queue)
    BY Zenon, <2>3, FS_EmptySet
  <2> QED
    BY ZenonT(30), <1>1, <2>2, <2>3, <2>4 DEF NetworkInit, NetworkInv, QueuedNotApplied
<1>2. ASSUME NetworkInv, [NetworkNext]_nvars PROVE NetworkInv'
  <2>1. CASE UNCHANGED nvars
    <3>1. engine' = engine /\ made' = made /\ polled' = polled /\ downloader' = downloader
      BY Zenon, <2>1 DEF nvars
    <3>2. Follows(downloader)
      BY Zenon, <1>2, InvFacts DEF Follows
    <3> QED
      BY ZenonT(30), <1>2, <3>1, <3>2, FollowStep
  <2>2. CASE NetworkNext
    BY ZenonT(30), <1>2, <2>2, ProposalKeeps, PolledTipKeeps, LocalBlockKeeps, RequestKeeps, DownloadKeeps
       DEF NetworkNext, PollDownloader
  <2> QED
    BY Zenon, <1>2, <2>1, <2>2
<1> QED
  BY Zenon, <1>1, <1>2

\* An orphan leaves the queue when it is applied, whichever way it came: its own
\* proposal, the path to a descendant, or a second download.
THEOREM OrphansLeaveTheQueue == NetworkSpec => []QueuedNotApplied
<1>1. NetworkInv => QueuedNotApplied
  BY Zenon DEF NetworkInv
<1> QED
  BY <1>1, NetworkInvHolds, PTL DEF NetworkSpec

\* No download starts of a block that the cache condemns, itself or its parent,
\* although the orphan may have been enqueued before either was rejected.
THEOREM RejectedAreNotDownloaded == NetworkSpec => NoRejectedDownload
<1> DEFINE Clean == downloader.state = Idle /\ downloader'.state # Idle =>
             LET info == downloader'.state.info
             IN  ({info.orphan} \cup info.parent) \cap RejectedBlocks(downloader') = {}
<1>1. ASSUME NetworkInv, [NetworkNext]_nvars PROVE [Clean]_nvars
  <2> SUFFICES ASSUME downloader.state = Idle, downloader'.state # Idle, NetworkNext
               PROVE  Clean
    BY Zenon, <1>1
  <2>0. Fields(downloader) /\ downloader.state.phase = "Idle"
    BY <1>1, InvFacts DEF Idle
  <2>1. CASE StartDownload
    <3>1. PICK d \in PollIdle(downloader) : downloader' = d
      BY Zenon, <2>1 DEF StartDownload, Only
    <3>2. PICK o \in downloader.queue :
            /\ d.state = Requesting(o, {})
            /\ ({o.orphan} \cup o.parent) \cap RejectedBlocks(d) = {}
      BY ZenonT(30), <1>1, <3>1, InvFacts, PollIdleOK
    <3>3. downloader'.state.info = o
      BY <3>1, <3>2 DEF Requesting
    <3> QED
      BY ZenonT(30), <3>1, <3>2, <3>3
  <2>2. ~(Answered \/ DownloadedBlock \/ StreamEnded)
    BY Zenon, <2>0 DEF Answered, DownloadedBlock, StreamEnded
  <2>3. ASSUME NEW b, NEW info
        PROVE  /\ downloader' # downloader /\ downloader' # InsertRejected(downloader, b)
               /\ downloader' # EnqueueOrphan(downloader, info)
               /\ downloader' # RemoveOrphan(downloader, b)
    <3>1. /\ InsertRejected(downloader, b).state = Idle
          /\ EnqueueOrphan(downloader, info).state = Idle
          /\ RemoveOrphan(downloader, b).state = Idle
      BY ZenonT(30), <2>0, CacheOnly, EnqueueEffect, RemoveEffect
    <3> QED
      BY Zenon, <3>1
  <2>4. \A b : ~HandleIncomingProposal(b) /\ ~PollPeerTips(b) /\ ~ApplyLocalBlock(b)
    <3>1. ASSUME NEW b, HandleIncomingProposal(b) PROVE FALSE
      <4>1. \/ downloader' = InsertRejected(downloader, b)
            \/ \E info : downloader' = EnqueueOrphan(downloader, info)
            \/ downloader' = RemoveOrphan(downloader, b)
        BY Zenon, <3>1 DEF HandleIncomingProposal, Only, Applied
      <4> QED
        BY Zenon, <2>3, <4>1
    <3>2. ASSUME NEW b, PollPeerTips(b) \/ ApplyLocalBlock(b) PROVE FALSE
      <4>1. downloader' = downloader
        BY Zenon, <3>2 DEF PollPeerTips, ApplyLocalBlock, Applied
      <4> QED
        BY Zenon, <2>3, <4>1
    <3> QED
      BY Zenon, <3>1, <3>2
  <2>5. ~EnqueuePolledTip
    BY Zenon, <2>3 DEF EnqueuePolledTip, Only
  <2> QED
    BY ZenonT(30), <2>1, <2>2, <2>4, <2>5 DEF NetworkNext, PollDownloader
<1> QED
  BY <1>1, NetworkInvHolds, PTL DEF NetworkSpec, NoRejectedDownload

-----------------------------------------------------------------------------
(* Uncles. *)

\* The inductive invariant: besides the engine's own, the chain of every block
\* of the tree, down to genesis and not only to the LIB, follows the rules.
UncleInv == IInv /\ \A b \in engine.branches : ChainIsProposed(b)

\* Where the window of a slot starts.
LEMMA WindowStartType ==
  ASSUME NEW h \in Headers
  PROVE  WindowStart(h.slot) \in Nat
<1>1. h.slot \in Nat /\ UncleWindow[h.slot] \in Nat
  BY ZenonT(30), EngineAssumption, UncleAssumption
<1> QED
  BY <1>1 DEF WindowStart

\* The ancestor at a height, and the header that the chain has there.
LEMMA HeaderAt ==
  ASSUME NEW b \in Blocks, NEW n \in 1..Len(b)
  PROVE  /\ AtLength(b, n) \in Blocks /\ IsAncestor(AtLength(b, n), b)
         /\ Len(AtLength(b, n)) = n
         /\ SlotOf(AtLength(b, n)) = b[n].slot /\ b[n] \in Headers
         /\ UncleSlotsOf(AtLength(b, n)) = b[n].uncle_slots
<1>1. b \in Seq(Headers) /\ Len(b) \in Nat /\ n \in 0..Len(b)
  BY DEF Blocks
<1> DEFINE a == AtLength(b, n)
<1>2. /\ a \in Seq(Headers) /\ IsAncestor(a, b) /\ Len(a) = n
  BY Zenon, <1>1, AtLengthProperties
<1>3. a[n] = b[n]
  BY <1>2 DEF IsAncestor
<1>4. a # Genesis
  BY <1>2 DEF Genesis
<1> HIDE DEF a
<1>5. SlotOf(a) = b[n].slot /\ UncleSlotsOf(a) = b[n].uncle_slots
  BY ZenonT(30), <1>2, <1>3, <1>4 DEF SlotOf, UncleSlotsOf
<1> QED
  BY <1>1, <1>2, <1>5 DEF Blocks, a

\* The chain that select_uncles looks at is the part of the chain of the parent
\* that is in the tree and in the window.
LEMMA WindowChain ==
  ASSUME NEW e, EngineOK(e), NEW p \in e.branches, NEW start
  PROVE  ChainInWindow(e, p, start) =
           {a \in e.branches : IsAncestor(a, p) /\ SlotOf(a) >= start}
<1>1. e.branches \subseteq Blocks /\ Rooted(e.branches, e.lib)
  BY Zenon DEF EngineOK, EngineType, RootedAtLib
<1>2. Walk(e.branches, p) = {a \in e.branches : IsAncestor(a, p)}
  BY ZenonT(30), <1>1, WalkInRootedTree DEF Blocks
<1> QED
  BY Zenon, <1>2 DEF ChainInWindow

\* What a candidate is: a block of the tree in the window, not on the chain of
\* the parent, whose own parent is.
LEMMA CandidateFacts ==
  ASSUME NEW e, EngineOK(e), NEW p \in e.branches, NEW h \in Headers,
         NEW u \in UncleCandidates(e, p, h.slot)
  PROVE  /\ u \in e.branches /\ u # Genesis
         /\ ParentOf(u) \in e.branches /\ IsAncestor(ParentOf(u), p)
         /\ SlotOf(u) >= WindowStart(h.slot) /\ SlotOf(u) < h.slot
         /\ SlotOf(u) \notin OccupiedSlots(ChainInWindow(e, p, WindowStart(h.slot)),
                                           WindowStart(h.slot))
<1> DEFINE start == WindowStart(h.slot)
           chain == ChainInWindow(e, p, start)
<1>1. /\ u \in e.branches \ chain /\ ParentOf(u) \in chain
      /\ SlotOf(u) >= start /\ SlotOf(u) < h.slot
      /\ SlotOf(u) \notin OccupiedSlots(chain, start)
  BY Zenon DEF UncleCandidates
<1>2. ParentOf(u) \in e.branches /\ IsAncestor(ParentOf(u), p)
  BY <1>1, WindowChain
<1>3. u # Genesis
  <2>1. ParentOf(Genesis) = Genesis
    BY DEF ParentOf, AtLength, Genesis
  <2> QED
    BY ZenonT(30), <1>1, <2>1
<1> QED
  BY ZenonT(30), <1>1, <1>2, <1>3

\* A candidate has the slot of no block of the chain, and of no uncle of one:
\* inside the window because it was filtered, before the window because it is
\* later, and behind the LIB because it has the LIB on its own chain.
LEMMA CandidateIsNew ==
  ASSUME NEW e, EngineOK(e), \A b \in e.branches : ChainIsProposed(b),
         NEW p \in e.branches, NEW h \in Headers,
         NEW u \in UncleCandidates(e, p, h.slot), NEW n \in 1..Len(p)
  PROVE  SlotOf(u) # p[n].slot /\ SlotOf(u) \notin p[n].uncle_slots
<1> DEFINE start == WindowStart(h.slot)
           chain == ChainInWindow(e, p, start)
           a == AtLength(p, n)
<1>1. /\ u \in e.branches /\ u # Genesis /\ ParentOf(u) \in e.branches
      /\ IsAncestor(ParentOf(u), p)
      /\ SlotOf(u) >= start /\ SlotOf(u) \notin OccupiedSlots(chain, start)
  BY Zenon, CandidateFacts
<1>2. /\ e.branches \subseteq Blocks /\ e.lib \in e.branches
      /\ \A c \in e.branches : /\ IsAncestor(e.lib, c)
                               /\ \A i \in Len(e.lib)..Len(c) : AtLength(c, i) \in e.branches
  BY Zenon DEF EngineOK, EngineType, RootedAtLib, Rooted
<1>3. /\ p \in Blocks /\ u \in Blocks /\ e.lib \in Blocks /\ ParentOf(u) \in Blocks
      /\ Len(p) \in Nat /\ Len(u) \in Nat /\ Len(e.lib) \in Nat
  BY <1>1, <1>2 DEF Blocks
<1>4. start \in Nat /\ SlotOf(u) \in Nat
  BY ZenonT(30), <1>3, WindowStartType, SecurityParamAtBlock
<1>5. /\ IsAncestor(a, p) /\ SlotOf(a) = p[n].slot /\ UncleSlotsOf(a) = p[n].uncle_slots
      /\ SlotOf(a) \in Nat /\ p[n].slot \in Nat /\ p[n].uncle_slots \subseteq Nat
  <2>1. /\ a \in Blocks /\ IsAncestor(a, p) /\ SlotOf(a) = p[n].slot /\ p[n] \in Headers
        /\ UncleSlotsOf(a) = p[n].uncle_slots
    BY Zenon, <1>3, HeaderAt
  <2> QED
    BY Zenon, <2>1, EngineAssumption, UncleAssumption
<1>6. \A s \in p[n].uncle_slots : s < p[n].slot
  BY Zenon DEF ChainIsProposed
<1>7. CASE n < Len(e.lib)
  <2>1. /\ Len(ParentOf(u)) = Len(u) - 1 /\ Len(u) # 0 /\ IsAncestor(ParentOf(u), u)
    <3>1. u \in Seq(Headers) /\ Len(u) # 0
      BY <1>1, <1>3 DEF Genesis, Blocks
    <3> QED
      BY SMTT(20), <1>3, <3>1, AtLengthProperties DEF ParentOf
  <2>2. PICK q \in Blocks : q = ParentOf(u)
    BY Zenon, <1>3
  <2>3. IsAncestor(e.lib, q) /\ IsAncestor(e.lib, p) /\ IsAncestor(q, u)
    BY ZenonT(30), <1>1, <1>2, <2>1, <2>2
  <2>4. n \in 1..Len(e.lib) /\ n \in Nat /\ Len(q) \in Nat
    BY <1>3, <1>7 DEF Blocks
  <2>5. Len(e.lib) <= Len(q) /\ e.lib[n] = q[n] /\ e.lib[n] = p[n]
    BY ZenonT(30), <2>3, <2>4 DEF IsAncestor
  <2>6. n \in 1..Len(q)
    BY <1>3, <2>4, <2>5
  <2>7. q[n] = u[n]
    BY ZenonT(30), <2>3, <2>6 DEF IsAncestor
  <2>8. n \in 1..Len(u) /\ n < Len(u) /\ Len(u) \in 1..Len(u) /\ u[n] = p[n]
    <3>1. Len(q) = Len(u) - 1 /\ Len(u) # 0
      BY Zenon, <2>1, <2>2
    <3>2. n <= Len(q) /\ 1 <= n
      BY <2>4, <2>6
    <3>3. n \in 1..Len(u) /\ n < Len(u) /\ Len(u) \in 1..Len(u)
      BY SMTT(20), <1>3, <2>4, <3>1, <3>2
    <3> QED
      BY ZenonT(30), <2>5, <2>7, <3>3
  <2>9. u[n].slot < u[Len(u)].slot
    BY Zenon, <1>1, <2>8 DEF ChainIsProposed
  <2>10. p[n].slot < SlotOf(u)
    BY ZenonT(30), <1>1, <2>8, <2>9 DEF SlotOf
  <2> QED
    BY SMTT(20), <1>4, <1>5, <1>6, <2>10
<1>8. CASE ~(n < Len(e.lib)) /\ SlotOf(a) < start
  BY SMTT(20), <1>1, <1>4, <1>5, <1>6, <1>8
<1>9. CASE ~(n < Len(e.lib)) /\ ~(SlotOf(a) < start)
  <2>1. a \in e.branches
    BY SMTT(20), <1>2, <1>3, <1>9
  <2>2. a \in chain
    BY SMTT(20), <1>4, <1>5, <1>9, <2>1, WindowChain
  <2> HIDE DEF a, chain, start
  <2>3. /\ SlotOf(a) \in OccupiedSlots(chain, start)
        /\ \A s \in UncleSlotsOf(a) : s >= start => s \in OccupiedSlots(chain, start)
    BY Zenon, <2>2 DEF OccupiedSlots
  <2> QED
    BY ZenonT(30), <1>1, <1>5, <2>3
<1> QED
  BY ZenonT(30), <1>7, <1>8, <1>9

\* A selection is a set of candidates, and no larger than the rules allow.
LEMMA SelectionFacts ==
  ASSUME NEW e, NEW p, NEW h \in Headers, NEW U \in SelectUncles(e, p, h.slot)
  PROVE  U \subseteq UncleCandidates(e, p, h.slot) /\ Cardinality(U) <= MaxUncles[h.slot]
<1>1. MaxUncles[h.slot] \in Nat
  BY Zenon, UncleAssumption
<1>2. U \subseteq UncleCandidates(e, p, h.slot)
  BY Zenon DEF SelectUncles
<1>3. PICK size : Cardinality(U) = IF size <= MaxUncles[h.slot] THEN size ELSE MaxUncles[h.slot]
  BY Zenon DEF SelectUncles
<1> QED
  BY <1>1, <1>2, <1>3

\* What select_uncles selects, the rules of the chain service accept.
LEMMA SelectionIsValid ==
  ASSUME NEW e, NEW p, NEW h \in Headers, NEW U \in SelectUncles(e, p, h.slot)
  PROVE  UnclesValid(e, U, p, h.slot)
<1> DEFINE start == WindowStart(h.slot)
           chain == ChainInWindow(e, p, start)
<1>1. U \subseteq UncleCandidates(e, p, h.slot) /\ Cardinality(U) <= MaxUncles[h.slot]
  BY Zenon, SelectionFacts
<1>2. \A u \in U : /\ u \notin chain /\ ParentOf(u) \in chain
                   /\ SlotOf(u) < h.slot /\ SlotOf(u) >= EraStart[h.slot]
  BY Zenon, <1>1 DEF UncleCandidates
<1>3. UnclesAncestryValid(e, U, p, start)
  BY Zenon, <1>2 DEF UnclesAncestryValid
<1> QED
  BY ZenonT(30), <1>1, <1>2, <1>3 DEF UnclesValid

\* A block with selected uncles keeps the rules along its chain.
LEMMA ProposedChain ==
  ASSUME NEW e, EngineOK(e), \A b \in e.branches : ChainIsProposed(b),
         NEW p \in e.branches, NEW h \in Headers, SlotOf(p) < h.slot,
         h.uncle_slots \in UncleSlotChoices(e, p, h.slot)
  PROVE  ChainIsProposed(Append(p, h))
<1> DEFINE b == Append(p, h)
<1>1. p \in Seq(Headers) /\ p \in Blocks
  BY Zenon DEF EngineOK, EngineType, Blocks
<1>2. /\ Len(p) \in Nat /\ Len(b) = Len(p) + 1 /\ b[Len(b)] = h
      /\ \A n \in 1..Len(p) : b[n] = p[n] /\ p[n] \in Headers
      /\ \A n \in 1..Len(b) : n \in 1..Len(p) \/ n = Len(b)
  BY <1>1
<1>3. ASSUME NEW s \in h.uncle_slots
      PROVE  /\ s \in Nat /\ s < h.slot
             /\ \A n \in 1..Len(p) : s # p[n].slot /\ s \notin p[n].uncle_slots
  <2>1. PICK U \in SelectUncles(e, p, h.slot) : h.uncle_slots = {SlotOf(u) : u \in U}
    BY Zenon, <1>3 DEF UncleSlotChoices
  <2>2. PICK u \in UncleCandidates(e, p, h.slot) : s = SlotOf(u)
    BY ZenonT(30), <1>3, <2>1, SelectionFacts
  <2>3. SlotOf(u) < h.slot
    BY Zenon, <2>2, CandidateFacts
  <2>4. \A n \in 1..Len(p) : SlotOf(u) # p[n].slot /\ SlotOf(u) \notin p[n].uncle_slots
    BY ZenonT(30), <2>2, CandidateIsNew
  <2> QED
    BY ZenonT(30), <1>3, <2>2, <2>3, <2>4, UncleAssumption
<1>4. ASSUME NEW n \in 1..Len(p)
      PROVE  /\ p[n].slot < h.slot
             /\ \A s \in p[n].uncle_slots : s \in Nat /\ s < p[n].slot
             /\ p[n].slot \in Nat /\ h.slot \in Nat
  <2>1. p[n].slot \in Nat /\ h.slot \in Nat /\ p[n].uncle_slots \subseteq Nat
    BY ZenonT(30), <1>2, EngineAssumption, UncleAssumption
  <2>2. \A s \in p[n].uncle_slots : s < p[n].slot
    BY Zenon DEF ChainIsProposed
  <2>3. p[n].slot <= p[Len(p)].slot
    <3>1. CASE n = Len(p)
      BY <2>1, <3>1
    <3>2. CASE n # Len(p)
      <4>1. n < Len(p) /\ Len(p) \in 1..Len(p)
        BY <1>2, <3>2
      <4>2. p[n].slot < p[Len(p)].slot
        BY Zenon, <4>1 DEF ChainIsProposed
      <4>3. p[Len(p)].slot \in Nat
        BY Zenon, <1>2, <4>1, EngineAssumption
      <4> QED
        BY <2>1, <4>2, <4>3
    <3> QED
      BY Zenon, <3>1, <3>2
  <2>4. SlotOf(p) = p[Len(p)].slot /\ p[Len(p)].slot \in Nat
    <3>1. p # Genesis /\ Len(p) \in 1..Len(p)
      BY <1>2 DEF Genesis
    <3> QED
      BY Zenon, <1>2, <3>1, EngineAssumption DEF SlotOf
  <2> QED
    BY SMTT(20), <2>1, <2>2, <2>3, <2>4
<1> HIDE DEF b
<1>5. ASSUME NEW m \in 1..Len(b), NEW n \in 1..Len(b)
      PROVE  /\ b[m].slot \notin b[n].uncle_slots
             /\ m # n => b[m].uncle_slots \cap b[n].uncle_slots = {}
             /\ m < n => b[m].slot < b[n].slot
             /\ \A s \in b[n].uncle_slots : s < b[n].slot
  <2>1. CASE m \in 1..Len(p) /\ n \in 1..Len(p)
    <3>1. b[m] = p[m] /\ b[n] = p[n] /\ ChainIsProposed(p)
      BY Zenon, <1>2, <2>1
    <3> QED
      BY Zenon, <2>1, <3>1 DEF ChainIsProposed, ReferencedOnce
  <2>2. CASE m \in 1..Len(p) /\ n = Len(b)
    <3>1. b[m] = p[m] /\ b[n] = h
      BY Zenon, <1>2, <2>2
    <3> QED
      BY Zenon, <1>3, <1>4, <2>2, <3>1
  <2>3. CASE m = Len(b) /\ n \in 1..Len(p)
    <3>1. b[n] = p[n] /\ b[m] = h /\ ~(m < n)
      BY <1>2, <2>3
    <3> QED
      BY <1>3, <1>4, <2>3, <3>1
  <2>4. CASE m = Len(b) /\ n = Len(b)
    <3>1. b[n] = h /\ b[m] = h /\ ~(m < n) /\ h.slot \in Nat
      BY <1>2, <2>4, EngineAssumption
    <3> QED
      BY <1>3, <2>4, <3>1
  <2> QED
    BY Zenon, <1>2, <2>1, <2>2, <2>3, <2>4
<1> QED
  BY Zenon, <1>5 DEF ChainIsProposed, ReferencedOnce, b

\* The invariant holds when an engine is started.
LEMMA UncleInitInv == Init => UncleInv
<1> SUFFICES ASSUME Init PROVE UncleInv
  BY Zenon
<1>1. PICK lib \in RecoveredLibs, state \in States : engine = FromLib(lib, state)
  BY Zenon DEF Init
<1>2. engine.branches = {lib}
  BY Zenon, <1>1 DEF FromLib
<1> QED
  BY Zenon, <1>2, InitIInv, UncleAssumption DEF UncleInv

\* Every step keeps the invariant.
LEMMA UncleNextInv == UncleInv /\ [UncleNext]_vars => UncleInv'
<1> SUFFICES ASSUME UncleInv, [UncleNext]_vars PROVE UncleInv'
  BY Zenon
<1>0. IInv /\ EngineOK(engine) /\ \A b \in engine.branches : ChainIsProposed(b)
  BY Zenon DEF UncleInv, IInv
<1>1. ASSUME NEW p \in engine.branches, NEW h \in Headers, ReceiveProposed(p, h)
      PROVE  UncleInv'
  <2> DEFINE b == Append(p, h)
  <2>1. ReceiveBlock(p, h) /\ h.uncle_slots \in UncleSlotChoices(engine, p, h.slot)
    BY Zenon, <1>1 DEF ReceiveProposed
  <2>2. IInv'
    BY Zenon, <1>0, <2>1, NextIInv DEF Next
  <2>3. b \notin engine.branches /\ SlotOf(p) < SlotOf(b)
    BY Zenon, <2>1 DEF ReceiveBlock
  <2>4. PICK r \in ReceiveOutcomes(engine, b) : engine' = r.engine
    BY Zenon, <2>1 DEF ReceiveBlock
  <2>0. PICK a, c, tip : ReceivedVia(engine, b, r, a, c, tip)
    BY Zenon, <1>0, <2>3, ReceiveSteps
  <2>5. /\ a.branches = engine.branches \cup {b}
        /\ EngineOK(c) /\ c.branches = a.branches
        /\ r.engine = UpdateLib(c).engine
    BY Zenon, <2>0 DEF ReceivedVia
  <2>6. UpdateLib(c).engine.branches \subseteq c.branches
    BY Zenon, <2>5, UpdateLibEffect
  <2>7. SlotOf(b) = h.slot
    <3>1. p \in Seq(Headers)
      BY Zenon, <1>0 DEF EngineOK, EngineType, Blocks
    <3>2. b # Genesis /\ b[Len(b)] = h
      BY <3>1 DEF Genesis
    <3> QED
      BY Zenon, <3>2 DEF SlotOf
  <2>8. ChainIsProposed(b)
    BY Zenon, <1>0, <2>1, <2>3, <2>7, ProposedChain
  <2> HIDE DEF b
  <2>9. \A x \in engine'.branches : ChainIsProposed(x)
    BY Zenon, <1>0, <2>4, <2>5, <2>6, <2>8
  <2> QED
    BY Zenon, <2>2, <2>9 DEF UncleInv
<1>2. CASE Online
  <2>1. IInv'
    BY Zenon, <1>0, <1>2, NextIInv DEF Next
  <2> DEFINE c == [engine EXCEPT !.state = "Online"]
  <2>2. EngineOK(c) /\ c.branches = engine.branches
    BY Zenon, <1>0, OnlineReady
  <2>3. engine' = UpdateLib(c).engine
    BY Zenon, <1>2 DEF Online, GoOnline
  <2> HIDE DEF c
  <2>4. engine'.branches \subseteq engine.branches
    <3>1. UpdateLib(c).engine.branches \subseteq c.branches
      BY Zenon, <2>2, UpdateLibEffect
    <3> QED
      BY ZenonT(30), <2>2, <2>3, <3>1
  <2> QED
    BY Zenon, <1>0, <2>1, <2>4 DEF UncleInv
<1>3. CASE UNCHANGED vars
  <2>1. IInv'
    BY ZenonT(30), <1>0, <1>3, NextIInv
  <2> QED
    BY ZenonT(30), <1>0, <1>3, <2>1 DEF UncleInv, vars
<1> QED
  BY Zenon, <1>1, <1>2, <1>3 DEF UncleNext

\* Along every chain of the tree a slot counts once, as a block or as an uncle,
\* and every selection a leader can make passes verify_uncles, whatever was
\* pruned behind the LIB and wherever the window starts.
THEOREM UnclesStaySound == UncleSpec => []UnclesAreSound
<1>1. UncleInv => UnclesAreSound
  <2> SUFFICES ASSUME UncleInv PROVE UnclesAreSound
    BY Zenon
  <2>1. SlotsReferencedOnce
    BY Zenon DEF UncleInv, ChainIsProposed, SlotsReferencedOnce
  <2>2. SelectedUnclesAreValid
    BY Zenon, SelectionIsValid DEF SelectedUnclesAreValid
  <2> QED
    BY Zenon, <2>1, <2>2 DEF UnclesAreSound
<1> QED
  BY <1>1, UncleInitInv, UncleNextInv, PTL DEF UncleSpec
===============================================================================
