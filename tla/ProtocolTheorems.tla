-------------------------- MODULE ProtocolTheorems --------------------------
(***************************************************************************)
(* What the two sides of a protocol can rely on.  Nodes that exchange      *)
(* blocks: a download that ends without an error is complete, and the      *)
(* slots of a provider are bounded per protocol, for any number of requests *)
(* and any limits.  Nodes that dial each other in the Blend network: they  *)
(* end with one connection, the same one, however many they make.  The     *)
(* sequencers of a channel: the turns of its keys are never lost.          *)
(***************************************************************************)
EXTENDS ChainSync, BlendPair, Channels, SumTheorems

-----------------------------------------------------------------------------
(* A download of blocks. *)

\* Blocks n + 1, n + 2, ... in order.
Consecutive(s, n) == \A i \in 1 .. Len(s) : s[i] = n + i

\* A stream that has ended: consecutive blocks, the last item possibly an error,
\* and without one nothing is missing.
EndedAt(s, n) ==
    /\ \A i \in 1 .. Len(s) : s[i] = n + i \/ (i = Len(s) /\ s[i] = Failure)
    /\ (\A i \in 1 .. Len(s) : s[i] # Failure) => n + Len(s) = Batch

\* What is on the way: consecutive blocks, the last frame possibly final.
OnTheWay(s, n) ==
    \A i \in 1 .. Len(s) :
        \/ s[i] = n + i
        \/ i = Len(s) /\ s[i] = Failure
        \/ i = Len(s) /\ s[i] = NoMoreBlocks /\ n + i - 1 = Batch

\* The stages of a request, at its two ends.
StagesOK(r) ==
    /\ client[r] = "idle" => server[r] = "none" /\ caller[r] = "none"
    /\ client[r] = "sending" => server[r] = "none" /\ caller[r] = "waiting"
    /\ client[r] = "receiving" => caller[r] = "waiting"
    /\ caller[r] \in {"streaming", "complete", "broken"} => client[r] = "over" /\ kind[r] # "tip"
    /\ server[r] = "none" => wire[r] = <<>>
    /\ caller[r] \notin {"streaming", "complete", "broken"}
         => got[r] = <<>> /\ buffer[r] = <<>> /\ ~drained[r]

\* The blocks of a request, from the provider to the caller.
FlowOK(r) ==
    /\ Consecutive(got[r], 0)
    /\ Listening(r) /\ kind[r] # "tip" =>
         /\ Consecutive(buffer[r], Len(got[r]))
         /\ OnTheWay(wire[r], Len(got[r]) + Len(buffer[r]))
         /\ server[r] # "over" => Consecutive(wire[r], Len(got[r]) + Len(buffer[r]))
    /\ drained[r] /\ caller[r] = "streaming" => EndedAt(buffer[r], Len(got[r]))
    /\ caller[r] = "complete" => Len(got[r]) = Batch

DownloadInv == SyncTypeOK /\ \A r \in Requests : StagesOK(r) /\ FlowOK(r)

------------------------------------------------------------------------------
(* Sequences of consecutive blocks.                                        *)

Item == (1 .. Batch) \cup {Failure}

------------------------------------------------------------------------------
(* The steps of a request.                                                 *)

RequestOK(r) == StagesOK(r) /\ FlowOK(r)

\* What the invariant says of a request that a step does not touch.
Untouched(q) ==
    /\ client'[q] = client[q] /\ server'[q] = server[q] /\ caller'[q] = caller[q]
    /\ wire'[q] = wire[q] /\ buffer'[q] = buffer[q] /\ drained'[q] = drained[q]
    /\ got'[q] = got[q] /\ kind'[q] = kind[q]

\* The fields of a request.
LEMMA RequestTypes ==
    ASSUME SyncTypeOK, NEW r \in Requests
    PROVE  /\ wire[r] \in Seq(Frame) /\ buffer[r] \in Seq(Item) /\ buffer[r] \in Seq(Frame)
           /\ got[r] \in Seq(1 .. Batch) /\ Len(wire[r]) \in Nat /\ Len(buffer[r]) \in Nat
           /\ Len(got[r]) \in Nat /\ drained[r] \in BOOLEAN
           /\ Failure = -1 /\ NoMoreBlocks = 0 /\ TipFrame = -2
<1>1. Item \subseteq Frame
    BY Zenon DEF Item, Frame
<1>2. /\ wire[r] \in Seq(Frame) /\ buffer[r] \in Seq(Item) /\ got[r] \in Seq(1 .. Batch)
      /\ drained[r] \in BOOLEAN
    BY Zenon DEF SyncTypeOK, Item
<1>3. buffer[r] \in Seq(Frame)
    BY <1>1, <1>2
<1> QED  BY <1>2, <1>3 DEF Failure, NoMoreBlocks, TipFrame

------------------------------------------------------------------------------
(* Eras.                                                                   *)

LEMMA DownloadInvHolds ==
    /\ SyncInit => DownloadInv
    /\ DownloadInv /\ [SyncNext]_syncVars => DownloadInv'
    \* Sequences.
<1>Joined.
    ASSUME NEW S, NEW s \in Seq(S), NEW t \in Seq(S)
    PROVE  /\ s \o t \in Seq(S) /\ Len(s \o t) = Len(s) + Len(t)
           /\ Len(s) \in Nat /\ Len(t) \in Nat
           /\ \A i \in 1 .. Len(s) : (s \o t)[i] = s[i]
           /\ \A i \in 1 .. Len(t) : (s \o t)[Len(s) + i] = t[i]
    BY <1>Joined
<1>Part.
    ASSUME NEW S, NEW s, NEW m \in Int, NEW n \in Int, \A i \in m .. n : s[i] \in S
    PROVE  /\ SubSeq(s, m, n) \in Seq(S)
           /\ Len(SubSeq(s, m, n)) = IF m <= n THEN n - m + 1 ELSE 0
           /\ \A i \in 1 .. n - m + 1 : SubSeq(s, m, n)[i] = s[m + i - 1]
    BY <1>Part
    \* Runs of blocks compose.
<1>Runs.
    ASSUME NEW s \in Seq(Frame), NEW t \in Seq(Frame), NEW n \in Nat, Consecutive(s, n)
    PROVE  /\ Consecutive(t, n + Len(s)) => Consecutive(s \o t, n)
           /\ EndedAt(t, n + Len(s)) => EndedAt(s \o t, n)
           /\ OnTheWay(t, n + Len(s)) => OnTheWay(s \o t, n)
  <2> USE <1>Runs
  <2> DEFINE c == s \o t
  <2>1. /\ c \in Seq(Frame) /\ Len(c) = Len(s) + Len(t) /\ Len(s) \in Nat /\ Len(t) \in Nat
        /\ \A i \in 1 .. Len(s) : c[i] = s[i]
        /\ \A i \in 1 .. Len(t) : c[Len(s) + i] = t[i]
      OBVIOUS
  <2>2. \A i \in 1 .. Len(c) : i \in 1 .. Len(s) \/ \E j \in 1 .. Len(t) : i = Len(s) + j
      <3> SUFFICES ASSUME NEW i \in 1 .. Len(c), i \notin 1 .. Len(s)
                   PROVE  i - Len(s) \in 1 .. Len(t) /\ i = Len(s) + (i - Len(s))
          BY Zenon
      <3> QED  BY <2>1
  <2> HIDE DEF c
  <2>3. \A i \in 1 .. Len(s) : c[i] = n + i
      BY Zenon, <2>1 DEF Consecutive
  <2>4. ASSUME Consecutive(t, n + Len(s)) PROVE Consecutive(c, n)
      <3>1. \A j \in 1 .. Len(t) : c[Len(s) + j] = n + (Len(s) + j)
          BY <2>1, <2>4 DEF Consecutive
      <3>2. ASSUME NEW i \in 1 .. Len(c) PROVE c[i] = n + i
          <4>1. CASE i \in 1 .. Len(s)
              BY Zenon, <2>3, <4>1
          <4>2. CASE i \notin 1 .. Len(s)
              <5>1. PICK j \in 1 .. Len(t) : i = Len(s) + j
                  BY Zenon, <2>2, <4>2
              <5> QED  BY Zenon, <3>1, <5>1
          <4> QED  BY Zenon, <4>1, <4>2
      <3> QED  BY Zenon, <3>2 DEF Consecutive
  <2>5. ASSUME EndedAt(t, n + Len(s)) PROVE EndedAt(c, n)
      <3>1. ASSUME NEW j \in 1 .. Len(t)
            PROVE  \/ c[Len(s) + j] = n + (Len(s) + j)
                   \/ Len(s) + j = Len(c) /\ c[Len(s) + j] = Failure
          <4>1. t[j] = (n + Len(s)) + j \/ (j = Len(t) /\ t[j] = Failure)
              BY Zenon, <2>5 DEF EndedAt
          <4>2. /\ c[Len(s) + j] = t[j] /\ (j = Len(t) => Len(s) + j = Len(c))
                /\ (n + Len(s)) + j = n + (Len(s) + j)
              <5>1. c[Len(s) + j] = t[j] /\ (j = Len(t) => Len(s) + j = Len(c))
                  BY Zenon, <2>1
              <5>2. (n + Len(s)) + j = n + (Len(s) + j)
                  BY <2>1
              <5> QED  BY Zenon, <5>1, <5>2
          <4> QED  BY Zenon, <4>1, <4>2
      <3>2. ASSUME \A i \in 1 .. Len(c) : c[i] # Failure PROVE n + Len(c) = Batch
          <4>1. ASSUME NEW j \in 1 .. Len(t) PROVE t[j] # Failure
              <5>1. Len(s) + j \in 1 .. Len(c)  BY <2>1
              <5> QED  BY Zenon, <2>1, <3>2, <5>1
          <4>2. (n + Len(s)) + Len(t) = Batch
              BY Zenon, <2>5, <4>1 DEF EndedAt
          <4> QED  BY <2>1, <4>2
      <3>3. ASSUME NEW i \in 1 .. Len(c)
            PROVE  c[i] = n + i \/ (i = Len(c) /\ c[i] = Failure)
          <4>1. CASE i \in 1 .. Len(s)
              BY Zenon, <2>3, <4>1
          <4>2. CASE i \notin 1 .. Len(s)
              <5>1. PICK j \in 1 .. Len(t) : i = Len(s) + j
                  BY Zenon, <2>2, <4>2
              <5> QED  BY Zenon, <3>1, <5>1
          <4> QED  BY Zenon, <4>1, <4>2
      <3> QED  BY Zenon, <3>2, <3>3 DEF EndedAt
  <2>6. ASSUME OnTheWay(t, n + Len(s)) PROVE OnTheWay(c, n)
      <3>1. ASSUME NEW j \in 1 .. Len(t)
            PROVE  \/ c[Len(s) + j] = n + (Len(s) + j)
                   \/ Len(s) + j = Len(c) /\ c[Len(s) + j] = Failure
                   \/ /\ Len(s) + j = Len(c) /\ c[Len(s) + j] = NoMoreBlocks
                      /\ n + (Len(s) + j) - 1 = Batch
          <4>1. \/ t[j] = (n + Len(s)) + j
                \/ j = Len(t) /\ t[j] = Failure
                \/ j = Len(t) /\ t[j] = NoMoreBlocks /\ (n + Len(s)) + j - 1 = Batch
              BY Zenon, <2>6 DEF OnTheWay
          <4>2. /\ c[Len(s) + j] = t[j] /\ (j = Len(t) => Len(s) + j = Len(c))
                /\ (n + Len(s)) + j = n + (Len(s) + j)
              <5>1. c[Len(s) + j] = t[j] /\ (j = Len(t) => Len(s) + j = Len(c))
                  BY Zenon, <2>1
              <5>2. (n + Len(s)) + j = n + (Len(s) + j)
                  BY <2>1
              <5> QED  BY Zenon, <5>1, <5>2
          <4> QED  BY <4>1, <4>2
      <3> SUFFICES ASSUME NEW i \in 1 .. Len(c)
                   PROVE  \/ c[i] = n + i
                          \/ i = Len(c) /\ c[i] = Failure
                          \/ i = Len(c) /\ c[i] = NoMoreBlocks /\ n + i - 1 = Batch
          BY Zenon DEF OnTheWay
      <3>2. CASE i \in 1 .. Len(s)
          BY Zenon, <2>3, <3>2
      <3>3. CASE i \notin 1 .. Len(s)
          <4>1. PICK j \in 1 .. Len(t) : i = Len(s) + j
              BY Zenon, <2>2, <3>3
          <4> QED  BY Zenon, <3>1, <4>1
      <3> QED  BY Zenon, <3>2, <3>3
  <2> QED  BY Zenon, <2>4, <2>5, <2>6 DEF c
    \* Taking the oldest item.
<1>Oldest.
    ASSUME NEW s \in Seq(Item), NEW n \in Nat, s # <<>>
    PROVE  /\ Consecutive(s, n) => Head(s) = n + 1 /\ Consecutive(Tail(s), n + 1)
           /\ EndedAt(s, n) => \/ Head(s) = Failure
                               \/ Head(s) = n + 1 /\ EndedAt(Tail(s), n + 1)
  <2> USE <1>Oldest
  <2> DEFINE t == Tail(s)
  <2>1. /\ Len(s) \in Nat /\ Len(s) >= 1 /\ Head(s) = s[1]
        /\ Len(t) = Len(s) - 1 /\ \A i \in 1 .. Len(t) : t[i] = s[i + 1]
      OBVIOUS
  <2> HIDE DEF t
  <2>2. ASSUME Consecutive(s, n) PROVE Head(s) = n + 1 /\ Consecutive(t, n + 1)
      <3>1. \A i \in 1 .. Len(t) : i + 1 \in 1 .. Len(s)
          BY <2>1
      <3> QED  BY <2>1, <2>2, <3>1 DEF Consecutive
  <2>3. ASSUME EndedAt(s, n), Head(s) # Failure PROVE Head(s) = n + 1 /\ EndedAt(t, n + 1)
      <3>1. Head(s) = n + 1
          BY <2>1, <2>3 DEF EndedAt
      <3>2. ASSUME NEW i \in 1 .. Len(t)
            PROVE  t[i] = (n + 1) + i \/ (i = Len(t) /\ t[i] = Failure)
          <4>1. i + 1 \in 1 .. Len(s)  BY <2>1
          <4>2. s[i + 1] = n + (i + 1) \/ (i + 1 = Len(s) /\ s[i + 1] = Failure)
              BY Zenon, <2>3, <4>1 DEF EndedAt
          <4> QED  BY <2>1, <4>2
      <3>3. ASSUME \A i \in 1 .. Len(t) : t[i] # Failure PROVE (n + 1) + Len(t) = Batch
          <4>1. ASSUME NEW i \in 1 .. Len(s) PROVE s[i] # Failure
              <5>1. CASE i = 1  BY Zenon, <2>1, <2>3, <5>1
              <5>2. CASE i # 1
                  <6>1. i - 1 \in 1 .. Len(t) /\ (i - 1) + 1 = i  BY <2>1, <5>2
                  <6> QED  BY Zenon, <2>1, <3>3, <6>1
              <5> QED  BY Zenon, <5>1, <5>2
          <4>2. n + Len(s) = Batch
              BY Zenon, <2>3, <4>1 DEF EndedAt
          <4> QED  BY <2>1, <4>2
      <3> QED  BY Zenon, <3>1, <3>2, <3>3 DEF EndedAt
  <2> QED  BY Zenon, <2>2, <2>3 DEF t
    \* The first k frames of what is on the way, read up to a final frame: the blocks
    \* among them come next, and after a final frame nothing does.
<1>ReadFrames.
    ASSUME NEW w \in Seq(Frame), NEW n \in Nat, OnTheWay(w, n), NEW k \in 0 .. Len(w),
           \A i \in 1 .. k - 1 : w[i] \notin Final
    PROVE  /\ OnTheWay(SubSeq(w, 1, k), n)
           /\ Items(SubSeq(w, 1, k)) \in Seq(Frame)
           /\ ~Ends(SubSeq(w, 1, k)) =>
                /\ Items(SubSeq(w, 1, k)) = SubSeq(w, 1, k)
                /\ Len(SubSeq(w, 1, k)) = k
                /\ Consecutive(SubSeq(w, 1, k), n)
                /\ OnTheWay(SubSeq(w, k + 1, Len(w)), n + k)
                /\ Consecutive(w, n) => Consecutive(SubSeq(w, k + 1, Len(w)), n + k)
           /\ Ends(SubSeq(w, 1, k)) => EndedAt(Items(SubSeq(w, 1, k)), n)
  <2> USE <1>ReadFrames
  <2> DEFINE f == SubSeq(w, 1, k)
             g == SubSeq(w, k + 1, Len(w))
  <2>1. /\ Len(w) \in Nat /\ k \in Nat /\ k <= Len(w)
        /\ f \in Seq(Frame) /\ Len(f) = k /\ DOMAIN f = 1 .. k
        /\ \A i \in 1 .. k : f[i] = w[i]
      OBVIOUS
  <2>2. /\ g \in Seq(Frame) /\ Len(g) = Len(w) - k
        /\ \A i \in 1 .. Len(g) : g[i] = w[k + i]
      <3> DEFINE m == k + 1
                 l == Len(w)
      <3>1. m \in Int /\ l \in Int /\ \A i \in m .. l : w[i] \in Frame
          BY <2>1
      <3>2. /\ g \in Seq(Frame) /\ Len(g) = (IF m <= l THEN l - m + 1 ELSE 0)
            /\ \A i \in 1 .. l - m + 1 : g[i] = w[m + i - 1]
          <4> HIDE DEF m, l
          <4>1. /\ SubSeq(w, m, l) \in Seq(Frame)
                /\ Len(SubSeq(w, m, l)) = (IF m <= l THEN l - m + 1 ELSE 0)
                /\ \A i \in 1 .. l - m + 1 : SubSeq(w, m, l)[i] = w[m + i - 1]
              BY <3>1, <1>Part
          <4> QED  BY Zenon, <4>1 DEF m, l
      <3>3. l - m + 1 = l - k /\ (m <= l \/ l - k = 0) /\ \A i \in Int : m + i - 1 = k + i
          BY <2>1
      <3>4. Len(g) = l - k /\ \A i \in 1 .. l - k : g[i] = w[k + i]
          <4> HIDE DEF m, l, g
          <4> QED  BY SMTT(30), <3>2, <3>3
      <3> QED  BY Zenon, <3>2, <3>4
  <2>3. \A i \in 1 .. Len(w) :
          \/ w[i] = n + i
          \/ i = Len(w) /\ w[i] = Failure
          \/ i = Len(w) /\ w[i] = NoMoreBlocks /\ n + i - 1 = Batch
      BY Zenon DEF OnTheWay
  <2> HIDE DEF f, g
  <2>4. OnTheWay(f, n)
      <3> SUFFICES ASSUME NEW i \in 1 .. k
                   PROVE  \/ f[i] = n + i
                          \/ i = k /\ f[i] = Failure
                          \/ i = k /\ f[i] = NoMoreBlocks /\ n + i - 1 = Batch
          BY Zenon, <2>1 DEF OnTheWay
      <3>1. i \in 1 .. Len(w) /\ f[i] = w[i] /\ (i = Len(w) => i = k)  BY <2>1
      <3> QED  BY Zenon, <2>3, <3>1
  <2>5. Items(f) \in Seq(Frame)
      <3>1. k - 1 \in 0 .. k \/ k = 0  BY <2>1
      <3> QED  BY <2>1, <3>1 DEF Items
  <2>6. ASSUME ~Ends(f)
        PROVE  /\ Items(f) = f /\ Consecutive(f, n) /\ OnTheWay(g, n + k)
               /\ Consecutive(w, n) => Consecutive(g, n + k)
      <3>1. Items(f) = f
          BY Zenon, <2>6 DEF Items, Ends, Final
      <3>2. Consecutive(f, n)
          BY Zenon, <2>1, <2>4, <2>6 DEF Ends, Final, OnTheWay, Consecutive
      <3>3. \A i \in 1 .. Len(g) : k + i \in 1 .. Len(w) /\ (k + i = Len(w) => i = Len(g))
          BY <2>1, <2>2
      <3>4. OnTheWay(g, n + k)
          <4> SUFFICES ASSUME NEW i \in 1 .. Len(g)
                       PROVE  \/ g[i] = (n + k) + i
                              \/ i = Len(g) /\ g[i] = Failure
                              \/ i = Len(g) /\ g[i] = NoMoreBlocks /\ (n + k) + i - 1 = Batch
              BY Zenon DEF OnTheWay
          <4>1. \/ w[k + i] = n + (k + i)
                \/ k + i = Len(w) /\ w[k + i] = Failure
                \/ k + i = Len(w) /\ w[k + i] = NoMoreBlocks /\ n + (k + i) - 1 = Batch
              BY Zenon, <2>3, <3>3
          <4> QED  BY <2>1, <2>2, <3>3, <4>1
      <3>5. Consecutive(w, n) => Consecutive(g, n + k)
          BY <2>1, <2>2, <3>3 DEF Consecutive
      <3> QED  BY Zenon, <3>1, <3>2, <3>4, <3>5
  <2>7. ASSUME Ends(f) PROVE EndedAt(Items(f), n)
      <3>1. PICK i \in 1 .. k : f[i] \in Final
          BY Zenon, <2>1, <2>7 DEF Ends
      <3>2. i = k /\ \A j \in 1 .. k - 1 : f[j] = n + j
          <4>1. i = k
              BY <2>1, <3>1
          <4>2. ASSUME NEW j \in 1 .. k - 1 PROVE f[j] = n + j
              <5>1. j \in 1 .. k /\ j # k  BY <2>1
              <5> QED  BY Zenon, <2>1, <2>4, <5>1 DEF OnTheWay
          <4> QED  BY Zenon, <4>1, <4>2
      <3>3. CASE f[k] = NoMoreBlocks
          <4>1. Items(f) = SubSeq(f, 1, k - 1)
              BY Zenon, <2>1, <3>2, <3>3 DEF Items
          <4>2. n + (k - 1) = Batch
              BY <2>1, <2>4, <3>1, <3>2, <3>3 DEF OnTheWay, NoMoreBlocks, Failure
          <4>3. /\ Len(SubSeq(f, 1, k - 1)) = k - 1
                /\ \A j \in 1 .. k - 1 : SubSeq(f, 1, k - 1)[j] = n + j
              BY <2>1, <3>1, <3>2
          <4> QED  BY Zenon, <4>1, <4>2, <4>3 DEF EndedAt
      <3>4. CASE f[k] = Failure
          <4>1. \A j \in DOMAIN f : f[j] # NoMoreBlocks
              BY <2>1, <3>2, <3>4 DEF NoMoreBlocks, Failure
          <4>2. Items(f) = f
              BY Zenon, <4>1 DEF Items
          <4> QED  BY <2>1, <3>1, <3>2, <3>4, <4>2 DEF EndedAt
      <3> QED  BY Zenon, <3>1, <3>2, <3>3, <3>4 DEF Final
  <2> QED  BY Zenon, <2>1, <2>4, <2>5, <2>6, <2>7 DEF f, g
    \* A stream that is cut short.
<1>Cut.
    ASSUME NEW w \in Seq(Frame), NEW n \in Nat, NEW k \in 0 .. Len(w)
    PROVE  /\ SubSeq(w, 1, k) \in Seq(Frame)
           /\ OnTheWay(w, n) => OnTheWay(SubSeq(w, 1, k), n)
  <2> USE <1>Cut
  <2>1. /\ Len(w) \in Nat /\ k \in Nat /\ k <= Len(w)
        /\ SubSeq(w, 1, k) \in Seq(Frame) /\ Len(SubSeq(w, 1, k)) = k
        /\ \A i \in 1 .. k : SubSeq(w, 1, k)[i] = w[i]
      OBVIOUS
  <2>2. ASSUME OnTheWay(w, n), NEW i \in 1 .. k
        PROVE  \/ SubSeq(w, 1, k)[i] = n + i
               \/ i = k /\ SubSeq(w, 1, k)[i] = Failure
               \/ i = k /\ SubSeq(w, 1, k)[i] = NoMoreBlocks /\ n + i - 1 = Batch
      <3>1. i \in 1 .. Len(w) /\ SubSeq(w, 1, k)[i] = w[i] /\ (i = Len(w) => i = k)
          BY <2>1
      <3> QED  BY Zenon, <2>2, <3>1 DEF OnTheWay
  <2> QED  BY Zenon, <2>1, <2>2 DEF OnTheWay
<1>NatSums. \A a \in Nat, b \in Nat : a + b \in Nat
    OBVIOUS
    \* Streams of no frame and of one.
<1>ShortRuns.
    ASSUME NEW n \in Nat
    PROVE  /\ Consecutive(<<>>, n) /\ OnTheWay(<<>>, n)
           /\ Consecutive(<<n + 1>>, n) /\ EndedAt(<<Failure>>, n) /\ OnTheWay(<<Failure>>, n)
           /\ n = Batch => OnTheWay(<<NoMoreBlocks>>, n)
  <2> USE <1>ShortRuns
  <2>1. Consecutive(<<>>, n) /\ OnTheWay(<<>>, n)
      BY DEF Consecutive, OnTheWay
  <2>2. Consecutive(<<n + 1>>, n)
      BY DEF Consecutive
  <2>3. EndedAt(<<Failure>>, n) /\ OnTheWay(<<Failure>>, n)
      <3>1. Len(<<Failure>>) = 1 /\ <<Failure>>[1] = Failure  BY Zenon
      <3> QED  BY <3>1 DEF EndedAt, OnTheWay
  <2>4. n = Batch => OnTheWay(<<NoMoreBlocks>>, n)
      <3>1. /\ Len(<<NoMoreBlocks>>) = 1 /\ <<NoMoreBlocks>>[1] = NoMoreBlocks
            /\ n + 1 - 1 = n
          OBVIOUS
      <3> QED  BY <3>1 DEF OnTheWay
  <2> QED  BY Zenon, <2>1, <2>2, <2>3, <2>4
    \* A run of blocks is on the way, and so is its rest.
<1>RunIsOnTheWay. ASSUME NEW s, NEW n, Consecutive(s, n) PROVE OnTheWay(s, n)
    BY Zenon, <1>RunIsOnTheWay DEF Consecutive, OnTheWay
<1>SameKeeps. ASSUME NEW q, Untouched(q), RequestOK(q) PROVE RequestOK(q)'
  <2> USE <1>SameKeeps
  <2>1. Listening(q)' = Listening(q)
      BY Zenon DEF Untouched, Listening
  <2>2. StagesOK(q)'
      BY Zenon DEF Untouched, RequestOK, StagesOK
  <2>3. FlowOK(q)'
      BY Zenon, <2>1 DEF Untouched, RequestOK, FlowOK
  <2> QED  BY Zenon, <2>2, <2>3 DEF RequestOK
<1>OneRequest.
    ASSUME DownloadInv, NEW r \in Requests, SyncTypeOK', RequestOK(r)',
           \A q \in Requests \ {r} : Untouched(q)
    PROVE  DownloadInv'
    BY Zenon, <1>OneRequest, <1>SameKeeps DEF DownloadInv, RequestOK
    \* Steps that move a request to its next stage and leave its stream alone.
<1>StagesKeep.
    ASSUME DownloadInv, NEW r \in Requests,
           \/ \E k \in {"tip", "blocks", "oversized"} : Request(r, k)
           \/ RequestSent(r) \/ RequestNotSent(r) \/ HandOverStream(r)
           \/ HandleIncomingStream(r) \/ OnRequestReceived(r) \/ CloseRejected(r)
    PROVE  DownloadInv'
  <2> USE <1>StagesKeep
  <2>0. SyncTypeOK /\ StagesOK(r) /\ FlowOK(r)
      BY Zenon DEF DownloadInv
  <2>1. wire' = wire /\ buffer' = buffer /\ drained' = drained /\ got' = got
      BY Zenon DEF Request, RequestSent, RequestNotSent, HandOverStream, HandleIncomingStream,
             OnRequestReceived, CloseRejected, streamVars
  <2>2. /\ Consecutive(<<>>, Len(<<>>) + Len(<<>>)) /\ OnTheWay(<<>>, Len(<<>>) + Len(<<>>))
        /\ Consecutive(<<>>, Len(<<>>))
      <3>1. Len(<<>>) \in Nat /\ Len(<<>>) + Len(<<>>) \in Nat
          OBVIOUS
      <3> QED  BY Zenon, <3>1, <1>ShortRuns
  <2>3. ASSUME NEW k \in {"tip", "blocks", "oversized"}, Request(r, k) PROVE DownloadInv'
      <3>1. /\ kind' = [kind EXCEPT ![r] = k] /\ client' = [client EXCEPT ![r] = "sending"]
            /\ caller' = [caller EXCEPT ![r] = "waiting"] /\ server' = server
            /\ protocol' = [protocol EXCEPT ![r] = clientEra.current]
            /\ clientEra' = clientEra /\ serverEra' = serverEra /\ closed' = closed
            /\ client[r] = "idle"
          BY Zenon, <2>3 DEF Request, streamVars
      <3>2. SyncTypeOK'
          BY <2>0, <2>1, <3>1 DEF SyncTypeOK
      <3>3. /\ client'[r] = "sending" /\ caller'[r] = "waiting" /\ kind'[r] = k
            /\ \A q \in Requests \ {r} : Untouched(q)
          BY Zenon, <2>0, <2>1, <3>1 DEF SyncTypeOK, Untouched
      <3>4. /\ server[r] = "none" /\ wire[r] = <<>> /\ got[r] = <<>> /\ buffer[r] = <<>>
            /\ ~drained[r]
          BY Zenon, <2>0, <3>1 DEF StagesOK
      <3>5. StagesOK(r)'
          BY Zenon, <2>1, <3>1, <3>3, <3>4 DEF StagesOK
      <3>6. FlowOK(r)'
          BY Zenon, <2>0, <2>1, <2>2, <3>1, <3>3, <3>4 DEF FlowOK, Listening
      <3> QED  BY Zenon, <3>2, <3>3, <3>5, <3>6, <1>OneRequest DEF RequestOK
  <2>4. ASSUME RequestSent(r) \/ RequestNotSent(r) \/ HandOverStream(r) PROVE DownloadInv'
      <3>1. /\ kind' = kind /\ protocol' = protocol /\ clientEra' = clientEra
            /\ serverEra' = serverEra /\ closed' = closed
            /\ \/ /\ client[r] = "sending" /\ client' = [client EXCEPT ![r] = "receiving"]
                  /\ server' = [server EXCEPT ![r] = "arriving"] /\ caller' = caller
               \/ /\ client[r] = "sending" /\ client' = [client EXCEPT ![r] = "over"]
                  /\ caller' = [caller EXCEPT ![r] = "dropped"] /\ server' = server
               \/ /\ client[r] = "receiving" /\ client' = [client EXCEPT ![r] = "over"]
                  /\ caller' = [caller EXCEPT ![r] = "streaming"] /\ server' = server
                  /\ kind[r] # "tip"
          BY Zenon, <2>4 DEF RequestSent, RequestNotSent, HandOverStream, streamVars, fixed
      <3>2. SyncTypeOK'
          BY Zenon, <2>0, <2>1, <3>1 DEF SyncTypeOK, Settled
      <3>3. \A q \in Requests \ {r} : Untouched(q)
          BY ZenonT(30), <2>0, <2>1, <3>1 DEF SyncTypeOK, Untouched
      <3>4. \/ /\ client[r] = "sending" /\ client'[r] = "receiving"
               /\ server'[r] = "arriving" /\ caller'[r] = caller[r]
            \/ /\ client[r] = "sending" /\ client'[r] = "over"
               /\ caller'[r] = "dropped" /\ server'[r] = server[r]
            \/ /\ client[r] = "receiving" /\ client'[r] = "over"
               /\ caller'[r] = "streaming" /\ server'[r] = server[r] /\ kind[r] # "tip"
          BY Zenon, <2>0, <3>1 DEF SyncTypeOK
      <3>5. StagesOK(r)'
          BY Zenon, <2>0, <2>1, <3>1, <3>4 DEF StagesOK
      <3>6. FlowOK(r)'
          BY Zenon, <2>0, <2>1, <3>1, <3>4 DEF FlowOK, Listening, StagesOK
      <3> QED  BY Zenon, <3>2, <3>3, <3>5, <3>6, <1>OneRequest DEF RequestOK
  <2>5. ASSUME HandleIncomingStream(r) \/ OnRequestReceived(r) \/ CloseRejected(r)
        PROVE  DownloadInv'
      <3>1. /\ kind' = kind /\ protocol' = protocol /\ clientEra' = clientEra
            /\ serverEra' = serverEra /\ client' = client /\ caller' = caller
            /\ closed' = closed \/ closed' = [closed EXCEPT ![r] = TRUE]
          BY Zenon, <2>5 DEF HandleIncomingStream, OnRequestReceived, CloseRejected, streamVars, fixed
      <3>2. PICK stage \in {"reading", "serving", "closing", "over"} :
              server' = [server EXCEPT ![r] = stage]
          BY Zenon, <2>5 DEF HandleIncomingStream, OnRequestReceived, CloseRejected
      <3>3. server[r] \notin {"none", "over"}
          BY Zenon, <2>5 DEF HandleIncomingStream, OnRequestReceived, CloseRejected
      <3>4. SyncTypeOK'
          BY Zenon, <2>0, <2>1, <3>1, <3>2 DEF SyncTypeOK
      <3>5. server'[r] = stage /\ \A q \in Requests \ {r} : Untouched(q)
          BY Zenon, <2>0, <2>1, <3>1, <3>2 DEF SyncTypeOK, Untouched
      <3>6. StagesOK(r)'
          BY Zenon, <2>0, <2>1, <3>1, <3>3, <3>5 DEF StagesOK
      <3>7. FlowOK(r)'
          BY Zenon, <2>0, <2>1, <3>1, <3>3, <3>5 DEF FlowOK, Listening
      <3> QED  BY Zenon, <3>4, <3>5, <3>6, <3>7, <1>OneRequest DEF RequestOK
  <2> QED  BY Zenon, <2>3, <2>4, <2>5
    \* What the provider writes.
<1>WrittenTypes.
    ASSUME SyncTypeOK, NEW r \in Requests
    PROVE  /\ {<<>>, <<NoMoreBlocks>>, <<TipFrame>>, <<Failure>>} \subseteq Seq(Frame)
           /\ \A frames \in Seq(Frame) : Written(r, frames) \in Seq(Frame)
  <2> USE <1>WrittenTypes
  <2>1. {NoMoreBlocks, TipFrame, Failure} \subseteq Frame
      BY Zenon DEF Frame
  <2>2. {<<>>, <<NoMoreBlocks>>, <<TipFrame>>, <<Failure>>} \subseteq Seq(Frame)
      BY <2>1
  <2>3. wire[r] \in Seq(Frame)
      BY Zenon, RequestTypes
  <2>4. ASSUME NEW frames \in Seq(Frame) PROVE Written(r, frames) \in Seq(Frame)
      <3>1. wire[r] \o frames \in Seq(Frame) /\ <<>> \in Seq(Frame)
          BY <2>3
      <3> QED  BY Zenon, <3>1 DEF Written
  <2> QED  BY Zenon, <2>2, <2>4
    \* The answer to a request for the tip, at both ends.
<1>TipKeeps.
    ASSUME DownloadInv, NEW r \in Requests, ReceiveTip(r) \/ ProvideTip(r)
    PROVE  DownloadInv'
  <2> USE <1>TipKeeps
  <2>0. SyncTypeOK /\ StagesOK(r) /\ FlowOK(r)
      BY Zenon DEF DownloadInv
  <2>1. PICK frames \in Seq(Frame) : wire' = [wire EXCEPT ![r] = frames]
      <3>1. <<>> \in Seq(Frame)  OBVIOUS
      <3>2. ASSUME NEW frames \in {<<>>, <<TipFrame>>, <<Failure>>}
            PROVE  Written(r, frames) \in Seq(Frame)
          BY Zenon, <2>0, <1>WrittenTypes
      <3> QED  BY Zenon, <3>1, <3>2 DEF ReceiveTip, ProvideTip
  <2>2. /\ kind' = kind /\ protocol' = protocol /\ clientEra' = clientEra
        /\ serverEra' = serverEra /\ buffer' = buffer /\ drained' = drained /\ got' = got
        /\ closed' = closed \/ closed' = [closed EXCEPT ![r] = TRUE]
        /\ kind[r] = "tip"
      BY Zenon DEF ReceiveTip, ProvideTip, fixed
  <2>3. \/ /\ client[r] = "receiving" /\ client' = [client EXCEPT ![r] = "over"] /\ server' = server
           /\ \E c \in {"answered", "failed", "dropped"} : caller' = [caller EXCEPT ![r] = c]
           /\ wire' = [wire EXCEPT ![r] = <<>>]
        \/ /\ server[r] = "serving" /\ server' = [server EXCEPT ![r] = "over"]
           /\ client' = client /\ caller' = caller
      BY Zenon DEF ReceiveTip, ProvideTip
  <2>4. SyncTypeOK'
      <3>1. /\ client' \in [Requests -> {"idle", "sending", "receiving", "over"}]
            /\ server' \in [Requests -> {"none", "arriving", "reading", "serving", "closing", "over"}]
          BY Zenon, <2>0, <2>3 DEF SyncTypeOK
      <3>2. caller' \in [Requests -> {"none", "waiting", "streaming"} \cup Settled]
          BY Zenon, <2>0, <2>3 DEF SyncTypeOK, Settled
      <3>3. wire' \in [Requests -> Seq(Frame)] /\ closed' \in [Requests -> BOOLEAN]
          BY Zenon, <2>0, <2>1, <2>2 DEF SyncTypeOK
      <3> QED  BY Zenon, <2>0, <2>2, <3>1, <3>2, <3>3 DEF SyncTypeOK
  <2>5. \A q \in Requests \ {r} : Untouched(q)
      BY ZenonT(30), <2>0, <2>1, <2>2, <2>3 DEF SyncTypeOK, Untouched
  <2>6. \/ /\ client[r] = "receiving" /\ client'[r] = "over" /\ server'[r] = server[r]
           /\ caller'[r] \in {"answered", "failed", "dropped"} /\ wire'[r] = <<>>
        \/ /\ server[r] = "serving" /\ server'[r] = "over"
           /\ client'[r] = client[r] /\ caller'[r] = caller[r]
      BY Zenon, <2>0, <2>3 DEF SyncTypeOK
  <2>7. StagesOK(r)'
      BY Zenon, <2>0, <2>2, <2>6 DEF StagesOK
  <2>8. FlowOK(r)'
      BY Zenon, <2>0, <2>2, <2>6, <2>7 DEF FlowOK, StagesOK
  <2> QED  BY Zenon, <2>4, <2>5, <2>7, <2>8, <1>OneRequest DEF RequestOK
    \* The provider drops the stream, what is in flight being lost from any point on.
<1>ResetKeeps.
    ASSUME DownloadInv, NEW r \in Requests, ReceiveRequestFails(r) \/ ProvideBlocksTimeout(r)
    PROVE  DownloadInv'
  <2> USE <1>ResetKeeps
  <2>0. SyncTypeOK /\ StagesOK(r) /\ FlowOK(r)
      BY Zenon DEF DownloadInv
  <2>1. /\ kind' = kind /\ protocol' = protocol /\ clientEra' = clientEra
        /\ serverEra' = serverEra /\ buffer' = buffer /\ drained' = drained /\ got' = got
        /\ closed' = [closed EXCEPT ![r] = TRUE] /\ client' = client /\ caller' = caller
        /\ server' = [server EXCEPT ![r] = "over"] /\ server[r] # "none"
      BY Zenon DEF ReceiveRequestFails, ProvideBlocksTimeout, Reset, fixed
  <2>2. PICK k \in 0 .. Len(wire[r]) : wire' = [wire EXCEPT ![r] = SubSeq(wire[r], 1, k)]
      BY Zenon DEF ReceiveRequestFails, ProvideBlocksTimeout, Reset
  <2> DEFINE cut == SubSeq(wire[r], 1, k)
             n == Len(got[r]) + Len(buffer[r])
  <2>3. cut \in Seq(Frame) /\ (OnTheWay(wire[r], n) => OnTheWay(cut, n))
      <3>1. Len(got[r]) \in Nat /\ Len(buffer[r]) \in Nat /\ wire[r] \in Seq(Frame)
          BY Zenon, <2>0, RequestTypes
      <3>2. n \in Nat
          BY Zenon, <3>1, <1>NatSums
      <3> QED  BY Zenon, <3>1, <3>2, <1>Cut
  <2> HIDE DEF cut, n
  <2>4. SyncTypeOK'
      BY Zenon, <2>0, <2>1, <2>2, <2>3 DEF SyncTypeOK, cut
  <2>5. server'[r] = "over" /\ wire'[r] = cut /\ \A q \in Requests \ {r} : Untouched(q)
      BY Zenon, <2>0, <2>1, <2>2 DEF SyncTypeOK, Untouched, cut
  <2>6. StagesOK(r)'
      BY Zenon, <2>0, <2>1, <2>5 DEF StagesOK
  <2>7. FlowOK(r)'
      BY Zenon, <2>0, <2>1, <2>3, <2>5 DEF FlowOK, Listening, n
  <2> QED  BY Zenon, <2>4, <2>5, <2>6, <2>7, <1>OneRequest DEF RequestOK
    \* The provider writes a block, or ends its response.
<1>SendKeeps.
    ASSUME DownloadInv, NEW r \in Requests, SendBlock(r) \/ SendBlocksEnds(r)
    PROVE  DownloadInv'
  <2> USE <1>SendKeeps
  <2> DEFINE n == Len(got[r]) + Len(buffer[r])
             w == wire[r]
  <2>0. SyncTypeOK /\ StagesOK(r) /\ FlowOK(r)
      BY Zenon DEF DownloadInv
  <2>1. /\ kind' = kind /\ protocol' = protocol /\ clientEra' = clientEra
        /\ serverEra' = serverEra /\ buffer' = buffer /\ drained' = drained /\ got' = got
        /\ client' = client /\ caller' = caller /\ server[r] = "serving" /\ kind[r] = "blocks"
      BY Zenon DEF SendBlock, SendBlocksEnds, fixed
  <2>2. /\ n \in Nat /\ w \in Seq(Frame) /\ Len(w) \in Nat /\ n + Len(w) \in Nat
        /\ SentSoFar(r) = n + Len(w)
      <3>1. /\ Len(got[r]) \in Nat /\ Len(buffer[r]) \in Nat /\ Len(wire[r]) \in Nat
            /\ wire[r] \in Seq(Frame)
          BY Zenon, <2>0, RequestTypes
      <3> QED  BY Zenon, <3>1, <1>NatSums DEF SentSoFar
  <2>3. Listening(r) => Consecutive(w, n)
      BY Zenon, <2>0, <2>1 DEF FlowOK
  <2>4. Listening(r)' = Listening(r)
      BY Zenon, <2>1 DEF Listening
  <2> HIDE DEF n, w
  <2>5. ASSUME SendBlock(r) PROVE DownloadInv'
      <3> DEFINE m == n + Len(w)
      <3>1. /\ m < Batch /\ Listening(r) /\ server' = server /\ closed' = closed
            /\ wire' = [wire EXCEPT ![r] = Append(w, m + 1)]
          BY Zenon, <2>2, <2>5 DEF SendBlock, w
      <3>2. m + 1 \in Frame /\ Append(w, m + 1) = w \o <<m + 1>> /\ <<m + 1>> \in Seq(Frame)
          BY <2>2, <3>1, ChainSyncAssumption DEF Frame
      <3>3. Consecutive(<<m + 1>>, m)
          BY Zenon, <2>2, <1>ShortRuns
      <3> HIDE DEF m
      <3>4. Consecutive(w \o <<m + 1>>, n)
          BY Zenon, <2>2, <2>3, <3>1, <3>2, <3>3, <1>Runs DEF m
      <3>5. w \o <<m + 1>> \in Seq(Frame)
          BY <2>2, <3>2
      <3>6. SyncTypeOK'
          BY Zenon, <2>0, <2>1, <3>1, <3>2, <3>5 DEF SyncTypeOK
      <3>7. wire'[r] = w \o <<m + 1>> /\ \A q \in Requests \ {r} : Untouched(q)
          BY Zenon, <2>0, <2>1, <3>1, <3>2 DEF SyncTypeOK, Untouched
      <3>8. StagesOK(r)'
          BY Zenon, <2>0, <2>1, <3>1 DEF StagesOK
      <3>9. OnTheWay(w \o <<m + 1>>, n)
          BY Zenon, <3>4, <1>RunIsOnTheWay
      <3>10. FlowOK(r)'
          BY Zenon, <2>0, <2>1, <2>4, <3>4, <3>7, <3>9 DEF FlowOK, n
      <3> QED  BY Zenon, <3>6, <3>7, <3>8, <3>10, <1>OneRequest DEF RequestOK
  <2>6. ASSUME SendBlocksEnds(r) PROVE DownloadInv'
      <3>1. PICK frames \in {<<>>, <<NoMoreBlocks>>, <<Failure>>} :
              /\ frames = <<NoMoreBlocks>> => SentSoFar(r) = Batch
              /\ wire' = [wire EXCEPT ![r] = Written(r, frames)]
          BY Zenon, <2>6 DEF SendBlocksEnds, BlocksOver
      <3>2. server' = [server EXCEPT ![r] = "over"] /\ closed' = [closed EXCEPT ![r] = TRUE]
          BY Zenon, <2>6 DEF SendBlocksEnds
      <3>3. frames \in Seq(Frame) /\ Written(r, frames) \in Seq(Frame)
          BY Zenon, <2>0, <1>WrittenTypes
      <3>4. ASSUME Listening(r) PROVE OnTheWay(w \o frames, n)
          <4>1. OnTheWay(frames, n + Len(w))
              <5>1. frames = <<NoMoreBlocks>> => n + Len(w) = Batch
                  BY Zenon, <2>2, <3>1
              <5> QED  BY Zenon, <2>2, <3>1, <5>1, <1>ShortRuns
          <4> QED  BY Zenon, <2>2, <2>3, <3>3, <3>4, <4>1, <1>Runs
      <3>5. Listening(r) => OnTheWay(Written(r, frames), n)
          BY Zenon, <3>4 DEF Written, w
      <3>6. SyncTypeOK'
          BY Zenon, <2>0, <2>1, <3>1, <3>2, <3>3 DEF SyncTypeOK
      <3>7. /\ wire'[r] = Written(r, frames) /\ server'[r] = "over"
            /\ \A q \in Requests \ {r} : Untouched(q)
          BY Zenon, <2>0, <2>1, <3>1, <3>2 DEF SyncTypeOK, Untouched
      <3>8. StagesOK(r)'
          BY Zenon, <2>0, <2>1, <3>7 DEF StagesOK
      <3>9. FlowOK(r)'
          BY Zenon, <2>0, <2>1, <2>4, <3>5, <3>7 DEF FlowOK, n
      <3> QED  BY Zenon, <3>6, <3>7, <3>8, <3>9, <1>OneRequest DEF RequestOK
  <2> QED  BY Zenon, <2>5, <2>6
    \* Frames in the order of a download are items.
<1>ItemsOf.
    ASSUME NEW s \in Seq(Frame), NEW n \in Nat, Consecutive(s, n) \/ EndedAt(s, n)
    PROVE  s \in Seq(Item)
  <2> USE <1>ItemsOf
  <2>1. ASSUME NEW i \in 1 .. Len(s) PROVE s[i] \in Item
      <3>1. s[i] \in Frame /\ Len(s) \in Nat
          OBVIOUS
      <3>2. s[i] = n + i \/ s[i] = Failure
          BY Zenon DEF Consecutive, EndedAt
      <3> QED  BY <3>1, <3>2, ChainSyncAssumption DEF Frame, Item, NoMoreBlocks, TipFrame, Failure
  <2> QED  BY <2>1
    \* What poll_next has to yield from, after it has taken frames.
<1>ReadOK.
    ASSUME NEW b \in Seq(Item), NEW w \in Seq(Frame), NEW g \in Nat, NEW k \in 0 .. Len(w),
           NEW eof \in BOOLEAN, NEW d \in BOOLEAN,
           d => k = 0 /\ EndedAt(b, g),
           ~d => Consecutive(b, g) /\ OnTheWay(w, g + Len(b)),
           \A i \in 1 .. k - 1 : w[i] \notin Final,
           eof => ~(d \/ Ends(SubSeq(w, 1, k)))
    PROVE  LET frames == SubSeq(w, 1, k)
               over == d \/ Ends(frames) \/ eof
               items == b \o Items(frames) \o (IF eof THEN EndOfFile ELSE <<>>)
               rest == SubSeq(w, k + 1, Len(w))
           IN  /\ items \in Seq(Item) /\ rest \in Seq(Frame)
               /\ over => EndedAt(items, g)
               /\ ~over => /\ Consecutive(items, g) /\ OnTheWay(rest, g + Len(items))
                           /\ Consecutive(w, g + Len(b)) => Consecutive(rest, g + Len(items))
  <2> USE <1>ReadOK
  <2> DEFINE frames == SubSeq(w, 1, k)
             tail == IF eof THEN EndOfFile ELSE <<>>
             items == b \o Items(frames) \o tail
             rest == SubSeq(w, k + 1, Len(w))
             n == g + Len(b)
  <2>1. b \in Seq(Frame) /\ Len(b) \in Nat /\ rest \in Seq(Frame)
      <3>1. Item \subseteq Frame  BY Zenon DEF Item, Frame
      <3>2. b \in Seq(Frame) /\ Len(b) \in Nat  BY <3>1
      <3>3. \A i \in k + 1 .. Len(w) : w[i] \in Frame  OBVIOUS
      <3>4. k + 1 \in Int /\ Len(w) \in Int  OBVIOUS
      <3>5. rest \in Seq(Frame)
          BY Zenon, <3>3, <3>4, <1>Part
      <3> QED  BY Zenon, <3>2, <3>5
  <2>2. n \in Nat
      BY Zenon, <2>1, <1>NatSums
  <2>3. CASE d
      <3>1. frames = <<>> /\ tail = <<>>
          BY <2>3
      <3>2. Items(<<>>) = <<>>
          BY DEF Items
      <3>3. items = b
          <4>1. items = b \o <<>> \o <<>>
              BY Zenon, <3>1, <3>2
          <4>2. b \o <<>> = b
              BY <2>1
          <4> HIDE DEF items
          <4> QED  BY Zenon, <4>1, <4>2
      <3> QED  BY Zenon, <2>1, <2>3, <3>3
  <2>4. CASE ~d
      <3>1. /\ OnTheWay(frames, n) /\ Items(frames) \in Seq(Frame)
            /\ ~Ends(frames) =>
                 /\ Items(frames) = frames /\ Len(frames) = k /\ Consecutive(frames, n)
                 /\ OnTheWay(rest, n + k) /\ (Consecutive(w, n) => Consecutive(rest, n + k))
            /\ Ends(frames) => EndedAt(Items(frames), n)
          <4> HIDE DEF n
          <4> QED  BY Zenon, <2>2, <2>4, <1>ReadFrames DEF n
      <3> HIDE DEF frames, rest
      <3> DEFINE c == b \o Items(frames)
      <3>2. c \in Seq(Frame) /\ Len(c) = Len(b) + Len(Items(frames)) /\ items = c \o tail
          BY <2>1, <3>1
      <3>3. CASE Ends(frames)
          <4>1. EndedAt(c, g)
              BY Zenon, <2>1, <2>4, <3>1, <3>3, <1>Runs
          <4>2. items = c
              <5>1. ~eof
                  BY Zenon, <3>3 DEF frames
              <5>2. items = c \o <<>>
                  BY Zenon, <3>2, <5>1
              <5> HIDE DEF c, items
              <5> QED  BY <3>2, <5>2
          <4>3. c \in Seq(Item)
              BY Zenon, <3>2, <4>1, <1>ItemsOf
          <4> HIDE DEF c, items
          <4> QED  BY Zenon, <2>1, <3>3, <4>1, <4>2, <4>3 DEF frames, items, rest
      <3>4. CASE ~Ends(frames)
          <4>1. Consecutive(c, g) /\ Len(c) = Len(b) + k
              <5>1. Consecutive(c, g)
                  BY Zenon, <2>1, <2>4, <3>1, <3>4, <1>Runs
              <5> QED  BY Zenon, <3>1, <3>2, <3>4, <5>1
          <4>2. CASE eof
              <5>1. items = c \o <<Failure>> /\ <<Failure>> \in Seq(Frame)
                  BY <3>2, <4>2 DEF EndOfFile, Frame
              <5>2. g + Len(c) \in Nat
                  <6>1. Len(c) \in Nat  BY <3>2
                  <6> QED  BY Zenon, <6>1, <1>NatSums
              <5>3. EndedAt(<<Failure>>, g + Len(c))
                  BY Zenon, <5>2, <1>ShortRuns
              <5> HIDE DEF c
              <5>4. EndedAt(c \o <<Failure>>, g)
                  BY Zenon, <3>2, <4>1, <5>1, <5>3, <1>Runs
              <5>5. c \o <<Failure>> \in Seq(Frame)
                  BY <3>2, <5>1
              <5>6. c \o <<Failure>> \in Seq(Item)
                  BY Zenon, <5>4, <5>5, <1>ItemsOf
              <5> HIDE DEF items
              <5> QED  BY Zenon, <2>1, <4>2, <5>1, <5>4, <5>6 DEF frames, items, rest
          <4>3. CASE ~eof
              <5>1. items = c
                  BY <3>2, <4>3
              <5>2. c \in Seq(Item)
                  BY Zenon, <3>2, <4>1, <1>ItemsOf
              <5>3. g + Len(c) = n + k
                  BY <2>1, <4>1
              <5>4. OnTheWay(rest, g + Len(c)) /\ (Consecutive(w, n) => Consecutive(rest, g + Len(c)))
                  BY Zenon, <3>1, <3>4, <5>3
              <5> HIDE DEF c, items
              <5> QED  BY ZenonT(30), <2>1, <2>4, <3>4, <4>1, <4>3, <5>1, <5>2, <5>4 DEF frames, items, rest
          <4> QED  BY Zenon, <4>2, <4>3
      <3> QED  BY Zenon, <3>3, <3>4
  <2> QED  BY Zenon, <2>3, <2>4
    \* The next frame does not come in time.
<1>TimeoutKeeps.
    ASSUME DownloadInv, NEW r \in Requests, BlockTimeout(r)
    PROVE  DownloadInv'
  <2> USE <1>TimeoutKeeps
  <2> DEFINE b == buffer[r]
             g == Len(got[r])
  <2>0. SyncTypeOK /\ StagesOK(r) /\ FlowOK(r)
      BY Zenon DEF DownloadInv
  <2>1. /\ kind' = kind /\ protocol' = protocol /\ clientEra' = clientEra /\ closed' = closed
        /\ serverEra' = serverEra /\ got' = got /\ client' = client /\ caller' = caller
        /\ server' = server /\ buffer' = [buffer EXCEPT ![r] = Append(b, Failure)]
        /\ drained' = [drained EXCEPT ![r] = TRUE] /\ wire' = [wire EXCEPT ![r] = <<>>]
        /\ caller[r] = "streaming" /\ ~drained[r]
      BY Zenon DEF BlockTimeout, fixed
  <2>2. b \in Seq(Frame) /\ b \in Seq(Item) /\ g \in Nat /\ Len(b) \in Nat
      BY Zenon, <2>0, RequestTypes
  <2>3. Consecutive(b, g)
      BY Zenon, <2>0, <2>1 DEF FlowOK, Listening, StagesOK
  <2> HIDE DEF b, g
  <2>4. EndedAt(b \o <<Failure>>, g)
      <3>1. g + Len(b) \in Nat
          BY Zenon, <2>2, <1>NatSums
      <3>2. EndedAt(<<Failure>>, g + Len(b)) /\ <<Failure>> \in Seq(Frame)
          BY Zenon, <2>0, <3>1, <1>ShortRuns, <1>WrittenTypes
      <3> QED  BY Zenon, <2>2, <2>3, <3>2, <1>Runs
  <2>5. Append(b, Failure) = b \o <<Failure>> /\ Append(b, Failure) \in Seq(Item)
      BY <2>2 DEF Item
  <2>6. SyncTypeOK'
      <3>1. buffer' \in [Requests -> Seq(Item)]
          BY Zenon, <2>0, <2>1, <2>5 DEF SyncTypeOK, Item
      <3> QED  BY SMTT(30), <2>0, <2>1, <3>1 DEF SyncTypeOK, Item
  <2>7. /\ wire'[r] = <<>> /\ buffer'[r] = b \o <<Failure>> /\ drained'[r] = TRUE
        /\ \A q \in Requests \ {r} : Untouched(q)
      BY Zenon, <2>0, <2>1, <2>5 DEF SyncTypeOK, Untouched
  <2>8. StagesOK(r)'
      BY Zenon, <2>0, <2>1, <2>7 DEF StagesOK
  <2>9. FlowOK(r)'
      BY Zenon, <2>0, <2>1, <2>4, <2>7 DEF FlowOK, Listening, g
  <2> QED  BY Zenon, <2>6, <2>7, <2>8, <2>9, <1>OneRequest DEF RequestOK
    \* The caller takes the next block, or learns that there is none.
<1>ReadKeeps.
    ASSUME DownloadInv, NEW r \in Requests, ReadBlocks(r)
    PROVE  DownloadInv'
  <2> USE <1>ReadKeeps
  <2> DEFINE b == buffer[r]
             w == wire[r]
             g == Len(got[r])
  <2>0. SyncTypeOK /\ StagesOK(r) /\ FlowOK(r)
      BY Zenon DEF DownloadInv
  <2>1. /\ kind' = kind /\ protocol' = protocol /\ clientEra' = clientEra /\ closed' = closed
        /\ serverEra' = serverEra /\ client' = client /\ server' = server
        /\ caller[r] = "streaming"
      BY Zenon DEF ReadBlocks, fixed
  <2>2. PICK k \in 0 .. Len(w), eof \in BOOLEAN :
          LET frames == SubSeq(w, 1, k)
              ended == drained[r] \/ Ends(frames)
              items == b \o Items(frames) \o (IF eof THEN EndOfFile ELSE <<>>)
          IN /\ drained[r] => k = 0
             /\ \A i \in 1 .. k - 1 : w[i] \notin Final
             /\ eof => ~ended
             /\ items # <<>> \/ ended \/ eof
             /\ drained' = [drained EXCEPT ![r] = ended \/ eof]
             /\ wire' = [wire EXCEPT ![r] = IF ended \/ eof THEN <<>>
                                            ELSE SubSeq(w, k + 1, Len(w))]
             /\ buffer' = [buffer EXCEPT ![r] = IF items = <<>> THEN <<>> ELSE Tail(items)]
             /\ IF items = <<>>
                   THEN caller' = [caller EXCEPT ![r] = "complete"] /\ got' = got
                   ELSE IF Head(items) = Failure
                   THEN caller' = [caller EXCEPT ![r] = "broken"] /\ got' = got
                   ELSE got' = [got EXCEPT ![r] = Append(got[r], Head(items))] /\ caller' = caller
      BY ZenonT(60) DEF ReadBlocks
  <2> DEFINE frames == SubSeq(w, 1, k)
             over == drained[r] \/ Ends(frames) \/ eof
             items == b \o Items(frames) \o (IF eof THEN EndOfFile ELSE <<>>)
             rest == SubSeq(w, k + 1, Len(w))
  <2>3. /\ b \in Seq(Item) /\ w \in Seq(Frame) /\ g \in Nat /\ got[r] \in Seq(1 .. Batch)
        /\ drained[r] \in BOOLEAN
      BY Zenon, <2>0, RequestTypes
  <2>4. /\ drained[r] => EndedAt(b, g)
        /\ ~drained[r] => Consecutive(b, g) /\ OnTheWay(w, g + Len(b))
        /\ ~drained[r] /\ server[r] # "over" => Consecutive(w, g + Len(b))
        /\ Consecutive(got[r], 0) /\ kind[r] # "tip"
      BY Zenon, <2>0, <2>1 DEF FlowOK, Listening, StagesOK
  <2>5. /\ items # <<>> \/ over
        /\ drained' = [drained EXCEPT ![r] = over]
        /\ wire' = [wire EXCEPT ![r] = IF over THEN <<>> ELSE rest]
        /\ buffer' = [buffer EXCEPT ![r] = IF items = <<>> THEN <<>> ELSE Tail(items)]
        /\ IF items = <<>>
              THEN caller' = [caller EXCEPT ![r] = "complete"] /\ got' = got
              ELSE IF Head(items) = Failure
              THEN caller' = [caller EXCEPT ![r] = "broken"] /\ got' = got
              ELSE got' = [got EXCEPT ![r] = Append(got[r], Head(items))] /\ caller' = caller
      BY Zenon, <2>2
  <2>6. /\ items \in Seq(Item) /\ rest \in Seq(Frame)
        /\ over => EndedAt(items, g)
        /\ ~over => /\ Consecutive(items, g) /\ OnTheWay(rest, g + Len(items))
                    /\ Consecutive(w, g + Len(b)) => Consecutive(rest, g + Len(items))
      <3> HIDE DEF b, w, g
      <3>1. /\ drained[r] => k = 0 /\ EndedAt(b, g)
            /\ \A i \in 1 .. k - 1 : w[i] \notin Final
            /\ eof => ~(drained[r] \/ Ends(SubSeq(w, 1, k)))
          BY Zenon, <2>2, <2>4
      <3> QED  BY Zenon, <2>3, <2>4, <3>1, <1>ReadOK
  <2> HIDE DEF items, over, rest, frames, b, w, g
  <2>7. over \in BOOLEAN
      BY Zenon DEF over, Ends
  <2>8. SyncTypeOK'
      <3>1. drained' \in [Requests -> BOOLEAN] /\ wire' \in [Requests -> Seq(Frame)]
          BY SMTT(20), <2>0, <2>5, <2>6, <2>7 DEF SyncTypeOK
      <3>2. (IF items = <<>> THEN <<>> ELSE Tail(items)) \in Seq(Item)
          BY <2>6
      <3>3. buffer' \in [Requests -> Seq(Item)]
          BY Zenon, <2>0, <2>5, <3>2 DEF SyncTypeOK, Item
      <3>4. caller' \in [Requests -> {"none", "waiting", "streaming"} \cup Settled]
          BY Zenon, <2>0, <2>5 DEF SyncTypeOK, Settled
      <3>5. items # <<>> /\ Head(items) # Failure => Append(got[r], Head(items)) \in Seq(1 .. Batch)
          BY <2>3, <2>6 DEF Item
      <3>6. got' \in [Requests -> Seq(1 .. Batch)]
          BY Zenon, <2>0, <2>5, <3>5 DEF SyncTypeOK
      <3> QED  BY ZenonT(30), <2>0, <2>1, <3>1, <3>3, <3>4, <3>6 DEF SyncTypeOK, Item
  <2>9. \A q \in Requests \ {r} : Untouched(q)
      BY ZenonT(30), <2>0, <2>1, <2>5 DEF SyncTypeOK, Untouched
  <2>10. /\ drained'[r] = over /\ wire'[r] = (IF over THEN <<>> ELSE rest)
         /\ buffer'[r] = (IF items = <<>> THEN <<>> ELSE Tail(items))
      BY Zenon, <2>0, <2>5 DEF SyncTypeOK
  <2>11. StagesOK(r)'
      <3>1. caller'[r] \in {"streaming", "complete", "broken"}
          BY Zenon, <2>0, <2>1, <2>5 DEF SyncTypeOK
      <3>2. client[r] = "over" /\ (server[r] = "none" => w = <<>>)
          BY Zenon, <2>0, <2>1 DEF StagesOK, w
      <3>3. server[r] = "none" => wire'[r] = <<>>
          <4>1. w = <<>> => rest = <<>>
              BY <2>2 DEF rest
          <4> QED  BY Zenon, <2>10, <3>2, <4>1
      <3> QED  BY Zenon, <2>1, <2>4, <3>1, <3>2, <3>3 DEF StagesOK
  <2>12. FlowOK(r)'
      <3>1. CASE items = <<>>
          <4>1. over /\ g + Len(<<>>) = Batch
              BY <2>5, <2>6, <3>1 DEF EndedAt
          <4>2. g = Batch
              BY <2>3, <4>1
          <4>3. caller'[r] = "complete" /\ got'[r] = got[r]
              BY Zenon, <2>0, <2>5, <3>1 DEF SyncTypeOK
          <4> QED  BY Zenon, <2>4, <4>2, <4>3 DEF FlowOK, Listening, g
      <3>2. CASE items # <<>> /\ Head(items) = Failure
          <4>1. caller'[r] = "broken" /\ got'[r] = got[r]
              BY Zenon, <2>0, <2>5, <3>2 DEF SyncTypeOK
          <4> QED  BY Zenon, <2>4, <4>1 DEF FlowOK, Listening, g
      <3>3. CASE items # <<>> /\ Head(items) # Failure
          <4>1. caller'[r] = "streaming" /\ got'[r] = Append(got[r], Head(items))
              BY ZenonT(30), <2>0, <2>1, <2>5, <3>3 DEF SyncTypeOK
          <4>2. /\ Head(items) = g + 1
                /\ over => EndedAt(Tail(items), g + 1)
                /\ ~over => Consecutive(Tail(items), g + 1)
              BY Zenon, <2>3, <2>6, <3>3, <1>Oldest
          <4>3. Len(Append(got[r], Head(items))) = g + 1 /\ Consecutive(Append(got[r], Head(items)), 0)
              <5> DEFINE h == Append(got[r], Head(items))
              <5>1. /\ Len(h) = g + 1 /\ h[g + 1] = Head(items)
                    /\ \A i \in 1 .. g : h[i] = got[r][i] /\ got[r][i] = 0 + i
                  BY SMTT(20), <2>3, <2>4, <4>2 DEF Consecutive, g
              <5> HIDE DEF h
              <5>2. \A i \in 1 .. g + 1 : i \in 1 .. g \/ i = g + 1
                  BY <2>3
              <5>3. g + 1 = 0 + (g + 1)
                  BY <2>3
              <5>4. \A i \in 1 .. g + 1 : h[i] = 0 + i
                  BY Zenon, <4>2, <5>1, <5>2, <5>3
              <5> QED  BY ZenonT(30), <5>1, <5>4 DEF Consecutive, h
          <4>4. Tail(items) \in Seq(Item) /\ Len(items) = Len(Tail(items)) + 1 /\ Len(Tail(items)) \in Nat
              BY <2>6, <3>3
          <4>5. g + Len(items) = (g + 1) + Len(Tail(items))
              BY <2>3, <4>4
          <4>6. Len(got'[r]) = g + 1 /\ buffer'[r] = Tail(items) /\ Consecutive(got'[r], 0)
              BY Zenon, <2>10, <3>3, <4>1, <4>3
          <4>7. ~over => /\ OnTheWay(wire'[r], Len(got'[r]) + Len(buffer'[r]))
                         /\ server'[r] # "over" =>
                              Consecutive(wire'[r], Len(got'[r]) + Len(buffer'[r]))
              <5>1. ~over /\ server[r] # "over" => Consecutive(w, g + Len(b))
                  BY Zenon, <2>4 DEF over
              <5> QED  BY ZenonT(30), <2>1, <2>6, <2>10, <4>5, <4>6, <5>1
          <4> QED  BY ZenonT(30), <2>7, <2>10, <4>1, <4>2, <4>6, <4>7 DEF FlowOK, Listening
      <3> QED  BY Zenon, <3>1, <3>2, <3>3
  <2> QED  BY Zenon, <2>8, <2>9, <2>11, <2>12, <1>OneRequest DEF RequestOK
    \* The futures of a protocol that ends are dropped.
<1>EraKeeps.
    ASSUME DownloadInv, EraStep
    PROVE  DownloadInv'
  <2> USE <1>EraKeeps
  <2>0. SyncTypeOK
      BY Zenon DEF DownloadInv
  <2>1. /\ kind' = kind /\ protocol' = protocol /\ buffer' = buffer /\ drained' = drained
        /\ got' = got
      BY Zenon DEF EraStep, ClientStartsNewEra, ClientFinishesTransition, ServerStartsNewEra,
             ServerFinishesTransition, streamVars
  <2>2. /\ clientEra' \in [current : 1 .. SyncEras, old : 0 .. SyncEras]
        /\ serverEra' \in [current : 1 .. SyncEras, old : 0 .. SyncEras]
      BY SMTT(20), <2>0, ChainSyncAssumption
         DEF EraStep, ClientStartsNewEra, ClientFinishesTransition, ServerStartsNewEra,
             ServerFinishesTransition, SyncTypeOK
  <2>3. CASE ClientStartsNewEra \/ ClientFinishesTransition
      <3> DEFINE lost == {r \in Requests : /\ client[r] \in {"sending", "receiving"}
                                           /\ protocol[r] \notin {clientEra.current}}
      <3>1. /\ server' = server /\ wire' = wire /\ closed' = closed
            /\ client' = [r \in Requests |-> IF r \in lost THEN "over" ELSE client[r]]
            /\ caller' = [r \in Requests |-> IF r \in lost THEN "dropped" ELSE caller[r]]
          BY Zenon, <2>3 DEF ClientStartsNewEra, ClientFinishesTransition, DropOldRequests, streamVars
      <3>2. \A r \in lost : client[r] \in {"sending", "receiving"}
          BY Zenon
      <3> HIDE DEF lost
      <3>3. SyncTypeOK'
          BY Zenon, <2>0, <2>1, <2>2, <3>1 DEF SyncTypeOK, Settled
      <3>4. ASSUME NEW r \in Requests PROVE RequestOK(r)'
          <4>0. StagesOK(r) /\ FlowOK(r)
              BY Zenon DEF DownloadInv
          <4>1. CASE r \notin lost
              BY Zenon, <2>1, <3>1, <4>0, <4>1, <1>SameKeeps DEF Untouched, RequestOK
          <4>2. CASE r \in lost
              <5>1. client'[r] = "over" /\ caller'[r] = "dropped" /\ caller[r] = "waiting"
                  BY Zenon, <3>1, <3>2, <4>0, <4>2 DEF StagesOK
              <5>2. StagesOK(r)'
                  BY Zenon, <2>1, <3>1, <4>0, <5>1 DEF StagesOK
              <5>3. FlowOK(r)'
                  BY Zenon, <2>1, <4>0, <5>1 DEF FlowOK, Listening
              <5> QED  BY Zenon, <5>2, <5>3 DEF RequestOK
          <4> QED  BY Zenon, <4>1, <4>2
      <3> QED  BY Zenon, <3>3, <3>4 DEF DownloadInv, RequestOK
  <2>4. CASE ServerStartsNewEra \/ ServerFinishesTransition
      <3>1. PICK accepting : DropOldResponses({serverEra.current}, accepting)
          BY Zenon, <2>4 DEF ServerStartsNewEra, ServerFinishesTransition
      <3> DEFINE lost == {r \in Requests :
                            \/ server[r] = "arriving" /\ protocol[r] \notin accepting
                            \/ /\ server[r] \in {"reading", "serving", "closing"}
                               /\ protocol[r] \notin {serverEra.current}}
      <3>2. /\ server' = [r \in Requests |-> IF r \in lost THEN "over" ELSE server[r]]
            /\ closed' = [r \in Requests |-> closed[r] \/ r \in lost]
          BY Zenon, <3>1 DEF DropOldResponses
      <3>3. PICK cut \in [lost -> 0 .. Batch + 1] :
              /\ \A r \in lost : cut[r] <= Len(wire[r])
              /\ wire' = [r \in Requests |-> IF r \in lost THEN SubSeq(wire[r], 1, cut[r])
                                             ELSE wire[r]]
          BY Zenon, <3>1 DEF DropOldResponses
      <3>4. \A r \in lost : server[r] # "none"
          BY Zenon
      <3>5. client' = client /\ caller' = caller
          BY Zenon, <2>4 DEF ServerStartsNewEra, ServerFinishesTransition
      <3> HIDE DEF lost
      <3>6. ASSUME NEW r \in Requests, r \in lost
            PROVE  cut[r] \in 0 .. Len(wire[r]) /\ SubSeq(wire[r], 1, cut[r]) \in Seq(Frame)
          <4>1. wire[r] \in Seq(Frame) /\ Len(wire[r]) \in Nat
              BY Zenon, <2>0, RequestTypes
          <4>2. cut[r] \in 0 .. Batch + 1 /\ cut[r] <= Len(wire[r])
              BY Zenon, <3>3, <3>6
          <4>3. cut[r] \in 0 .. Len(wire[r])
              BY <4>1, <4>2, ChainSyncAssumption
          <4>4. 0 \in Nat  BY Zenon
          <4> QED  BY Zenon, <4>1, <4>3, <4>4, <1>Cut
      <3>7. SyncTypeOK'
          <4>1. wire' \in [Requests -> Seq(Frame)]
              BY Zenon, <2>0, <3>3, <3>6 DEF SyncTypeOK
          <4>2. /\ closed' \in [Requests -> BOOLEAN]
                /\ server' \in [Requests -> {"none", "arriving", "reading", "serving", "closing", "over"}]
              BY Zenon, <2>0, <3>2 DEF SyncTypeOK
          <4> QED  BY Zenon, <2>0, <2>1, <2>2, <3>5, <4>1, <4>2 DEF SyncTypeOK
      <3>8. ASSUME NEW r \in Requests PROVE RequestOK(r)'
          <4>0. StagesOK(r) /\ FlowOK(r)
              BY Zenon DEF DownloadInv
          <4>1. CASE r \notin lost
              BY Zenon, <2>1, <3>2, <3>3, <3>5, <4>0, <4>1, <1>SameKeeps DEF Untouched, RequestOK
          <4>2. CASE r \in lost
              <5> DEFINE n == Len(got[r]) + Len(buffer[r])
              <5>1. server'[r] = "over" /\ wire'[r] = SubSeq(wire[r], 1, cut[r]) /\ server[r] # "none"
                  BY Zenon, <3>2, <3>3, <3>4, <4>2
              <5>2. n \in Nat /\ wire[r] \in Seq(Frame)
                  BY Zenon, <2>0, RequestTypes, <1>NatSums
              <5> HIDE DEF n
              <5>3. OnTheWay(wire[r], n) => OnTheWay(wire'[r], n)
                  BY Zenon, <3>6, <4>2, <5>1, <5>2, <1>Cut
              <5>4. StagesOK(r)'
                  BY Zenon, <2>1, <3>5, <4>0, <5>1 DEF StagesOK
              <5>5. FlowOK(r)'
                  BY Zenon, <2>1, <3>5, <4>0, <5>1, <5>3 DEF FlowOK, Listening, n
              <5> QED  BY Zenon, <5>4, <5>5 DEF RequestOK
          <4> QED  BY Zenon, <4>1, <4>2
      <3> QED  BY Zenon, <3>7, <3>8 DEF DownloadInv, RequestOK
  <2> QED  BY Zenon, <2>3, <2>4 DEF EraStep
<1>1. ASSUME SyncInit PROVE DownloadInv
    <2>1. SyncTypeOK
        <3>1. 1 \in 1 .. SyncEras /\ 0 \in 0 .. SyncEras
            BY ChainSyncAssumption
        <3> QED  BY <1>1, <3>1 DEF SyncInit, SyncTypeOK
    <2>2. ASSUME NEW r \in Requests PROVE StagesOK(r) /\ FlowOK(r)
        <3>1. StagesOK(r)
            BY Zenon, <1>1 DEF SyncInit, StagesOK
        <3>2. Consecutive(<<>>, 0)
            BY DEF Consecutive
        <3> QED  BY Zenon, <1>1, <3>1, <3>2 DEF SyncInit, FlowOK, Listening
    <2> QED  BY Zenon, <2>1, <2>2 DEF DownloadInv
<1>2. ASSUME DownloadInv, [SyncNext]_syncVars PROVE DownloadInv'
    <2>1. CASE UNCHANGED syncVars
        <3>1. SyncTypeOK'
            BY Zenon, <1>2, <2>1 DEF syncVars, SyncTypeOK, DownloadInv
        <3>2. \A q \in Requests : Untouched(q)
            BY Zenon, <2>1 DEF syncVars, Untouched
        <3> QED  BY Zenon, <1>2, <3>1, <3>2, <1>SameKeeps DEF DownloadInv, RequestOK
    <2>2. CASE SyncNext
        <3>1. ASSUME NEW r \in Requests, RequesterStep(r) \/ ProviderStep(r) PROVE DownloadInv'
            BY ZenonT(30), <1>2, <3>1, <1>StagesKeep, <1>TipKeeps, <1>ResetKeeps, <1>SendKeeps, <1>TimeoutKeeps, <1>ReadKeeps
               DEF RequesterStep, ProviderStep
        <3>2. ASSUME NEW r \in Requests, NEW k \in {"tip", "blocks", "oversized"}, Request(r, k)
              PROVE  DownloadInv'
            BY Zenon, <1>2, <3>2, <1>StagesKeep
        <3> QED  BY Zenon, <1>2, <2>2, <3>1, <3>2, <1>EraKeeps DEF SyncNext
    <2> QED  BY Zenon, <1>2, <2>1, <2>2
<1> QED  BY Zenon, <1>1, <1>2

\* The blocks that a caller has read are the provider's, from the first on and
\* without a gap, and a download that ends without an error carried them all:
\* for any number of requests, any batch and any read-ahead, through time-outs,
\* rejections, lost frames and ends of eras.
THEOREM CompleteDownloadsAreWhole == SyncSpec => []DownloadsAreWhole
<1>1. DownloadInv => DownloadsAreWhole
    <2> SUFFICES ASSUME DownloadInv, NEW r \in Requests
                 PROVE  /\ got[r] = [i \in 1 .. Len(got[r]) |-> i]
                        /\ caller[r] = "complete" => Len(got[r]) = Batch
        BY Zenon DEF DownloadsAreWhole
    <2>1. SyncTypeOK /\ Consecutive(got[r], 0) /\ (caller[r] = "complete" => Len(got[r]) = Batch)
        BY Zenon DEF DownloadInv, FlowOK
    <2>2. got[r] \in Seq(1 .. Batch)
        BY Zenon, <2>1, RequestTypes
    <2>3. got[r] = [i \in 1 .. Len(got[r]) |-> i]
        BY SMTT(20), <2>1, <2>2 DEF Consecutive
    <2> QED  BY Zenon, <2>1, <2>3
<1> QED  BY <1>1, DownloadInvHolds, PTL DEF SyncSpec

-----------------------------------------------------------------------------
(* Two nodes that dial each other.                                         *)

LinkType == [dialer : Nodes, end : [Nodes -> Stages]]

\* There are at most two connections, one of each direction, for the one that
\* "high" dialed is never closed, and the other one only when that one is up at
\* both ends; this keeps both nodes from dialing again.
ClosedFor(ls, k) ==
    \A id \in 1 .. k, n \in Nodes :
        ls[id].end[n] = "closed" =>
            /\ ls[id].dialer = "low"
            /\ \E o \in 1 .. k : /\ ls[o].dialer = "high"
                               /\ \A m \in Nodes : ls[o].end[m] \in {"waiting", "held"}
OneHeld(ls, k) ==
    \A i \in 1 .. k, j \in 1 .. k, n \in Nodes :
        ls[i].end[n] = "held" /\ ls[j].end[n] = "held" => i = j
HeldIsUp(ls, k) ==
    \A id \in 1 .. k, n \in Nodes, m \in Nodes :
        ls[id].end[n] = "held" => ls[id].end[m] # "new"
PairInv ==
    /\ made \in 0 .. 2 /\ DOMAIN links = 1 .. made
    /\ \A id \in 1 .. made : links[id] \in LinkType
    /\ made = 2 => links[1].dialer # links[2].dialer
    /\ ClosedFor(links, made) /\ OneHeld(links, made) /\ HeldIsUp(links, made)

\* One end of one connection moves to a stage.
Moved(ls, new, id, n, stage) ==
    /\ DOMAIN new = DOMAIN ls
    /\ \A i \in DOMAIN ls : new[i] \in LinkType /\ new[i].dialer = ls[i].dialer
    /\ new[id].end[n] = stage
    /\ \A i \in DOMAIN ls, m \in Nodes : ~(i = id /\ m = n) => new[i].end[m] = ls[i].end[m]

\* The steps of the two nodes keep the invariant, and settled nodes hold one.
LEMMA PairInvHolds ==
    /\ PairInit => PairInv
    /\ PairInv /\ [PairNext]_pairVars => PairInv'
    /\ PairInv /\ Resolved /\ made > 0 => \E id \in 1 .. made : At("low", {"held"}) = {id}
<1>SetEndMoves.
    ASSUME NEW ls, \A i \in DOMAIN ls : ls[i] \in LinkType,
           NEW id \in DOMAIN ls, NEW n \in Nodes, NEW stage \in Stages
    PROVE  Moved(ls, SetEnd(ls, id, n, stage), id, n, stage)
  <2> USE <1>SetEndMoves
  <2> DEFINE new == SetEnd(ls, id, n, stage)
  <2>1. PICK d, e : ls[id] = [dialer |-> d, end |-> e] /\ d \in Nodes /\ e \in [Nodes -> Stages]
      BY Zenon DEF LinkType
  <2>2. /\ DOMAIN new = DOMAIN ls
        /\ new[id] = [ls[id] EXCEPT !.end[n] = stage]
        /\ \A o \in DOMAIN ls \ {id} : new[o] = ls[o]
      BY Zenon DEF SetEnd
  <2> HIDE DEF new
  <2>3. new[id] = [dialer |-> d, end |-> [e EXCEPT ![n] = stage]]
      BY <2>1, <2>2
  <2>4. [e EXCEPT ![n] = stage] \in [Nodes -> Stages]
      BY Zenon, <2>1
  <2>5. [e EXCEPT ![n] = stage][n] = stage /\ \A m \in Nodes \ {n} : [e EXCEPT ![n] = stage][m] = e[m]
      BY Zenon, <2>1
  <2>6. /\ new[id] \in LinkType /\ new[id].dialer = ls[id].dialer /\ new[id].end[n] = stage
        /\ \A m \in Nodes \ {n} : new[id].end[m] = ls[id].end[m]
      BY <2>1, <2>3, <2>4, <2>5 DEF LinkType
  <2>7. Moved(ls, new, id, n, stage)
      BY Zenon, <2>2, <2>6 DEF Moved
  <2> QED  BY Zenon, <2>7 DEF new
    \* The other connection, and what a node that holds it makes of it.
<1>PairFacts.
    ASSUME PairInv
    PROVE  /\ DOMAIN links = 1 .. made /\ made \in {0, 1, 2}
           /\ \A id \in 1 .. made : /\ links[id].dialer \in Nodes
                                    /\ \A n \in Nodes : links[id].end[n] \in Stages
           /\ \A id \in 1 .. made, o \in 1 .. made :
                id # o => links[id].dialer # links[o].dialer
           /\ \A id \in 1 .. made, o \in 1 .. made, n \in Nodes :
                id # o => Direction(id, n) # Direction(o, n)
  <2> USE <1>PairFacts
  <2>1. /\ DOMAIN links = 1 .. made /\ made \in {0, 1, 2}
        /\ \A id \in 1 .. made : /\ links[id].dialer \in Nodes
                                 /\ \A n \in Nodes : links[id].end[n] \in Stages
      BY DEF PairInv, LinkType
  <2>2. ASSUME NEW id \in 1 .. made, NEW o \in 1 .. made, id # o
        PROVE  links[id].dialer # links[o].dialer
      <3>1. made = 2 /\ ((id = 1 /\ o = 2) \/ (id = 2 /\ o = 1))
          BY <2>1, <2>2
      <3> QED  BY Zenon, <3>1 DEF PairInv
  <2>3. ASSUME NEW id \in 1 .. made, NEW o \in 1 .. made, NEW n \in Nodes, id # o
        PROVE  Direction(id, n) # Direction(o, n)
      BY ZenonT(30), <2>1, <2>2, <2>3 DEF Direction, Nodes
  <2> QED  BY Zenon, <2>1, <2>2, <2>3
<1>DialKeeps.
    ASSUME PairInv, NEW n \in Nodes, DialOther(n)
    PROVE  PairInv'
  <2> USE <1>DialKeeps
  <2> DEFINE link == [dialer |-> n, end |-> [m \in Nodes |-> "new"]]
  <2>1. /\ At(n, {"waiting", "held"}) = {}
        /\ \A id \in At(n, {"new"}) : Direction(id, n) = "in"
        /\ made' = made + 1 /\ links' = With(links, made + 1, link)
      BY Zenon DEF DialOther
  <2>2. DOMAIN links = 1 .. made /\ made \in {0, 1, 2}
      BY Zenon, <1>PairFacts
  <2>3. ASSUME NEW id \in 1 .. made
        PROVE  /\ links[id].end[n] \in {"new", "closed"}
               /\ links[id].end[n] = "new" => links[id].dialer # n
      BY ZenonT(30), <2>1, <2>2, <1>PairFacts DEF At, Direction, Stages
  <2>4. ASSUME NEW id \in 1 .. made PROVE links[id].end[n] = "new" /\ links[id].dialer # n
      <3>1. links[id].end[n] # "closed"
          <4> SUFFICES ASSUME links[id].end[n] = "closed" PROVE FALSE
              BY Zenon
          <4>1. PICK o \in 1 .. made : \A m \in Nodes : links[o].end[m] \in {"waiting", "held"}
              BY Zenon DEF PairInv, ClosedFor
          <4> QED  BY Zenon, <2>3, <4>1
      <3> QED  BY Zenon, <2>3, <3>1
  <2>5. \A id \in 1 .. made, m \in Nodes : links[id].end[m] # "closed"
      <3> SUFFICES ASSUME NEW id \in 1 .. made, NEW m \in Nodes, links[id].end[m] = "closed"
                   PROVE  FALSE
          BY Zenon
      <3>1. PICK o \in 1 .. made : \A k \in Nodes : links[o].end[k] \in {"waiting", "held"}
          BY Zenon DEF PairInv, ClosedFor
      <3> QED  BY Zenon, <2>4, <3>1
  <2>6. made # 2
      <3> SUFFICES ASSUME made = 2 PROVE FALSE
          BY Zenon
      <3>1. links[1].dialer # n /\ links[2].dialer # n /\ links[1].dialer # links[2].dialer
          BY <2>4, <1>PairFacts
      <3> QED  BY <3>1, <1>PairFacts DEF Nodes
  <2>7. /\ DOMAIN links' = 1 .. made' /\ made' \in 0 .. 2
        /\ links'[made'] = link /\ \A id \in 1 .. made : links'[id] = links[id]
      BY <2>1, <2>2, <2>6 DEF With
  <2>8. link \in LinkType /\ link.dialer = n /\ \A m \in Nodes : link.end[m] = "new"
      BY Zenon DEF LinkType, Stages
  <2> HIDE DEF link
  <2>9. \A id \in 1 .. made' : id = made' \/ id \in 1 .. made
      BY <2>1, <2>2
  <2>10. \A id \in 1 .. made' : links'[id] \in LinkType
      BY Zenon, <2>7, <2>8, <2>9 DEF PairInv
  <2>11. \A id \in 1 .. made', m \in Nodes : links'[id].end[m] # "closed"
      BY ZenonT(30), <2>5, <2>7, <2>8, <2>9
  <2>12. made' = 2 => links'[1].dialer # links'[2].dialer
      BY SMTT(20), <2>1, <2>2, <2>4, <2>7, <2>8
  <2>13. \A i \in 1 .. made', j \in 1 .. made', m \in Nodes :
           links'[i].end[m] = "held" /\ links'[j].end[m] = "held" => i = j
      BY <2>7, <2>8, <2>9 DEF PairInv, OneHeld
  <2>14. \A id \in 1 .. made', m \in Nodes, k \in Nodes :
           links'[id].end[m] = "held" => links'[id].end[k] # "new"
      BY <2>7, <2>8, <2>9 DEF PairInv, HeldIsUp
  <2>15. ClosedFor(links', made') /\ OneHeld(links', made') /\ HeldIsUp(links', made')
      BY Zenon, <2>11, <2>13, <2>14 DEF ClosedFor, OneHeld, HeldIsUp
  <2> QED  BY Zenon, <2>7, <2>10, <2>12, <2>15 DEF PairInv
    \* A node's end of a connection that moves on without closing, and is not the
    \* second one the node holds.
<1>MoveKeeps.
    ASSUME PairInv, NEW id \in 1 .. made, NEW n \in Nodes, NEW stage \in {"waiting", "held"},
           links[id].end[n] \in {"new", "waiting"}, Moved(links, links', id, n, stage), made' = made,
           stage = "held" => /\ \A o \in 1 .. made : links[o].end[n] # "held"
                             /\ \A m \in Nodes \ {n} : links[id].end[m] # "new"
    PROVE  PairInv'
  <2> USE <1>MoveKeeps
  <2>1. DOMAIN links = 1 .. made /\ DOMAIN links' = 1 .. made' /\ made' \in 0 .. 2
      BY Zenon, <1>PairFacts DEF Moved, PairInv
  <2>2. \A i \in 1 .. made : links'[i] \in LinkType /\ links'[i].dialer = links[i].dialer
      BY Zenon, <2>1 DEF Moved
  <2>3. \A i \in 1 .. made, m \in Nodes :
          IF i = id /\ m = n THEN links'[i].end[m] = stage ELSE links'[i].end[m] = links[i].end[m]
      BY Zenon, <2>1 DEF Moved
  <2>4. ASSUME NEW i \in 1 .. made, NEW m \in Nodes, links'[i].end[m] = "closed"
        PROVE  /\ links'[i].dialer = "low"
               /\ \E o \in 1 .. made : /\ links'[o].dialer = "high"
                                       /\ \A k \in Nodes : links'[o].end[k] \in {"waiting", "held"}
      <3>1. links[i].end[m] = "closed"
          BY Zenon, <2>3, <2>4
      <3>2. /\ links[i].dialer = "low"
            /\ \E o \in 1 .. made : /\ links[o].dialer = "high"
                                    /\ \A k \in Nodes : links[o].end[k] \in {"waiting", "held"}
          BY Zenon, <3>1 DEF PairInv, ClosedFor
      <3>3. PICK o \in 1 .. made : /\ links[o].dialer = "high"
                                  /\ \A k \in Nodes : links[o].end[k] \in {"waiting", "held"}
          BY Zenon, <3>2
      <3>4. \A k \in Nodes : links'[o].end[k] \in {"waiting", "held"}
          BY Zenon, <2>3, <3>3
      <3> QED  BY ZenonT(30), <2>2, <3>2, <3>3, <3>4
  <2>5. ASSUME NEW i \in 1 .. made, NEW j \in 1 .. made, NEW m \in Nodes,
               links'[i].end[m] = "held", links'[j].end[m] = "held"
        PROVE  i = j
      <3>1. CASE links[i].end[m] = "held" /\ links[j].end[m] = "held"
          BY Zenon, <3>1 DEF PairInv, OneHeld
      <3>2. CASE links[i].end[m] # "held" \/ links[j].end[m] # "held"
          <4>1. m = n /\ stage = "held" /\ (i = id \/ j = id)
              BY Zenon, <2>3, <2>5, <3>2
          <4>2. (i = id \/ links[i].end[m] = "held") /\ (j = id \/ links[j].end[m] = "held")
              BY Zenon, <2>3, <2>5
          <4> QED  BY Zenon, <4>1, <4>2
      <3> QED  BY Zenon, <3>1, <3>2
  <2>6. ASSUME NEW i \in 1 .. made, NEW m \in Nodes, NEW k \in Nodes, links'[i].end[m] = "held"
        PROVE  links'[i].end[k] # "new"
      <3>1. CASE i = id /\ m = n
          BY ZenonT(30), <2>3, <2>6, <3>1
      <3>2. CASE ~(i = id /\ m = n)
          <4>1. links[i].end[k] # "new"
              BY <2>3, <2>6, <3>2 DEF PairInv, HeldIsUp
          <4> QED  BY Zenon, <2>3, <4>1
      <3> QED  BY Zenon, <3>1, <3>2
  <2>7. made' = 2 => links'[1].dialer # links'[2].dialer
      BY <2>2 DEF PairInv
  <2>8. ClosedFor(links', made)
      BY Zenon, <2>4 DEF ClosedFor
  <2>9. OneHeld(links', made) /\ HeldIsUp(links', made)
      BY Zenon, <2>5, <2>6 DEF OneHeld, HeldIsUp
  <2> QED  BY Zenon, <2>1, <2>2, <2>7, <2>8, <2>9 DEF PairInv
    \* An end of the connection "low" dialed that closes while the other one is up.
<1>CloseKeeps.
    ASSUME PairInv, NEW id \in 1 .. made, NEW n \in Nodes, links[id].dialer = "low",
           Moved(links, links', id, n, "closed"), made' = made,
           \E o \in 1 .. made : /\ links[o].dialer = "high"
                                /\ \A m \in Nodes : links[o].end[m] \in {"waiting", "held"}
    PROVE  PairInv'
  <2> USE <1>CloseKeeps
  <2>1. DOMAIN links = 1 .. made /\ DOMAIN links' = 1 .. made' /\ made' \in 0 .. 2
      BY Zenon, <1>PairFacts DEF Moved, PairInv
  <2>2. \A i \in 1 .. made : links'[i] \in LinkType /\ links'[i].dialer = links[i].dialer
      BY Zenon, <2>1 DEF Moved
  <2>3. \A i \in 1 .. made, m \in Nodes :
          IF i = id /\ m = n THEN links'[i].end[m] = "closed" ELSE links'[i].end[m] = links[i].end[m]
      BY Zenon, <2>1 DEF Moved
  <2>4. PICK o \in 1 .. made : /\ links[o].dialer = "high"
                              /\ \A m \in Nodes : links[o].end[m] \in {"waiting", "held"}
      BY Zenon
  <2>5. links'[o].dialer = "high" /\ \A m \in Nodes : links'[o].end[m] \in {"waiting", "held"}
      BY Zenon, <2>2, <2>3, <2>4
  <2>6. \A i \in 1 .. made, m \in Nodes : links'[i].end[m] = "closed" => links'[i].dialer = "low"
      BY <2>2, <2>3 DEF PairInv, ClosedFor
  <2>7. \A i \in 1 .. made, m \in Nodes : links'[i].end[m] = "held" => links[i].end[m] = "held"
      BY Zenon, <2>3
  <2>8. \A i \in 1 .. made, m \in Nodes : links'[i].end[m] = "new" => links[i].end[m] = "new"
      BY Zenon, <2>3
  <2>9. made' = 2 => links'[1].dialer # links'[2].dialer
      BY <2>2 DEF PairInv
  <2>10. \A i \in 1 .. made, j \in 1 .. made, m \in Nodes :
           links'[i].end[m] = "held" /\ links'[j].end[m] = "held" => i = j
      BY ZenonT(30), <2>7 DEF PairInv, OneHeld
  <2>11. \A i \in 1 .. made, m \in Nodes, k \in Nodes :
           links'[i].end[m] = "held" => links'[i].end[k] # "new"
      BY <2>7, <2>8 DEF PairInv, HeldIsUp
  <2>12. ClosedFor(links', made) /\ OneHeld(links', made) /\ HeldIsUp(links', made)
      BY Zenon, <2>5, <2>6, <2>10, <2>11 DEF ClosedFor, OneHeld, HeldIsUp
  <2> QED  BY Zenon, <2>1, <2>2, <2>9, <2>12 DEF PairInv
    \* A node that holds the connection "low" dialed changes it for the other one.
<1>SwapKeeps.
    ASSUME PairInv, NEW id \in 1 .. made, NEW held \in 1 .. made, NEW n \in Nodes,
           links[id].dialer = "high", links[held].dialer = "low",
           links[id].end[n] = "waiting", links[held].end[n] = "held",
           \A m \in Nodes \ {n} : links[id].end[m] \in {"waiting", "held"},
           links' = SetEnd(SetEnd(links, id, n, "held"), held, n, "closed"), made' = made
    PROVE  PairInv'
  <2> USE <1>SwapKeeps
  <2> DEFINE kept == SetEnd(links, id, n, "held")
  <2>1. DOMAIN links = 1 .. made /\ made \in 0 .. 2 /\ \A i \in DOMAIN links : links[i] \in LinkType
      BY Zenon DEF PairInv
  <2>2. "held" \in Stages /\ "closed" \in Stages
      BY Zenon DEF Stages
  <2>3. Moved(links, kept, id, n, "held")
      BY Zenon, <2>1, <2>2, <1>SetEndMoves
  <2>4. Moved(kept, links', held, n, "closed")
      <3>1. DOMAIN kept = DOMAIN links /\ \A i \in DOMAIN kept : kept[i] \in LinkType
          BY Zenon, <2>3 DEF Moved
      <3> HIDE DEF kept
      <3>2. Moved(kept, SetEnd(kept, held, n, "closed"), held, n, "closed")
          BY Zenon, <2>1, <2>2, <3>1, <1>SetEndMoves
      <3>3. links' = SetEnd(kept, held, n, "closed")
          BY Zenon DEF kept
      <3> QED  BY Zenon, <3>2, <3>3
  <2> HIDE DEF kept
  <2>5. DOMAIN links' = 1 .. made /\ DOMAIN kept = 1 .. made
      BY Zenon, <2>1, <2>3, <2>4 DEF Moved
  <2>6. \A i \in 1 .. made : links'[i] \in LinkType /\ links'[i].dialer = links[i].dialer
      BY Zenon, <2>1, <2>3, <2>4, <2>5 DEF Moved
  <2>7. id # held
      BY Zenon
  <2>8. links'[id].end[n] = "held" /\ links'[held].end[n] = "closed"
      BY ZenonT(30), <2>1, <2>3, <2>4, <2>5, <2>7 DEF Moved
  <2>9. \A i \in 1 .. made, m \in Nodes :
          ~(m = n /\ i \in {id, held}) => links'[i].end[m] = links[i].end[m]
      BY <2>1, <2>3, <2>4, <2>5 DEF Moved
  <2>10. \A m \in Nodes : links'[id].end[m] \in {"waiting", "held"}
      BY Zenon, <2>8, <2>9
  <2>11. \A i \in 1 .. made, m \in Nodes : links'[i].end[m] = "closed" => links'[i].dialer = "low"
      BY <2>6, <2>8, <2>9 DEF PairInv, ClosedFor
  <2>12. ASSUME NEW i \in 1 .. made, NEW j \in 1 .. made, NEW m \in Nodes,
                links'[i].end[m] = "held", links'[j].end[m] = "held"
         PROVE  i = j
      <3>1. CASE m = n
          <4>1. \A o \in 1 .. made : links'[o].end[n] = "held" => o = id
              BY <2>8, <2>9 DEF PairInv, OneHeld
          <4> QED  BY Zenon, <2>12, <3>1, <4>1
      <3>2. CASE m # n
          BY <2>9, <2>12, <3>2 DEF PairInv, OneHeld
      <3> QED  BY Zenon, <3>1, <3>2
  <2>13. ASSUME NEW i \in 1 .. made, NEW m \in Nodes, NEW k \in Nodes, links'[i].end[m] = "held"
         PROVE  links'[i].end[k] # "new"
      <3>1. CASE i = id
          BY Zenon, <2>10, <3>1
      <3>2. CASE i # id
          <4>1. links[i].end[m] = "held"
              BY Zenon, <2>8, <2>9, <2>13, <3>2
          <4>2. links[i].end[k] # "new"
              BY Zenon, <4>1 DEF PairInv, HeldIsUp
          <4> QED  BY Zenon, <2>8, <2>9, <3>2, <4>2
      <3> QED  BY Zenon, <3>1, <3>2
  <2>14. made' = 2 => links'[1].dialer # links'[2].dialer
      BY <2>6 DEF PairInv
  <2>15. ClosedFor(links', made)
      <3>1. links'[id].dialer = "high"
          BY Zenon, <2>6
      <3> QED  BY Zenon, <2>10, <2>11, <3>1 DEF ClosedFor
  <2>16. OneHeld(links', made) /\ HeldIsUp(links', made)
      BY Zenon, <2>12, <2>13 DEF OneHeld, HeldIsUp
  <2> QED  BY Zenon, <2>1, <2>5, <2>6, <2>14, <2>15, <2>16 DEF PairInv
<1>EstablishKeeps.
    ASSUME PairInv, NEW n \in Nodes, NEW id \in DOMAIN links, Establish(n, id)
    PROVE  PairInv'
  <2> USE <1>EstablishKeeps
  <2>1. id \in 1 .. made /\ \A i \in DOMAIN links : links[i] \in LinkType
      BY Zenon DEF PairInv
  <2>2. ~ \E other \in At(n, {"waiting", "held"}) : Direction(other, n) = Direction(id, n)
      <3> SUFFICES ASSUME NEW other \in DOMAIN links, links[other].end[n] \in {"waiting", "held"},
                          Direction(other, n) = Direction(id, n)
                   PROVE  FALSE
          BY Zenon DEF At
      <3>1. other # id /\ other \in 1 .. made
          BY Zenon, <1>PairFacts DEF Establish
      <3> QED  BY Zenon, <2>1, <3>1, <1>PairFacts
  <2>3. links' = SetEnd(links, id, n, "waiting") /\ made' = made /\ links[id].end[n] = "new"
      BY Zenon, <2>2 DEF Establish
  <2>4. "waiting" \in Stages
      BY Zenon DEF Stages
  <2>5. Moved(links, links', id, n, "waiting")
      BY Zenon, <2>1, <2>3, <2>4, <1>SetEndMoves
  <2> QED  BY Zenon, <2>1, <2>3, <2>5, <1>MoveKeeps
<1>ReportKeeps.
    ASSUME PairInv, NEW n \in Nodes, NEW id \in DOMAIN links, Report(n, id)
    PROVE  PairInv'
  <2> USE <1>ReportKeeps
  <2>1. id \in 1 .. made /\ DOMAIN links = 1 .. made /\ \A i \in DOMAIN links : links[i] \in LinkType
      BY Zenon DEF PairInv
  <2>2. /\ links[id].end[n] = "waiting" /\ made' = made
        /\ \A m \in Nodes \ {n} : links[id].end[m] \in {"waiting", "held"}
      BY Zenon DEF Report, Nodes, Other
  <2>3. "held" \in Stages /\ "closed" \in Stages
      BY Zenon DEF Stages
  <2>4. CASE At(n, {"held"}) = {}
      <3>1. links' = SetEnd(links, id, n, "held")
          BY Zenon, <2>4 DEF Report
      <3>2. Moved(links, links', id, n, "held")
          BY Zenon, <2>1, <2>3, <3>1, <1>SetEndMoves
      <3>3. \A o \in 1 .. made : links[o].end[n] # "held"
          BY Zenon, <2>1, <2>4 DEF At
      <3> QED  BY Zenon, <2>1, <2>2, <3>2, <3>3, <1>MoveKeeps
  <2>5. CASE At(n, {"held"}) # {}
      <3> DEFINE held == CHOOSE other \in At(n, {"held"}) : TRUE
      <3>1. held \in At(n, {"held"})
          BY Zenon, <2>5
      <3>2. links' = IF Direction(held, n) # Direction(id, n) /\ CloseHeld(n, Direction(held, n))
                     THEN SetEnd(SetEnd(links, id, n, "held"), held, n, "closed")
                     ELSE SetEnd(links, id, n, "closed")
          BY Zenon, <2>5 DEF Report
      <3> HIDE DEF held
      <3>3. held \in 1 .. made /\ links[held].end[n] = "held" /\ held # id
          BY Zenon, <2>1, <2>2, <3>1 DEF At
      <3>4. /\ Direction(held, n) # Direction(id, n) /\ links[held].dialer # links[id].dialer
            /\ links[held].dialer \in Nodes /\ links[id].dialer \in Nodes
          BY Zenon, <2>1, <3>3, <1>PairFacts
      <3>5. CASE CloseHeld(n, Direction(held, n))
          <4>1. links[held].dialer = "low" /\ links[id].dialer = "high"
              BY Zenon, <3>4, <3>5 DEF CloseHeld, Direction, Nodes
          <4>2. links' = SetEnd(SetEnd(links, id, n, "held"), held, n, "closed")
              BY Zenon, <3>2, <3>4, <3>5
          <4> QED  BY Zenon, <2>1, <2>2, <3>3, <4>1, <4>2, <1>SwapKeeps
      <3>6. CASE ~CloseHeld(n, Direction(held, n))
          <4>1. links[held].dialer = "high" /\ links[id].dialer = "low"
              BY Zenon, <3>4, <3>6 DEF CloseHeld, Direction, Nodes
          <4>2. links' = SetEnd(links, id, n, "closed")
              BY Zenon, <3>2, <3>6
          <4>3. Moved(links, links', id, n, "closed")
              BY Zenon, <2>1, <2>3, <4>2, <1>SetEndMoves
          <4>4. \A m \in Nodes : links[held].end[m] \in {"waiting", "held"}
              <5>1. \A m \in Nodes : links[held].end[m] \in Stages
                  BY Zenon, <3>3, <1>PairFacts
              <5>2. \A m \in Nodes : links[held].end[m] # "closed" /\ links[held].end[m] # "new"
                  BY Zenon, <3>3, <4>1 DEF PairInv, ClosedFor, HeldIsUp
              <5> QED  BY Zenon, <5>1, <5>2 DEF Stages
          <4> QED  BY Zenon, <2>1, <2>2, <3>3, <4>1, <4>3, <4>4, <1>CloseKeeps
      <3> QED  BY Zenon, <3>5, <3>6
  <2> QED  BY Zenon, <2>4, <2>5
<1>GoneKeeps.
    ASSUME PairInv, NEW n \in Nodes, NEW id \in DOMAIN links, Gone(n, id)
    PROVE  PairInv'
  <2> USE <1>GoneKeeps
  <2>1. id \in 1 .. made /\ \A i \in DOMAIN links : links[i] \in LinkType
      BY Zenon DEF PairInv
  <2>2. links' = SetEnd(links, id, n, "closed") /\ made' = made /\ "closed" \in Stages
      BY Zenon DEF Gone, Stages
  <2>3. Moved(links, links', id, n, "closed")
      BY Zenon, <2>1, <2>2, <1>SetEndMoves
  <2>4. Other(n) \in Nodes /\ links[id].end[Other(n)] = "closed"
      BY Zenon DEF Gone, Other, Nodes
  <2>5. /\ links[id].dialer = "low"
        /\ \E o \in 1 .. made : /\ links[o].dialer = "high"
                                /\ \A m \in Nodes : links[o].end[m] \in {"waiting", "held"}
      BY Zenon, <2>1, <2>4 DEF PairInv, ClosedFor
  <2> QED  BY ZenonT(30), <2>1, <2>2, <2>3, <2>5, <1>CloseKeeps
<1>SettledHoldOne.
    ASSUME PairInv, Resolved, made > 0
    PROVE  \E id \in 1 .. made : At("low", {"held"}) = {id}
  <2> USE <1>SettledHoldOne
  <2>1. DOMAIN links = 1 .. made /\ 1 \in 1 .. made /\ "low" \in Nodes
      BY DEF PairInv, Nodes
  <2>2. \E id \in 1 .. made : links[id].end["low"] = "held"
      <3>1. CASE links[1].end["low"] = "held"
          BY Zenon, <2>1, <3>1
      <3>2. CASE links[1].end["low"] # "held"
          <4>1. links[1].end["low"] = "closed"
              BY Zenon, <2>1, <3>2 DEF Resolved
          <4>2. PICK o \in 1 .. made : \A m \in Nodes : links[o].end[m] \in {"waiting", "held"}
              BY Zenon, <2>1, <4>1 DEF PairInv, ClosedFor
          <4> QED  BY Zenon, <2>1, <4>2 DEF Resolved
      <3> QED  BY Zenon, <3>1, <3>2
  <2>3. PICK id \in 1 .. made : links[id].end["low"] = "held"
      BY Zenon, <2>2
  <2>4. At("low", {"held"}) = {id}
      BY Zenon, <2>1, <2>3 DEF At, PairInv, OneHeld
  <2> QED  BY Zenon, <2>4
<1>1. PairInit => PairInv
    <2> SUFFICES ASSUME PairInit PROVE PairInv
        BY Zenon
    <2>1. made = 0 /\ links = <<>> /\ 1 .. made = {} /\ made \in 0 .. 2 /\ made # 2
        BY DEF PairInit
    <2>2. DOMAIN links = {}
        BY <2>1
    <2> QED  BY Zenon, <2>1, <2>2 DEF PairInv, ClosedFor, OneHeld, HeldIsUp
<1>2. PairInv /\ [PairNext]_pairVars => PairInv'
    <2> SUFFICES ASSUME PairInv, [PairNext]_pairVars PROVE PairInv'
        BY Zenon
    <2>1. CASE UNCHANGED pairVars
        BY Zenon, <2>1 DEF PairInv, pairVars
    <2>2. ASSUME NEW n \in Nodes, DialOther(n) PROVE PairInv'
        BY Zenon, <2>2, <1>DialKeeps
    <2>3. ASSUME NEW n \in Nodes, NEW id \in DOMAIN links,
                 Establish(n, id) \/ Report(n, id) \/ Gone(n, id)
          PROVE  PairInv'
        BY Zenon, <2>3, <1>EstablishKeeps, <1>ReportKeeps, <1>GoneKeeps
    <2> QED  BY Zenon, <2>1, <2>2, <2>3 DEF PairNext
<1> QED  BY Zenon, <1>1, <1>2, <1>SettledHoldOne

\* PairKeepsOne: two nodes that dial each other, and resolve their two connections
\* each on its own, end with one, the same one, however often they dial and in
\* whatever order their handlers report.
THEOREM PairsKeepOne == PairSpec => []PairKeepsOne
<1>1. PairInv => PairKeepsOne
    <2> SUFFICES ASSUME PairInv, Resolved, made > 0 PROVE Cardinality(At("low", {"held"})) = 1
        BY DEF PairKeepsOne
    <2>1. PICK id \in 1 .. made : At("low", {"held"}) = {id}
        BY PairInvHolds
    <2> QED  BY <2>1, FS_Singleton
<1> QED  BY <1>1, PairInvHolds, PTL DEF PairSpec

-----------------------------------------------------------------------------
(* The provider's slots.                                                   *)

Reading(p) == {r \in Requests : server[r] = "reading" /\ protocol[r] = p}
Serving(p) ==
    {r \in Requests : server[r] = "serving" /\ kind[r] = "blocks" /\ protocol[r] = p}

Bounded(S) == IsFiniteSet(S) /\ Cardinality(S) <= MaxInbound

SlotsInv == \A p \in 0 .. SyncEras : Bounded(Reading(p)) /\ Bounded(Serving(p))

\* Steps that take no slot.
NoNewSlot(q) ==
    /\ server'[q] = "reading" => server[q] = "reading" /\ protocol'[q] = protocol[q]
    /\ server'[q] = "serving" /\ kind'[q] = "blocks" =>
         server[q] = "serving" /\ kind[q] = "blocks" /\ protocol'[q] = protocol[q]

\* A node never reads more than max_inbound_requests requests of a protocol, nor
\* serves more downloads of one, however many its peers open and whatever the
\* eras do meanwhile.
THEOREM SlotsAreBounded == SyncSpec => []InboundBounded
<1>BoundedSets.
    ASSUME NEW S, Bounded(S)
    PROVE  /\ \A T \in SUBSET S : Bounded(T)
           /\ \A x : Cardinality(S) < MaxInbound => Bounded(S \cup {x})
  <2> USE <1>BoundedSets
  <2>1. Cardinality(S) \in Nat /\ IsFiniteSet(S)
      BY Zenon, FS_CardinalityType DEF Bounded
  <2>2. ASSUME NEW T \in SUBSET S PROVE Bounded(T)
      <3>1. IsFiniteSet(T) /\ Cardinality(T) <= Cardinality(S) /\ Cardinality(T) \in Nat
          BY Zenon, <2>1, FS_Subset, FS_CardinalityType
      <3> QED  BY <2>1, <3>1, ChainSyncAssumption DEF Bounded
  <2>3. ASSUME NEW x, Cardinality(S) < MaxInbound PROVE Bounded(S \cup {x})
      <3>1. /\ IsFiniteSet(S \cup {x})
            /\ Cardinality(S \cup {x}) = Cardinality(S) \/ Cardinality(S \cup {x}) = Cardinality(S) + 1
          BY Zenon, <2>1, FS_AddElement
      <3> QED  BY <2>1, <2>3, <3>1, ChainSyncAssumption DEF Bounded
  <2> QED  BY Zenon, <2>2, <2>3
<1>NoNewSlotKeeps.
    ASSUME SlotsInv, \A q \in Requests : NoNewSlot(q)
    PROVE  SlotsInv'
  <2> USE <1>NoNewSlotKeeps
  <2>1. ASSUME NEW p \in 0 .. SyncEras PROVE Bounded(Reading(p)') /\ Bounded(Serving(p)')
      <3>1. Bounded(Reading(p)) /\ Bounded(Serving(p))
          BY Zenon DEF SlotsInv
      <3>2. Reading(p)' \subseteq Reading(p) /\ Serving(p)' \subseteq Serving(p)
          BY Zenon DEF NoNewSlot, Reading, Serving
      <3> QED  BY Zenon, <3>1, <3>2, <1>BoundedSets
  <2> QED  BY Zenon, <2>1 DEF SlotsInv, Bounded
    \* A slot is taken when there is one.
<1>AdmissionKeeps.
    ASSUME SyncTypeOK, SlotsInv, NEW r \in Requests, HandleIncomingStream(r) \/ OnRequestReceived(r)
    PROVE  SlotsInv'
  <2> USE <1>AdmissionKeeps
  <2>1. protocol' = protocol /\ kind' = kind
      BY Zenon DEF HandleIncomingStream, OnRequestReceived, fixed
  <2>2. protocol[r] \in 0 .. SyncEras /\ server \in [Requests -> {"none", "arriving", "reading",
          "serving", "closing", "over"}] /\ kind[r] \in {"none", "tip", "blocks", "oversized"}
      BY Zenon DEF SyncTypeOK
  <2>3. ASSUME HandleIncomingStream(r), NEW p \in 0 .. SyncEras
        PROVE  Bounded(Reading(p)') /\ Bounded(Serving(p)')
      <3>0. Bounded(Reading(p)) /\ Bounded(Serving(p))
          BY Zenon DEF SlotsInv
      <3>1. /\ server' = [server EXCEPT ![r] = IF Cardinality(Reading(protocol[r])) >= MaxInbound
                                               THEN "closing" ELSE "reading"]
            /\ server[r] = "arriving"
          BY Zenon, <2>3 DEF HandleIncomingStream, OnProtocol, Reading
      <3>2. Serving(p)' = Serving(p)
          BY Zenon, <2>1, <2>2, <3>1 DEF Serving
      <3>3. CASE protocol[r] = p /\ ~(Cardinality(Reading(p)) >= MaxInbound)
          <4>1. Reading(p)' = Reading(p) \cup {r}
              BY Zenon, <2>1, <2>2, <3>1, <3>3 DEF Reading
          <4>2. Cardinality(Reading(p)) < MaxInbound
              BY <3>0, <3>3, FS_CardinalityType, ChainSyncAssumption DEF Bounded
          <4> QED  BY Zenon, <3>0, <3>2, <4>1, <4>2, <1>BoundedSets
      <3>4. CASE ~(protocol[r] = p /\ ~(Cardinality(Reading(p)) >= MaxInbound))
          <4>1. Reading(p)' = Reading(p)
              BY Zenon, <2>1, <2>2, <3>1, <3>4 DEF Reading
          <4> QED  BY Zenon, <3>0, <3>2, <4>1
      <3> QED  BY Zenon, <3>3, <3>4
  <2>4. ASSUME OnRequestReceived(r), NEW p \in 0 .. SyncEras
        PROVE  Bounded(Reading(p)') /\ Bounded(Serving(p)')
      <3>0. Bounded(Reading(p)) /\ Bounded(Serving(p))
          BY Zenon DEF SlotsInv
      <3>1. /\ server' = [server EXCEPT ![r] = IF Admitted(r) THEN "serving" ELSE "closing"]
            /\ server[r] = "reading"
          BY Zenon, <2>4 DEF OnRequestReceived
      <3>2. Reading(p)' \subseteq Reading(p)
          BY Zenon, <2>1, <2>2, <3>1 DEF Reading
      <3>3. Admitted(r) /\ kind[r] = "blocks" => Cardinality(Serving(protocol[r])) < MaxInbound
          <4>1. {q \in OnProtocol(r, "serving") : kind[q] = "blocks"} = Serving(protocol[r])
              BY Zenon DEF OnProtocol, Serving
          <4> QED  BY Zenon, <4>1 DEF Admitted
      <3>4. CASE protocol[r] = p /\ Admitted(r) /\ kind[r] = "blocks"
          <4>1. Serving(p)' = Serving(p) \cup {r}
              BY Zenon, <2>1, <2>2, <3>1, <3>4 DEF Serving
          <4> QED  BY Zenon, <3>0, <3>2, <3>3, <3>4, <4>1, <1>BoundedSets
      <3>5. CASE ~(protocol[r] = p /\ Admitted(r) /\ kind[r] = "blocks")
          <4>1. Serving(p)' \subseteq Serving(p)
              BY Zenon, <2>1, <2>2, <3>1, <3>5 DEF Serving
          <4> QED  BY Zenon, <3>0, <3>2, <4>1, <1>BoundedSets
      <3> QED  BY Zenon, <3>4, <3>5
  <2> QED  BY Zenon, <2>3, <2>4 DEF SlotsInv, Bounded
<1>SlotsStep.
    ASSUME DownloadInv, SlotsInv, [SyncNext]_syncVars
    PROVE  SlotsInv'
  <2> USE <1>SlotsStep
  <2>0. SyncTypeOK
      BY Zenon DEF DownloadInv
  <2>1. CASE UNCHANGED syncVars
      <3>1. \A q \in Requests : NoNewSlot(q)
          BY Zenon, <2>1 DEF syncVars, NoNewSlot
      <3> QED  BY Zenon, <3>1, <1>NoNewSlotKeeps
  <2>2. ASSUME NEW r \in Requests, NEW k \in {"tip", "blocks", "oversized"}, Request(r, k)
        PROVE  SlotsInv'
      <3>1. server[r] = "none"
          BY Zenon, <2>2 DEF Request, DownloadInv, StagesOK
      <3>2. \A q \in Requests : NoNewSlot(q)
          BY Zenon, <2>0, <2>2, <3>1 DEF Request, NoNewSlot, SyncTypeOK
      <3> QED  BY Zenon, <3>2, <1>NoNewSlotKeeps
  <2>3. ASSUME NEW r \in Requests, RequesterStep(r) PROVE SlotsInv'
      <3>1. \A q \in Requests : NoNewSlot(q)
          <4>1. kind' = kind /\ protocol' = protocol
                /\ (server' = server \/ server' = [server EXCEPT ![r] = "arriving"])
              BY Zenon, <2>3 DEF RequesterStep, RequestSent, RequestNotSent, ReceiveTip, HandOverStream,
                          ReadBlocks, BlockTimeout, fixed
          <4> QED  BY Zenon, <2>0, <4>1 DEF NoNewSlot, SyncTypeOK
      <3> QED  BY Zenon, <3>1, <1>NoNewSlotKeeps
  <2>4. ASSUME NEW r \in Requests, ProviderStep(r),
               ~HandleIncomingStream(r), ~OnRequestReceived(r)
        PROVE  SlotsInv'
      <3>1. \A q \in Requests : NoNewSlot(q)
          <4>1. kind' = kind /\ protocol' = protocol
                /\ (server' = server \/ server' = [server EXCEPT ![r] = "over"])
              BY Zenon, <2>4 DEF ProviderStep, ReceiveRequestFails, CloseRejected, ProvideTip, SendBlock,
                          SendBlocksEnds, ProvideBlocksTimeout, fixed
          <4> QED  BY Zenon, <2>0, <4>1 DEF NoNewSlot, SyncTypeOK
      <3> QED  BY Zenon, <3>1, <1>NoNewSlotKeeps
  <2>5. ASSUME EraStep PROVE SlotsInv'
      <3>1. \A q \in Requests : NoNewSlot(q)
          <4>1. /\ kind' = kind /\ protocol' = protocol
                /\ server' = server \/ \E S : server' = [q \in Requests |->
                                                IF q \in S THEN "over" ELSE server[q]]
              BY Zenon, <2>5 DEF EraStep, ClientStartsNewEra, ClientFinishesTransition, ServerStartsNewEra,
                          ServerFinishesTransition, DropOldResponses
          <4> QED  BY Zenon, <4>1 DEF NoNewSlot
      <3> QED  BY Zenon, <3>1, <1>NoNewSlotKeeps
  <2> QED
      BY Zenon, <2>0, <2>1, <2>2, <2>3, <2>4, <2>5, <1>AdmissionKeeps DEF SyncNext, ProviderStep
<1>1. SyncInit => SlotsInv
    <2> SUFFICES ASSUME SyncInit, NEW p \in 0 .. SyncEras
                 PROVE  Bounded(Reading(p)) /\ Bounded(Serving(p))
        BY Zenon DEF SlotsInv
    <2>1. Reading(p) = {} /\ Serving(p) = {}
        BY Zenon DEF SyncInit, Reading, Serving
    <2>2. Bounded({})
        BY FS_EmptySet, ChainSyncAssumption DEF Bounded
    <2> QED  BY Zenon, <2>1, <2>2
<1>2. SlotsInv => InboundBounded
    <2> SUFFICES ASSUME SlotsInv, NEW p \in 1 .. SyncEras
                 PROVE  /\ Cardinality(Reading(p)) <= MaxInbound
                        /\ Cardinality(Serving(p)) <= MaxInbound
        BY Zenon DEF InboundBounded, Reading, Serving
    <2>1. p \in 0 .. SyncEras
        BY ChainSyncAssumption
    <2> QED  BY Zenon, <2>1 DEF SlotsInv, Bounded
<1> QED
    BY <1>1, <1>2, DownloadInvHolds, <1>SlotsStep, PTL DEF SyncSpec

-----------------------------------------------------------------------------
(* The channels: quotients and remainders, and whose turn it is.           *)

\* The rotation that began at anchor, in a slot: its period and when that began.
Period(slot, anchor, period) == (slot - anchor) \div period

InPeriod(n, slot, anchor, period) ==
    /\ n \in Nat /\ SatSub(slot, anchor) = slot - anchor
    /\ n * period \in Nat
    /\ anchor + n * period <= slot /\ slot < anchor + n * period + period
    /\ anchor + (n + 1) * period = anchor + n * period + period

ChannelStates ==
    [accredited_keys : Seq(Keys), configuration_threshold : Nat, transfer_threshold : Nat,
     tip_message : Nat, config_tip_hash : Nat, tip_slot : Nat, tip_sequencer : Nat,
     tip_sequencer_starting_slot : Nat, posting_timeframe : Nat, posting_timeout : Nat]

\* A channel some key of which may write, and whose rotation began by the slot.
ChannelOK(c, now) ==
    /\ c \in ChannelStates
    /\ Len(c.accredited_keys) \in Nat \ {0}
    /\ c.configuration_threshold <= Len(c.accredited_keys)
    /\ c.tip_sequencer < Len(c.accredited_keys)
    /\ c.tip_slot <= now /\ c.tip_sequencer_starting_slot <= now

ChannelInv ==
    /\ block_slot \in Nat
    /\ \A id \in DOMAIN channels : ChannelOK(channels[id], block_slot)

\* What a step may do to the channel id: leave it, inscribe it or configure it.
StepOf(id) ==
    \/ channels'[id] = channels[id]
    \/ block_slot' = block_slot /\ channels'[id] = Inscribed(channels[id])
    \/ channels'[id].tip_message = channels[id].tip_message

TurnKept(id) ==
    LET c == channels[id]
        d == channels'[id]
        Same(slot) == RoundRobin(d, slot).index = RoundRobin(c, slot).index
    IN  d.tip_message > c.tip_message =>
          /\ c.posting_timeframe = 0 \/ c.posting_timeframe >= c.posting_timeout
              => Same(block_slot)
          /\ c.posting_timeout = 0
              => \A slot \in block_slot .. MaxBlockSlot : Same(slot)

\* The turn is a key's, and no more keys are asked for than there are.
TurnIsAKeys ==
    \A id \in DOMAIN channels :
        LET c == channels[id]
        IN  /\ \A slot \in block_slot .. MaxBlockSlot :
                    RoundRobin(c, slot).index + 1 \in DOMAIN c.accredited_keys
            /\ \E n \in Nat : DOMAIN c.accredited_keys = 1 .. n /\ c.configuration_threshold \in 0 .. n

\* The steps of a channel keep the invariant and the turn.
LEMMA ChannelInvHolds ==
    /\ ChannelsInit => ChannelInv
    /\ ChannelInv /\ [ChannelsNext]_channelVars => ChannelInv'
    /\ ChannelInv => TurnIsAKeys /\ BoundaryIsNext
    /\ ChannelInv /\ [ChannelsNext]_channelVars => \A id \in DOMAIN channels : TurnKept(id)
<1>QuotientIsUnique.
    ASSUME NEW a \in Nat, NEW p \in Nat \ {0}, NEW n \in Nat, n * p <= a, a < n * p + p
    PROVE  a \div p = n
  <2> USE <1>QuotientIsUnique
  <2>1. PICK q \in Nat : q = a \div p /\ q * p <= a /\ a < q * p + p
      BY Zenon, Quotient
  <2>2. /\ q * p \in Nat /\ n * p \in Nat /\ (q + 1) * p = q * p + p /\ (n + 1) * p = n * p + p
        /\ q + 1 \in Nat /\ n + 1 \in Nat
      OBVIOUS
  <2>3. q * p < (n + 1) * p /\ n * p < (q + 1) * p
      BY <2>1, <2>2
  <2>4. q < n + 1
      BY Zenon, <2>2, <2>3, ProductCancels
  <2>5. n < q + 1
      BY Zenon, <2>2, <2>3, ProductCancels
  <2> QED  BY <2>1, <2>4, <2>5
<1>Remainder.
    ASSUME NEW a \in Nat, NEW p \in Nat \ {0}
    PROVE  a % p \in Nat /\ a % p < p /\ a = (a \div p) * p + (a % p) /\ a \div p \in Nat
    BY <1>Remainder
<1>RemainderIsUnique.
    ASSUME NEW a \in Nat, NEW p \in Nat \ {0}, NEW n \in Nat, NEW r \in Nat, a = n * p + r, r < p
    PROVE  a % p = r
  <2> USE <1>RemainderIsUnique
  <2>1. n * p \in Nat
      OBVIOUS
  <2>2. a \div p = n
      BY <2>1, <1>QuotientIsUnique
  <2>3. a = (a \div p) * p + (a % p) /\ a % p \in Nat
      BY Zenon, <1>Remainder
  <2> QED  BY <2>1, <2>2, <2>3
    \* Taking the remainder first changes no sum modulo p.
<1>RemainderOfSum.
    ASSUME NEW a \in Nat, NEW b \in Nat, NEW p \in Nat \ {0}
    PROVE  ((a % p) + b) % p = (a + b) % p
  <2> USE <1>RemainderOfSum
  <2>1. PICK k \in Nat, r \in Nat : k = a \div p /\ r = a % p /\ a = k * p + r
      BY Zenon, <1>Remainder
  <2>2. r + b \in Nat
      OBVIOUS
  <2>3. PICK m \in Nat, s \in Nat : s = (r + b) % p /\ r + b = m * p + s /\ s < p
      BY Zenon, <2>2, <1>Remainder
  <2>4. k * p \in Nat /\ m * p \in Nat /\ (k + m) * p = k * p + m * p /\ k + m \in Nat /\ a + b \in Nat
      OBVIOUS
  <2>5. a + b = (k + m) * p + s
      BY <2>1, <2>3, <2>4
  <2>6. (a + b) % p = s
      BY Zenon, <2>3, <2>4, <2>5, <1>RemainderIsUnique
  <2> QED  BY Zenon, <2>1, <2>3, <2>6
<1>RemainderOfSmall.
    ASSUME NEW a \in Nat, NEW p \in Nat \ {0}, a < p
    PROVE  a % p = a
  <2> USE <1>RemainderOfSmall
  <2>1. a = 0 * p + a
      OBVIOUS
  <2> QED  BY Zenon, <2>1, <1>RemainderIsUnique
<1>PeriodFacts.
    ASSUME NEW anchor \in Nat, NEW slot \in Nat, anchor <= slot, NEW period \in Nat \ {0}
    PROVE  InPeriod(Period(slot, anchor, period), slot, anchor, period)
  <2> USE <1>PeriodFacts
  <2>1. PICK a \in Nat : a = slot - anchor
      OBVIOUS
  <2>2. PICK q \in Nat : q = a \div period /\ q * period <= a /\ a < q * period + period
      BY Zenon, Quotient
  <2>3. q * period \in Nat /\ (q + 1) * period = q * period + period
      OBVIOUS
  <2>4. SatSub(slot, anchor) = slot - anchor
      BY DEF SatSub
  <2>5. Period(slot, anchor, period) = q
      BY Zenon, <2>1, <2>2 DEF Period
  <2>6. anchor + q * period <= slot /\ slot < anchor + q * period + period
      BY <2>1, <2>2, <2>3
  <2>7. anchor + (q + 1) * period = anchor + q * period + period
      BY <2>3
  <2> QED  BY ZenonT(30), <2>3, <2>4, <2>5, <2>6, <2>7 DEF InPeriod
<1>PeriodIsUnique.
    ASSUME NEW anchor \in Nat, NEW slot \in Nat, NEW period \in Nat \ {0}, NEW n \in Nat,
           anchor + n * period <= slot, slot < anchor + n * period + period
    PROVE  Period(slot, anchor, period) = n
  <2> USE <1>PeriodIsUnique
  <2>1. n * period \in Nat
      OBVIOUS
  <2>2. PICK a \in Nat : a = slot - anchor
      BY <2>1
  <2>3. n * period <= a /\ a < n * period + period
      BY <2>1, <2>2
  <2>4. a \div period = n
      BY Zenon, <2>3, <1>QuotientIsUnique
  <2> QED  BY Zenon, <2>2, <2>4 DEF Period
    \* Whose turn it is, without the saturation that no reachable channel needs.
<1>TurnCases.
    ASSUME NEW now \in Nat, NEW c, ChannelOK(c, now), NEW slot \in Nat, now <= slot
    PROVE  LET n == Period(slot, c.tip_slot, c.posting_timeout)
               m == Period(slot, c.tip_sequencer_starting_slot, c.posting_timeframe)
               L == Len(c.accredited_keys)
           IN  /\ TimedOut(c, slot) <=> c.posting_timeout # 0 /\ slot >= c.tip_slot + c.posting_timeout
               /\ TimedOut(c, slot) =>
                    RoundRobin(c, slot) = [index |-> (c.tip_sequencer + n) % L,
                                           start |-> c.tip_slot + n * c.posting_timeout]
               /\ ~TimedOut(c, slot) /\ c.posting_timeframe # 0 =>
                    RoundRobin(c, slot) = [index |-> (c.tip_sequencer + m) % L,
                                           start |-> c.tip_sequencer_starting_slot + m * c.posting_timeframe]
               /\ ~TimedOut(c, slot) /\ c.posting_timeframe = 0 =>
                    RoundRobin(c, slot) = [index |-> c.tip_sequencer,
                                           start |-> c.tip_sequencer_starting_slot]
  <2> USE <1>TurnCases
  <2>1. /\ c.tip_slot \in Nat /\ c.tip_sequencer_starting_slot \in Nat /\ c.posting_timeout \in Nat
        /\ c.tip_slot <= slot /\ c.tip_sequencer_starting_slot <= slot
      BY DEF ChannelOK, ChannelStates
  <2>2. /\ SatSub(slot, c.tip_slot) = slot - c.tip_slot
        /\ SatSub(slot, c.tip_sequencer_starting_slot) = slot - c.tip_sequencer_starting_slot
      BY <2>1 DEF SatSub
  <2>3. TimedOut(c, slot) <=> c.posting_timeout # 0 /\ slot >= c.tip_slot + c.posting_timeout
      BY <2>1, <2>2 DEF TimedOut
  <2>4. TimedOut(c, slot) =>
          RoundRobin(c, slot) =
            [index |-> (c.tip_sequencer + Period(slot, c.tip_slot, c.posting_timeout)) % Len(c.accredited_keys),
             start |-> c.tip_slot + Period(slot, c.tip_slot, c.posting_timeout) * c.posting_timeout]
      BY Zenon, <2>2 DEF RoundRobin, Period
  <2>5. ~TimedOut(c, slot) /\ c.posting_timeframe # 0 =>
          RoundRobin(c, slot) =
            [index |-> (c.tip_sequencer + Period(slot, c.tip_sequencer_starting_slot, c.posting_timeframe))
                          % Len(c.accredited_keys),
             start |-> c.tip_sequencer_starting_slot
                          + Period(slot, c.tip_sequencer_starting_slot, c.posting_timeframe) * c.posting_timeframe]
      BY Zenon, <2>2 DEF RoundRobin, Period
  <2>6. ~TimedOut(c, slot) /\ c.posting_timeframe = 0 =>
          RoundRobin(c, slot) = [index |-> c.tip_sequencer, start |-> c.tip_sequencer_starting_slot]
      BY Zenon DEF RoundRobin
  <2> QED  BY Zenon, <2>3, <2>4, <2>5, <2>6
    \* The turn is that of a key there is, and began by the slot, less than its period ago.
<1>TurnFacts.
    ASSUME NEW now \in Nat, NEW c, ChannelOK(c, now), NEW slot \in Nat, now <= slot
    PROVE  LET turn == RoundRobin(c, slot)
           IN  /\ turn.index \in Nat /\ turn.index < Len(c.accredited_keys)
               /\ turn.start \in Nat /\ turn.start <= slot
               /\ TimedOut(c, slot) => slot < turn.start + c.posting_timeout
               /\ ~TimedOut(c, slot) /\ c.posting_timeframe # 0 => slot < turn.start + c.posting_timeframe
  <2> USE <1>TurnFacts
  <2> DEFINE turn == RoundRobin(c, slot)
             Good == /\ turn.index \in Nat /\ turn.index < Len(c.accredited_keys)
                     /\ turn.start \in Nat /\ turn.start <= slot
                     /\ TimedOut(c, slot) => slot < turn.start + c.posting_timeout
                     /\ ~TimedOut(c, slot) /\ c.posting_timeframe # 0 => slot < turn.start + c.posting_timeframe
  <2>0. PICK L \in Nat \ {0}, s \in Nat : L = Len(c.accredited_keys) /\ s = c.tip_sequencer /\ s < L
      BY Zenon DEF ChannelOK, ChannelStates
  <2>1. PICK tip \in Nat, st \in Nat, to \in Nat, tf \in Nat :
          /\ tip = c.tip_slot /\ st = c.tip_sequencer_starting_slot
          /\ to = c.posting_timeout /\ tf = c.posting_timeframe
          /\ tip <= slot /\ st <= slot
      BY SMTT(20) DEF ChannelOK, ChannelStates
  <2> HIDE DEF turn
  <2>2. ASSUME TimedOut(c, slot) PROVE Good
      <3>1. to # 0
          BY Zenon, <2>1, <2>2 DEF TimedOut
      <3>2. PICK n : n = Period(slot, tip, to) /\ InPeriod(n, slot, tip, to)
          <4>1. to \in Nat \ {0}
              BY Zenon, <3>1
          <4> QED  BY Zenon, <2>1, <4>1, <1>PeriodFacts
      <3>3. turn = [index |-> (s + n) % L, start |-> tip + n * to]
          BY ZenonT(30), <2>0, <2>1, <2>2, <3>2, <1>TurnCases DEF turn
      <3>4. PICK i \in Nat : i = (s + n) % L /\ i < L
          <4>1. s + n \in Nat
              BY <3>2 DEF InPeriod
          <4> QED  BY Zenon, <4>1, <1>Remainder
      <3>5. PICK start \in Nat : start = tip + n * to /\ start <= slot /\ slot < start + to
          BY <3>2 DEF InPeriod
      <3>6. turn.index = i /\ turn.start = start
          BY Zenon, <3>3, <3>4, <3>5
      <3> QED  BY Zenon, <2>0, <2>1, <2>2, <3>4, <3>5, <3>6
  <2>3. ASSUME ~TimedOut(c, slot) /\ tf # 0 PROVE Good
      <3>1. PICK n : n = Period(slot, st, tf) /\ InPeriod(n, slot, st, tf)
          <4>1. tf \in Nat \ {0}
              BY Zenon, <2>3
          <4> QED  BY Zenon, <2>1, <4>1, <1>PeriodFacts
      <3>2. turn = [index |-> (s + n) % L, start |-> st + n * tf]
          BY ZenonT(30), <2>0, <2>1, <2>3, <3>1, <1>TurnCases DEF turn
      <3>3. PICK i \in Nat : i = (s + n) % L /\ i < L
          <4>1. s + n \in Nat
              BY <3>1 DEF InPeriod
          <4> QED  BY Zenon, <4>1, <1>Remainder
      <3>4. PICK start \in Nat : start = st + n * tf /\ start <= slot /\ slot < start + tf
          BY <3>1 DEF InPeriod
      <3>5. turn.index = i /\ turn.start = start
          BY Zenon, <3>2, <3>3, <3>4
      <3> QED  BY ZenonT(30), <2>0, <2>1, <2>3, <3>3, <3>4, <3>5
  <2>4. ASSUME ~TimedOut(c, slot) /\ tf = 0 PROVE Good
      <3>1. turn = [index |-> s, start |-> st]
          BY Zenon, <2>0, <2>1, <2>4, <1>TurnCases DEF turn
      <3> QED  BY Zenon, <2>0, <2>1, <2>4, <3>1
  <2>5. Good
      <3> HIDE DEF Good
      <3> QED  BY ZenonT(30), <2>1, <2>2, <2>3, <2>4
  <2> QED  BY Zenon, <2>5 DEF turn
    \* A turn stays until the boundary.
<1>TurnStays.
    ASSUME NEW now \in Nat, NEW c, ChannelOK(c, now), NEW slot \in Nat, now <= slot,
           NEW later \in Nat, slot <= later,
           \A b \in NextRoundRobinBoundary(c, slot) : later < b
    PROVE  RoundRobin(c, later) = RoundRobin(c, slot)
  <2> USE <1>TurnStays
  <2>1. PICK tip \in Nat, st \in Nat, to \in Nat, tf \in Nat :
          /\ tip = c.tip_slot /\ st = c.tip_sequencer_starting_slot
          /\ to = c.posting_timeout /\ tf = c.posting_timeframe
          /\ tip <= slot /\ st <= slot /\ now <= later /\ tip <= later /\ st <= later
      BY DEF ChannelOK, ChannelStates
  <2> DEFINE by_timeout == NextOnGrid(tip, to, slot)
             by_timeframe == NextOnGrid(st, tf, slot)
             n == Period(slot, tip, to)
             m == Period(slot, st, tf)
  <2>2. to # 0 => /\ n \in Nat /\ n * to \in Nat /\ by_timeout = {tip + n * to + to}
                  /\ tip + n * to <= slot /\ slot < tip + n * to + to
      <3> SUFFICES ASSUME to # 0 PROVE /\ n \in Nat /\ n * to \in Nat /\ by_timeout = {tip + n * to + to}
                                       /\ tip + n * to <= slot /\ slot < tip + n * to + to
          BY Zenon
      <3>1. /\ n \in Nat /\ SatSub(slot, tip) = slot - tip /\ n * to \in Nat
            /\ tip + n * to <= slot /\ slot < tip + n * to + to
            /\ tip + (n + 1) * to = tip + n * to + to
          <4>1. to \in Nat \ {0}
              BY Zenon
          <4>2. PICK k : k = Period(slot, tip, to) /\ InPeriod(k, slot, tip, to)
              BY Zenon, <2>1, <4>1, <1>PeriodFacts
          <4> QED  BY Zenon, <4>2 DEF InPeriod
      <3>2. by_timeout = {tip + (n + 1) * to}
          BY Zenon, <3>1 DEF NextOnGrid, Period
      <3> QED  BY Zenon, <3>1, <3>2
  <2>3. tf # 0 => /\ m \in Nat /\ m * tf \in Nat /\ by_timeframe = {st + m * tf + tf}
                  /\ st + m * tf <= slot /\ slot < st + m * tf + tf
      <3> SUFFICES ASSUME tf # 0 PROVE /\ m \in Nat /\ m * tf \in Nat /\ by_timeframe = {st + m * tf + tf}
                                       /\ st + m * tf <= slot /\ slot < st + m * tf + tf
          BY Zenon
      <3>1. /\ m \in Nat /\ SatSub(slot, st) = slot - st /\ m * tf \in Nat
            /\ st + m * tf <= slot /\ slot < st + m * tf + tf
            /\ st + (m + 1) * tf = st + m * tf + tf
          <4>1. tf \in Nat \ {0}
              BY Zenon
          <4>2. PICK k : k = Period(slot, st, tf) /\ InPeriod(k, slot, st, tf)
              BY Zenon, <2>1, <4>1, <1>PeriodFacts
          <4> QED  BY Zenon, <4>2 DEF InPeriod
      <3>2. by_timeframe = {st + (m + 1) * tf}
          BY Zenon, <3>1 DEF NextOnGrid, Period
      <3> QED  BY Zenon, <3>1, <3>2
  <2>4. (to = 0 => by_timeout = {}) /\ (tf = 0 => by_timeframe = {})
      BY Zenon DEF NextOnGrid
  <2>5. NextRoundRobinBoundary(c, slot) =
          IF TimedOut(c, slot) THEN by_timeout
          ELSE IF by_timeout \cup by_timeframe = {} THEN {} ELSE {Earliest(by_timeout \cup by_timeframe)}
      BY Zenon, <2>1 DEF NextRoundRobinBoundary
  <2> HIDE DEF by_timeout, by_timeframe, n, m
  <2>6. CASE TimedOut(c, slot)
      <3>1. to # 0 /\ slot >= tip + to
          BY Zenon, <2>1, <2>6, <1>TurnCases
      <3>2. later < tip + n * to + to
          BY ZenonT(30), <2>2, <2>5, <2>6, <3>1
      <3>3. TimedOut(c, later)
          <4>1. later >= tip + to
              BY <2>1, <3>1
          <4> QED  BY ZenonT(30), <2>1, <3>1, <4>1, <1>TurnCases
      <3>4. Period(later, tip, to) = n
          <4>1. tip + n * to <= later
              BY <2>1, <2>2, <3>1
          <4> QED  BY ZenonT(30), <2>1, <2>2, <3>1, <3>2, <4>1, <1>PeriodIsUnique
      <3>5. RoundRobin(c, later) = [index |-> (c.tip_sequencer + n) % Len(c.accredited_keys),
                                    start |-> c.tip_slot + n * c.posting_timeout]
          BY Zenon, <2>1, <3>3, <3>4, <1>TurnCases
      <3>6. RoundRobin(c, slot) = [index |-> (c.tip_sequencer + n) % Len(c.accredited_keys),
                                   start |-> c.tip_slot + n * c.posting_timeout]
          BY Zenon, <2>1, <2>6, <1>TurnCases DEF n
      <3> QED  BY Zenon, <3>5, <3>6
  <2>7. CASE ~TimedOut(c, slot)
      <3> DEFINE both == by_timeout \cup by_timeframe
      <3>1. \A b \in both : later < b
          <4> SUFFICES ASSUME NEW b \in both PROVE later < b
              BY Zenon
          <4>1. \A x \in both : x \in Nat
              BY SMTT(20), <2>2, <2>3, <2>4
          <4>2. \E x \in both : \A y \in both : x <= y
              BY <2>2, <2>3, <2>4
          <4> HIDE DEF both
          <4>3. Earliest(both) \in both /\ Earliest(both) <= b
              BY Zenon, <4>2 DEF Earliest
          <4>4. later < Earliest(both)
              BY Zenon, <2>5, <2>7 DEF both
          <4> QED  BY <4>1, <4>3, <4>4
      <3>2. ~TimedOut(c, later)
          <4>1. CASE to = 0
              BY ZenonT(30), <2>1, <4>1 DEF TimedOut
          <4>2. CASE to # 0
              <5>1. slot < tip + to
                  BY <2>1, <2>7, <4>2, <1>TurnCases
              <5>2. n = 0
                  <6>1. tip + 0 * to <= slot /\ slot < tip + 0 * to + to
                      BY <2>1, <5>1
                  <6> QED  BY Zenon, <2>1, <4>2, <6>1, <1>PeriodIsUnique DEF n
              <5>3. later < tip + to
                  <6>1. n * to = 0
                      BY <5>2
                  <6>2. later < tip + n * to + to
                      BY Zenon, <2>2, <3>1, <4>2
                  <6> QED  BY <6>1, <6>2
              <5> QED  BY SMTT(20), <2>1, <5>3, <1>TurnCases
          <4> QED  BY Zenon, <4>1, <4>2
      <3>3. CASE tf = 0
          BY ZenonT(30), <2>1, <2>7, <3>2, <3>3, <1>TurnCases
      <3>4. CASE tf # 0
          <4>1. later < st + m * tf + tf
              BY Zenon, <2>3, <3>1, <3>4
          <4>2. Period(later, st, tf) = m
              <5>1. st + m * tf <= later
                  BY <2>1, <2>3, <3>4
              <5> QED  BY ZenonT(30), <2>1, <2>3, <3>4, <4>1, <5>1, <1>PeriodIsUnique
          <4>3. RoundRobin(c, later) = [index |-> (c.tip_sequencer + m) % Len(c.accredited_keys),
                                        start |-> st + m * tf]
              BY Zenon, <2>1, <3>2, <3>4, <4>2, <1>TurnCases
          <4>4. RoundRobin(c, slot) = [index |-> (c.tip_sequencer + m) % Len(c.accredited_keys),
                                       start |-> st + m * tf]
              BY Zenon, <2>1, <2>7, <3>4, <1>TurnCases DEF m
          <4> QED  BY Zenon, <4>3, <4>4
      <3> QED  BY Zenon, <3>3, <3>4
  <2> QED  BY ZenonT(30), <2>6, <2>7
    \* An inscription moves on to the turn it was written in, from its slot.
<1>InscribedFacts.
    ASSUME block_slot \in Nat, NEW c, ChannelOK(c, block_slot)
    PROVE  /\ ChannelOK(Inscribed(c), block_slot)
           /\ Inscribed(c).accredited_keys = c.accredited_keys
           /\ Inscribed(c).posting_timeframe = c.posting_timeframe
           /\ Inscribed(c).posting_timeout = c.posting_timeout
           /\ Inscribed(c).tip_slot = block_slot
           /\ Inscribed(c).tip_sequencer = RoundRobin(c, block_slot).index
           /\ Inscribed(c).tip_sequencer_starting_slot = RoundRobin(c, block_slot).start
  <2> USE <1>InscribedFacts
  <2>1. PICK i \in Nat, start \in Nat :
          /\ i = RoundRobin(c, block_slot).index /\ i < Len(c.accredited_keys)
          /\ start = RoundRobin(c, block_slot).start /\ start <= block_slot
      BY <1>TurnFacts
  <2>2. c \in ChannelStates
      BY Zenon DEF ChannelOK
  <2> DEFINE d == [c EXCEPT !.tip_message = c.tip_message + 1, !.tip_sequencer = i,
                            !.tip_sequencer_starting_slot = start, !.tip_slot = block_slot]
  <2>3. Inscribed(c) = d
      BY Zenon, <2>1, <2>2 DEF Inscribed, ChannelStates
  <2>4. /\ d \in ChannelStates
        /\ d.accredited_keys = c.accredited_keys
        /\ d.configuration_threshold = c.configuration_threshold
        /\ d.posting_timeframe = c.posting_timeframe
        /\ d.posting_timeout = c.posting_timeout
        /\ d.tip_slot = block_slot
        /\ d.tip_sequencer = i
        /\ d.tip_sequencer_starting_slot = start
      <3>1. c.tip_message + 1 \in Nat
          BY <2>2 DEF ChannelStates
      <3>2. d \in ChannelStates
          BY Zenon, <2>2, <3>1 DEF ChannelStates
      <3>3. /\ d.accredited_keys = c.accredited_keys
            /\ d.configuration_threshold = c.configuration_threshold
            /\ d.posting_timeframe = c.posting_timeframe
            /\ d.posting_timeout = c.posting_timeout
          BY Zenon, <2>2 DEF ChannelStates
      <3>4. d.tip_slot = block_slot /\ d.tip_sequencer = i /\ d.tip_sequencer_starting_slot = start
          BY Zenon, <2>2 DEF ChannelStates
      <3> QED  BY Zenon, <3>2, <3>3, <3>4
  <2> HIDE DEF d
  <2>5. ChannelOK(d, block_slot)
      BY <2>1, <2>4 DEF ChannelOK
  <2> QED  BY ZenonT(30), <2>1, <2>3, <2>4, <2>5
    \* The turn a writer used stays theirs for the slot, and the later ones where they were.
<1>InscribedKeepsTurn.
    ASSUME block_slot \in Nat, NEW c, ChannelOK(c, block_slot)
    PROVE  /\ c.posting_timeframe = 0 \/ c.posting_timeframe >= c.posting_timeout =>
                RoundRobin(Inscribed(c), block_slot).index = RoundRobin(c, block_slot).index
           /\ c.posting_timeout = 0 =>
                \A slot \in block_slot .. MaxBlockSlot :
                    RoundRobin(Inscribed(c), slot).index = RoundRobin(c, slot).index
  <2> USE <1>InscribedKeepsTurn
  <2>1. PICK i \in Nat, start \in Nat :
          /\ i = RoundRobin(c, block_slot).index /\ i < Len(c.accredited_keys)
          /\ start = RoundRobin(c, block_slot).start /\ start <= block_slot
          /\ TimedOut(c, block_slot) => block_slot < start + c.posting_timeout
          /\ ~TimedOut(c, block_slot) /\ c.posting_timeframe # 0 => block_slot < start + c.posting_timeframe
      BY <1>TurnFacts
  <2>2. PICK L \in Nat \ {0}, s \in Nat : L = Len(c.accredited_keys) /\ s = c.tip_sequencer
      BY Zenon DEF ChannelOK, ChannelStates
  <2>3. PICK st \in Nat, to \in Nat, tf \in Nat :
          /\ st = c.tip_sequencer_starting_slot /\ st <= block_slot
          /\ to = c.posting_timeout /\ tf = c.posting_timeframe
      BY Zenon DEF ChannelOK, ChannelStates
  <2>4. PICK d : d = Inscribed(c)
      BY Zenon
  <2>5. /\ ChannelOK(d, block_slot) /\ Len(d.accredited_keys) = L
        /\ d.posting_timeframe = tf /\ d.posting_timeout = to /\ d.tip_slot = block_slot
        /\ d.tip_sequencer = i /\ d.tip_sequencer_starting_slot = start
      BY ZenonT(30), <2>1, <2>2, <2>3, <2>4, <1>InscribedFacts
  <2>6. ASSUME tf = 0 \/ tf >= to PROVE RoundRobin(d, block_slot).index = i
      <3>1. ~TimedOut(d, block_slot)
          <4>1. ~(block_slot >= block_slot + to /\ to # 0)
              OBVIOUS
          <4> QED  BY <2>5, <4>1, <1>TurnCases
      <3>2. CASE tf = 0
          <4>1. RoundRobin(d, block_slot) = [index |-> i, start |-> start]
              BY <2>5, <3>1, <3>2, <1>TurnCases
          <4> QED  BY SMTT(20), <4>1
      <3>3. CASE tf # 0
          <4>1. block_slot < start + tf
              BY <2>1, <2>3, <2>6, <3>3
          <4>2. Period(block_slot, start, tf) = 0
              <5>1. start + 0 * tf <= block_slot /\ block_slot < start + 0 * tf + tf
                  BY SMTT(20), <2>1, <4>1
              <5> QED  BY ZenonT(30), <3>3, <5>1, <1>PeriodIsUnique
          <4>3. RoundRobin(d, block_slot).index = (i + 0) % L
              BY SMTT(20), <2>5, <3>1, <3>3, <4>2, <1>TurnCases
          <4>4. i % L = i /\ i + 0 = i
              BY <2>1, <2>2, <1>RemainderOfSmall
          <4> QED  BY Zenon, <4>3, <4>4
      <3> QED  BY ZenonT(30), <3>2, <3>3
  <2>7. ASSUME to = 0, NEW slot \in block_slot .. MaxBlockSlot
        PROVE  RoundRobin(d, slot).index = RoundRobin(c, slot).index
      <3>1. slot \in Nat /\ block_slot <= slot
          BY ChannelAssumption
      <3>2. ~TimedOut(c, slot) /\ ~TimedOut(d, slot) /\ ~TimedOut(c, block_slot)
          BY Zenon, <2>3, <2>5, <2>7 DEF TimedOut
      <3>3. CASE tf = 0
          <4>1. RoundRobin(d, slot) = [index |-> i, start |-> start]
              BY ZenonT(30), <2>5, <3>1, <3>2, <3>3, <1>TurnCases
          <4>2. RoundRobin(c, slot) = [index |-> s, start |-> st]
              BY ZenonT(30), <2>2, <2>3, <3>1, <3>2, <3>3, <1>TurnCases
          <4>3. RoundRobin(c, block_slot) = [index |-> s, start |-> st]
              BY ZenonT(30), <2>2, <2>3, <3>2, <3>3 DEF RoundRobin
          <4> QED  BY Zenon, <2>1, <4>1, <4>2, <4>3
      <3>4. CASE tf # 0
          <4>0. tf \in Nat \ {0}
              BY Zenon, <3>4
          <4>1. PICK n : n = Period(block_slot, st, tf) /\ InPeriod(n, block_slot, st, tf)
              BY ZenonT(30), <2>3, <4>0, <1>PeriodFacts
          <4>2. RoundRobin(c, block_slot) = [index |-> (s + n) % L, start |-> st + n * tf]
              BY SMTT(20), <2>2, <2>3, <3>2, <3>4, <4>1, <1>TurnCases
          <4>3. i = (s + n) % L /\ start = st + n * tf
              BY <2>1, <4>2
          <4>4. PICK m : m = Period(slot, start, tf) /\ InPeriod(m, slot, start, tf)
              <5>1. start <= slot
                  BY <2>1, <3>1
              <5> QED  BY ZenonT(30), <3>1, <4>0, <5>1, <1>PeriodFacts
          <4>5. n \in Nat /\ m \in Nat /\ (n + m) * tf = n * tf + m * tf /\ n + m \in Nat
              BY <4>1, <4>4 DEF InPeriod
          <4>6. Period(slot, st, tf) = n + m
              <5>1. st + (n + m) * tf <= slot /\ slot < st + (n + m) * tf + tf
                  BY <4>1, <4>3, <4>4, <4>5 DEF InPeriod
              <5> QED  BY ZenonT(30), <2>3, <3>1, <4>0, <4>5, <5>1, <1>PeriodIsUnique
          <4>7. RoundRobin(d, slot) = [index |-> (i + m) % L, start |-> start + m * tf]
              BY ZenonT(30), <2>5, <3>1, <3>2, <3>4, <4>4, <1>TurnCases
          <4>8. RoundRobin(c, slot) = [index |-> (s + (n + m)) % L, start |-> st + (n + m) * tf]
              BY ZenonT(30), <2>2, <2>3, <3>1, <3>2, <3>4, <4>6, <1>TurnCases
          <4>9. (((s + n) % L) + m) % L = ((s + n) + m) % L
              <5>1. s + n \in Nat
                  BY <4>5
              <5> QED  BY ZenonT(30), <4>5, <5>1, <1>RemainderOfSum
          <4>10. (s + n) + m = s + (n + m)
              BY <4>5
          <4> QED  BY <4>3, <4>7, <4>8, <4>9, <4>10
      <3> QED  BY Zenon, <3>3, <3>4
  <2> QED  BY ZenonT(30), <2>1, <2>3, <2>4, <2>6, <2>7
<1>NewChannelOK.
    ASSUME ChannelInv, NEW signer \in Keys
    PROVE  ChannelOK(NewChannel(signer), block_slot)
  <2> USE <1>NewChannelOK
  <2> DEFINE c == NewChannel(signer)
  <2>1. c \in ChannelStates
      BY DEF ChannelStates, NewChannel, ChannelInv
  <2>2. /\ Len(c.accredited_keys) = 1 /\ c.configuration_threshold = 1 /\ c.tip_sequencer = 0
        /\ c.tip_slot = block_slot /\ c.tip_sequencer_starting_slot = block_slot
      BY Zenon DEF NewChannel
  <2> QED  BY SMTT(20), <2>1, <2>2 DEF ChannelOK, ChannelInv
<1>InscribeKeeps.
    ASSUME ChannelInv, NEW id \in ChannelIds, NEW parent, NEW signer \in Keys,
           Inscribe(id, parent, signer)
    PROVE  ChannelInv' /\ \A i \in DOMAIN channels : StepOf(i)
  <2> USE <1>InscribeKeeps
  <2>1. PICK c : c = IF id \in DOMAIN channels THEN channels[id] ELSE NewChannel(signer)
      BY Zenon
  <2>2. channels' = With(channels, id, Inscribed(c)) /\ block_slot' = block_slot
      BY Zenon, <2>1 DEF Inscribe
  <2>3. ChannelOK(c, block_slot) /\ block_slot \in Nat
      BY Zenon, <2>1, <1>NewChannelOK DEF ChannelInv
  <2>4. ChannelOK(Inscribed(c), block_slot)
      BY Zenon, <2>3, <1>InscribedFacts
  <2>5. /\ DOMAIN channels' = DOMAIN channels \cup {id} /\ channels'[id] = Inscribed(c)
        /\ \A i \in DOMAIN channels \ {id} : channels'[i] = channels[i]
      BY Zenon, <2>2 DEF With
  <2>6. ChannelInv'
      <3>1. \A i \in DOMAIN channels' : ChannelOK(channels'[i], block_slot)
          BY Zenon, <2>4, <2>5 DEF ChannelInv
      <3> QED  BY Zenon, <2>2, <2>3, <3>1 DEF ChannelInv
  <2>7. \A i \in DOMAIN channels : StepOf(i)
      BY Zenon, <2>1, <2>2, <2>5 DEF StepOf
  <2> QED  BY Zenon, <2>6, <2>7
<1>ConfigureKeeps.
    ASSUME ChannelInv, NEW id \in ChannelIds, NEW parent, NEW signers, NEW config \in Configs,
           Configure(id, parent, signers, config)
    PROVE  ChannelInv' /\ \A i \in DOMAIN channels : StepOf(i)
  <2> USE <1>ConfigureKeeps
  <2> DEFINE fresh == [tip_message |-> 0, config_tip_hash |-> 0, tip_sequencer |-> 0]
  <2>1. PICK c : c = IF id \in DOMAIN channels THEN channels[id] ELSE fresh
      BY Zenon
  <2>2. /\ channels' = With(channels, id, Configured(c, config)) /\ block_slot' = block_slot
        /\ WellFormed(config)
      BY Zenon, <2>1 DEF Configure
  <2>3. block_slot \in Nat /\ c.tip_message \in Nat /\ c.config_tip_hash \in Nat
      <3>1. CASE id \in DOMAIN channels
          BY Zenon, <2>1, <3>1 DEF ChannelInv, ChannelOK, ChannelStates
      <3>2. CASE id \notin DOMAIN channels
          BY Zenon, <2>1, <3>2 DEF ChannelInv
      <3> QED  BY Zenon, <3>1, <3>2
  <2>4. /\ config.accredited_keys \in Seq(Keys) /\ config.configuration_threshold \in Nat \ {0}
        /\ config.transfer_threshold \in Nat \ {0}
        /\ config.posting_timeframe \in Nat /\ config.posting_timeout \in Nat
      BY ZenonT(30), ChannelAssumption
  <2> DEFINE d == Configured(c, config)
  <2>5. d \in ChannelStates
      BY <2>3, <2>4 DEF ChannelStates, Configured
  <2>6. /\ d.accredited_keys = config.accredited_keys
        /\ d.configuration_threshold = config.configuration_threshold
        /\ d.tip_message = c.tip_message /\ d.tip_sequencer = 0
        /\ d.tip_slot = block_slot /\ d.tip_sequencer_starting_slot = block_slot
      BY Zenon DEF Configured
  <2> HIDE DEF d
  <2>7. ChannelOK(d, block_slot)
      <3>1. PICK k \in Nat : k = Len(config.accredited_keys)
          BY <2>4
      <3>2. k \in Nat \ {0} /\ config.configuration_threshold <= k
          BY <2>2, <2>4, <3>1 DEF WellFormed
      <3> QED  BY <2>3, <2>5, <2>6, <3>1, <3>2 DEF ChannelOK
  <2>8. /\ DOMAIN channels' = DOMAIN channels \cup {id} /\ channels'[id] = d
        /\ \A i \in DOMAIN channels \ {id} : channels'[i] = channels[i]
      BY Zenon, <2>2 DEF With, d
  <2>9. ChannelInv'
      <3>1. \A i \in DOMAIN channels' : ChannelOK(channels'[i], block_slot)
          BY Zenon, <2>7, <2>8 DEF ChannelInv
      <3> QED  BY Zenon, <2>2, <2>3, <3>1 DEF ChannelInv
  <2>10. \A i \in DOMAIN channels : StepOf(i)
      BY Zenon, <2>1, <2>6, <2>8 DEF StepOf
  <2> QED  BY Zenon, <2>9, <2>10
<1>ChannelStep.
    ASSUME ChannelInv, [ChannelsNext]_channelVars
    PROVE  ChannelInv' /\ \A i \in DOMAIN channels : StepOf(i)
  <2> USE <1>ChannelStep
  <2>1. ASSUME NEW slot \in Slots, NextBlock(slot) PROVE ChannelInv' /\ \A i \in DOMAIN channels : StepOf(i)
      <3>1. slot \in Nat /\ block_slot < slot /\ block_slot' = slot /\ channels' = channels
          BY <2>1, ChannelAssumption DEF Slots, NextBlock, ChannelInv
      <3>2. \A i \in DOMAIN channels : ChannelOK(channels[i], slot)
          <4> SUFFICES ASSUME NEW i \in DOMAIN channels PROVE ChannelOK(channels[i], slot)
              BY Zenon
          <4>1. ChannelOK(channels[i], block_slot) /\ block_slot \in Nat
              BY Zenon DEF ChannelInv
          <4>2. /\ channels[i].tip_slot \in Nat /\ channels[i].tip_sequencer_starting_slot \in Nat
                /\ channels[i].tip_slot <= block_slot
                /\ channels[i].tip_sequencer_starting_slot <= block_slot
              BY Zenon, <4>1 DEF ChannelOK, ChannelStates
          <4>3. channels[i].tip_slot <= slot /\ channels[i].tip_sequencer_starting_slot <= slot
              BY <3>1, <4>1, <4>2
          <4> QED  BY Zenon, <4>1, <4>3 DEF ChannelOK
      <3>3. ChannelInv'
          BY Zenon, <3>1, <3>2 DEF ChannelInv
      <3> QED  BY Zenon, <3>1, <3>3 DEF StepOf
  <2>2. CASE UNCHANGED channelVars
      BY Zenon, <2>2 DEF channelVars, ChannelInv, StepOf
  <2> QED  BY Zenon, <2>1, <2>2, <1>InscribeKeeps, <1>ConfigureKeeps DEF ChannelsNext
<1>TurnsAreKeys.
    ASSUME ChannelInv
    PROVE  TurnIsAKeys
  <2> USE <1>TurnsAreKeys
  <2> SUFFICES ASSUME NEW id \in DOMAIN channels, NEW c, c = channels[id]
               PROVE  /\ \A slot \in block_slot .. MaxBlockSlot :
                              RoundRobin(c, slot).index + 1 \in DOMAIN c.accredited_keys
                      /\ \E n \in Nat : /\ DOMAIN c.accredited_keys = 1 .. n
                                        /\ c.configuration_threshold \in 0 .. n
      BY Zenon DEF TurnIsAKeys
  <2>1. ChannelOK(c, block_slot) /\ block_slot \in Nat
      BY Zenon DEF ChannelInv
  <2>2. PICK L \in Nat, k \in Nat : /\ L = Len(c.accredited_keys) /\ DOMAIN c.accredited_keys = 1 .. L
                                    /\ k = c.configuration_threshold /\ k <= L
      BY <2>1 DEF ChannelOK, ChannelStates
  <2>3. ASSUME NEW slot \in block_slot .. MaxBlockSlot
        PROVE  RoundRobin(c, slot).index + 1 \in DOMAIN c.accredited_keys
      <3>1. slot \in Nat /\ block_slot <= slot
          BY <2>1, ChannelAssumption
      <3>2. PICK i \in Nat : i = RoundRobin(c, slot).index /\ i < L
          BY Zenon, <2>1, <2>2, <3>1, <1>TurnFacts
      <3> QED  BY <2>2, <3>2
  <2>4. k \in 0 .. L
      BY <2>2
  <2> QED  BY Zenon, <2>2, <2>3, <2>4
<1>ChannelBoundaries.
    ASSUME ChannelInv
    PROVE  BoundaryIsNext
  <2> USE <1>ChannelBoundaries
  <2> SUFFICES ASSUME NEW id \in DOMAIN channels, NEW slot \in block_slot .. MaxBlockSlot,
                      NEW later \in slot .. MaxBlockSlot,
                      \A b \in NextRoundRobinBoundary(channels[id], slot) : later < b
               PROVE  RoundRobin(channels[id], later) = RoundRobin(channels[id], slot)
      BY Zenon DEF BoundaryIsNext
  <2>1. ChannelOK(channels[id], block_slot) /\ block_slot \in Nat
      BY Zenon DEF ChannelInv
  <2>2. slot \in Nat /\ block_slot <= slot /\ later \in Nat /\ slot <= later
      BY <2>1, ChannelAssumption
  <2> QED  BY <2>1, <2>2, <1>TurnStays
<1>TurnIsKept.
    ASSUME ChannelInv, [ChannelsNext]_channelVars, NEW id \in DOMAIN channels
    PROVE  TurnKept(id)
  <2> USE <1>TurnIsKept
  <2>1. ChannelOK(channels[id], block_slot) /\ block_slot \in Nat /\ channels[id].tip_message \in Nat
      BY Zenon DEF ChannelInv, ChannelOK, ChannelStates
  <2>2. StepOf(id)
      BY Zenon, <1>ChannelStep
  <2>3. CASE channels'[id] = channels[id] \/ channels'[id].tip_message = channels[id].tip_message
      BY <2>1, <2>3 DEF TurnKept
  <2>4. CASE channels'[id] = Inscribed(channels[id])
      BY Zenon, <2>1, <2>4, <1>InscribedKeepsTurn DEF TurnKept
  <2> QED  BY Zenon, <2>2, <2>3, <2>4 DEF StepOf
<1>1. ChannelsInit => ChannelInv
    BY DEF ChannelsInit, ChannelInv
<1>2. ChannelInv /\ [ChannelsNext]_channelVars => ChannelInv'
    BY Zenon, <1>ChannelStep
<1>3. ChannelInv => TurnIsAKeys /\ BoundaryIsNext
    BY Zenon, <1>TurnsAreKeys, <1>ChannelBoundaries
<1>4. ChannelInv /\ [ChannelsNext]_channelVars => \A id \in DOMAIN channels : TurnKept(id)
    BY Zenon, <1>TurnIsKept
<1> QED  BY Zenon, <1>1, <1>2, <1>3, <1>4

\* TurnsAreSound: in every slot to come, and for every configuration that
\* ChannelConfigOp::new accepts, the turn round_robin computes is a key's; it changes
\* hands no sooner than next_round_robin_boundary says; and inscribing loses no turn.
THEOREM TurnsStaySound == ChannelsSpec => TurnsAreSound
<1>1. ASSUME ChannelInv PROVE NoChannelIsStuck
    <2> SUFFICES ASSUME NEW id \in DOMAIN channels, NEW c, c = channels[id]
                 PROVE  \E signers \in SUBSET DOMAIN c.accredited_keys :
                            Cardinality(signers) = c.configuration_threshold
        BY <1>1, ChannelInvHolds DEF NoChannelIsStuck, TurnIsAKeys
    <2>1. PICK n \in Nat, k \in Nat : /\ DOMAIN c.accredited_keys = 1 .. n
                                      /\ c.configuration_threshold = k /\ k <= n
        BY <1>1, ChannelInvHolds DEF TurnIsAKeys
    <2>2. Cardinality(1 .. k) = k
        <3>1. 1 \in Int /\ k \in Int
            BY <2>1
        <3>2. Cardinality(1 .. k) = IF 1 > k THEN 0 ELSE k - 1 + 1
            BY Zenon, <3>1, FS_Interval
        <3> QED  BY <2>1, <3>2
    <2>3. 1 .. k \in SUBSET (1 .. n)
        BY SMTT(20), <2>1
    <2> QED  BY <2>1, <2>2, <2>3
<1>2. ChannelInv /\ [ChannelsNext]_channelVars =>
        [\A id \in DOMAIN channels :
          LET c == channels[id]
              d == channels'[id]
              Same(slot) == RoundRobin(d, slot).index = RoundRobin(c, slot).index
          IN  d.tip_message > c.tip_message =>
                /\ c.posting_timeframe = 0 \/ c.posting_timeframe >= c.posting_timeout
                    => Same(block_slot)
                /\ c.posting_timeout = 0
                    => \A slot \in block_slot .. MaxBlockSlot : Same(slot)]_channelVars
    BY ChannelInvHolds DEF TurnKept
<1> QED  BY <1>1, <1>2, ChannelInvHolds, PTL DEF ChannelsSpec, TurnsAreSound, PostingKeepsTheTurn

=============================================================================
