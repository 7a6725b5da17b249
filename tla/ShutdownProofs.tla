---------------------------- MODULE ShutdownProofs ----------------------------
(***************************************************************************)
(* Proofs about CameraPipeline in the program that Shutdown puts around    *)
(* it, for any number of buffers, any formats, any of the failures that    *)
(* the modules name (but no failing STREAMON and no pulled cable: Sink-    *)
(* FaultsAssumption) and a SIGINT at any point of the main thread.         *)
(***************************************************************************)
EXTENDS Shutdown, FiniteSetTheorems, TLAPS

-----------------------------------------------------------------------------
(* The parties that frames are with, each a queue *)

Parties == {"queued", "completed", "encoding", "sent", "read"}

Frames == [p \in Parties |->
             CASE p = "queued" -> camera.queued
               [] p = "completed" -> camera.completed
               [] p = "encoding" -> encoding
               [] p = "sent" -> sink.queued
               [] p = "read" -> sink.done]

\* No frame has two places, with one party or with two.
Apart(F) ==
  /\ \A p \in Parties : F[p] \in Seq(Nat)
  /\ \A p, q \in Parties : \A i \in 1 .. Len(F[p]), j \in 1 .. Len(F[q]) :
       F[p][i] = F[q][j] => p = q /\ i = j

\* Frames are lost from the front of a queue, or all of them.
LEMMA LostFacts ==
  ASSUME NEW F, NEW G, Apart(F),
         \A p \in Parties : \/ G[p] = F[p] \/ G[p] = << >>
                            \/ F[p] # << >> /\ G[p] = Tail(F[p])
  PROVE  Apart(G)
<1>1. ASSUME NEW p \in Parties PROVE G[p] \in Seq(Nat)
  <2>1. F[p] \in Seq(Nat)
    BY DEF Apart
  <2>2. << >> \in Seq(Nat)
    OBVIOUS
  <2>3. F[p] # << >> => Tail(F[p]) \in Seq(Nat)
    BY <2>1
  <2> QED  BY <2>1, <2>2, <2>3
<1>2. ASSUME NEW p \in Parties
      PROVE  \E d \in Nat : \A i \in 1 .. Len(G[p]) :
               i + d \in 1 .. Len(F[p]) /\ G[p][i] = F[p][i + d]
  <2>0. F[p] \in Seq(Nat)
    BY DEF Apart
  <2>1. CASE G[p] = F[p]
    <3>1. \A i \in 1 .. Len(G[p]) : i + 0 \in 1 .. Len(F[p]) /\ G[p][i] = F[p][i + 0]
      BY <2>0, <2>1
    <3> QED  BY <3>1
  <2>2. CASE G[p] = << >>
    BY <2>2
  <2>3. CASE F[p] # << >> /\ G[p] = Tail(F[p])
    <3>1. \A i \in 1 .. Len(G[p]) : i + 1 \in 1 .. Len(F[p]) /\ G[p][i] = F[p][i + 1]
      BY <2>0, <2>3
    <3> QED  BY <3>1
  <2> QED  BY <2>1, <2>2, <2>3
<1>0. ASSUME NEW p \in Parties, NEW q \in Parties,
             NEW k \in 1 .. Len(F[p]), NEW m \in 1 .. Len(F[q]), F[p][k] = F[q][m]
      PROVE  p = q /\ k = m
  BY <1>0 DEF Apart
<1>3. ASSUME NEW p \in Parties, NEW q \in Parties,
             NEW i \in 1 .. Len(G[p]), NEW j \in 1 .. Len(G[q]), G[p][i] = G[q][j]
      PROVE  p = q /\ i = j
  <2>1. PICK d \in Nat : \A k \in 1 .. Len(G[p]) : k + d \in 1 .. Len(F[p]) /\ G[p][k] = F[p][k + d]
    BY <1>2
  <2>2. PICK e \in Nat : \A k \in 1 .. Len(G[q]) : k + e \in 1 .. Len(F[q]) /\ G[q][k] = F[q][k + e]
    BY <1>2
  <2>3. F[p][i + d] = F[q][j + e] /\ i + d \in 1 .. Len(F[p]) /\ j + e \in 1 .. Len(F[q])
    BY <1>3, <2>1, <2>2
  <2>4. p = q
    BY <2>3, <1>0, Zenon
  <2>5. G[p][j] = G[p][i] /\ j \in 1 .. Len(G[p])
    BY <1>3, <2>4
  <2>6. F[p][i + d] = F[p][j + d] /\ j + d \in 1 .. Len(F[p])
    BY <2>1, <2>5
  <2>7. i + d = j + d
    BY <2>3, <2>6, <1>0
  <2>8. i \in Int /\ j \in Int
    BY <1>1
  <2> QED  BY <2>4, <2>7, <2>8
<1> QED  BY <1>1, <1>3 DEF Apart

\* Where frame i of party p was before the first frame of a went to b.
Origin(F, a, b, p, i, q, k) ==
  \/ p = a /\ q = a /\ k = i + 1
  \/ p = b /\ q = a /\ k = 1 /\ i = Len(F[b]) + 1
  \/ p # a /\ q = p /\ k = i /\ (p = b => i <= Len(F[b]))

\* The first frame of one party goes to the end of another's queue.
LEMMA MovedFacts ==
  ASSUME NEW F, NEW G, Apart(F), NEW a \in Parties, NEW b \in Parties, a # b, F[a] # << >>,
         G[a] = Tail(F[a]), G[b] = Append(F[b], Head(F[a])),
         \A p \in Parties \ {a, b} : G[p] = F[p]
  PROVE  Apart(G)
<1>0. F[a] \in Seq(Nat) /\ F[b] \in Seq(Nat)
  BY DEF Apart
<1>1. /\ Tail(F[a]) \in Seq(Nat) /\ Len(Tail(F[a])) = Len(F[a]) - 1 /\ Head(F[a]) = F[a][1]
      /\ Head(F[a]) \in Nat /\ Len(F[a]) \in Nat /\ 1 \in 1 .. Len(F[a])
      /\ \A i \in 1 .. Len(Tail(F[a])) : i + 1 \in 1 .. Len(F[a]) /\ Tail(F[a])[i] = F[a][i + 1]
  BY <1>0
<1>2. /\ G[b] \in Seq(Nat) /\ Len(G[b]) = Len(F[b]) + 1 /\ Len(F[b]) \in Nat
      /\ G[b][Len(F[b]) + 1] = F[a][1]
      /\ \A i \in 1 .. Len(F[b]) : G[b][i] = F[b][i]
  BY <1>0, <1>1
<1>3. ASSUME NEW p \in Parties PROVE G[p] \in Seq(Nat)
  <2>1. CASE p \in Parties \ {a, b}
    BY <2>1 DEF Apart
  <2> QED  BY <1>1, <1>2, <2>1
<1>4. ASSUME NEW p \in Parties, NEW i \in 1 .. Len(G[p])
      PROVE  \E q \in Parties : \E k \in 1 .. Len(F[q]) :
               G[p][i] = F[q][k] /\ Origin(F, a, b, p, i, q, k)
  <2>1. CASE p = a
    <3>1. i + 1 \in 1 .. Len(F[a]) /\ G[p][i] = F[a][i + 1]
      BY <1>1, <2>1
    <3> QED  BY <2>1, <3>1 DEF Origin
  <2>2. CASE p = b
    <3>1. i \in 1 .. Len(G[b])
      BY <2>2
    <3>2. i = Len(F[b]) + 1 \/ i \in 1 .. Len(F[b])
      BY <1>2, <3>1
    <3>3. CASE i = Len(F[b]) + 1
      <4>1. G[p][i] = F[a][1]
        BY <1>2, <2>2, <3>3
      <4> QED  BY <1>1, <2>2, <3>3, <4>1 DEF Origin
    <3>4. CASE i \in 1 .. Len(F[b])
      <4>1. G[p][i] = F[b][i] /\ i <= Len(F[b])
        BY <1>2, <2>2, <3>4
      <4> QED  BY <2>2, <3>4, <4>1 DEF Origin
    <3> QED  BY <3>2, <3>3, <3>4
  <2>3. CASE p \in Parties \ {a, b}
    BY <2>3 DEF Origin
  <2> QED  BY <2>1, <2>2, <2>3
<1>5. ASSUME NEW p \in Parties, NEW q \in Parties,
             NEW i \in 1 .. Len(G[p]), NEW j \in 1 .. Len(G[q]), G[p][i] = G[q][j]
      PROVE  p = q /\ i = j
  <2>1. PICK r \in Parties : \E k \in 1 .. Len(F[r]) :
               G[p][i] = F[r][k] /\ Origin(F, a, b, p, i, r, k)
    BY <1>4
  <2>2. PICK k \in 1 .. Len(F[r]) : G[p][i] = F[r][k] /\ Origin(F, a, b, p, i, r, k)
    BY <2>1
  <2>3. PICK s \in Parties : \E m \in 1 .. Len(F[s]) :
               G[q][j] = F[s][m] /\ Origin(F, a, b, q, j, s, m)
    BY <1>4
  <2>4. PICK m \in 1 .. Len(F[s]) : G[q][j] = F[s][m] /\ Origin(F, a, b, q, j, s, m)
    BY <2>3
  <2>5. r = s /\ k = m
    <3>1. F[r][k] = F[s][m]
      BY <1>5, <2>2, <2>4
    <3> QED  BY <3>1 DEF Apart
  <2>6. i \in Nat /\ j \in Nat /\ i >= 1 /\ j >= 1 /\ Len(F[b]) \in Nat
    BY <1>2, <1>3
  <2>7. Origin(F, a, b, p, i, r, k) /\ Origin(F, a, b, q, j, r, k)
    BY <2>2, <2>4, <2>5
  <2> QED  BY <2>6, <2>7 DEF Origin
<1> QED  BY <1>3, <1>5 DEF Apart

\* The camera starts: nobody has a frame and it gets all of them.
LEMMA FilledFacts ==
  ASSUME NEW G, NEW a \in Parties, NEW n \in Nat, G[a] = [k \in 1 .. n |-> k - 1],
         \A p \in Parties \ {a} : G[p] = << >>
  PROVE  Apart(G)
<1>1. ASSUME NEW p \in Parties PROVE G[p] \in Seq(Nat)
  <2>1. [k \in 1 .. n |-> k - 1] \in Seq(Nat) /\ << >> \in Seq(Nat)
    OBVIOUS
  <2> QED  BY <2>1
<1>2. ASSUME NEW p \in Parties, NEW i \in 1 .. Len(G[p])
      PROVE  p = a /\ i \in 1 .. n /\ G[p][i] = i - 1
  <2>1. CASE p = a
    <3>1. Len(G[a]) = n
      OBVIOUS
    <3> QED  BY <2>1, <3>1
  <2>2. CASE p # a
    BY <2>2
  <2> QED  BY <2>1, <2>2
<1>3. ASSUME NEW p \in Parties, NEW q \in Parties,
             NEW i \in 1 .. Len(G[p]), NEW j \in 1 .. Len(G[q]), G[p][i] = G[q][j]
      PROVE  p = q /\ i = j
  <2>1. p = a /\ i \in 1 .. n /\ G[p][i] = i - 1
    BY <1>2
  <2>2. q = a /\ j \in 1 .. n /\ G[q][j] = j - 1
    BY <1>2
  <2>3. i - 1 = j - 1
    BY <1>3, <2>1, <2>2
  <2> QED  BY <2>1, <2>2, <2>3
<1> QED  BY <1>1, <1>3 DEF Apart

-----------------------------------------------------------------------------
(* Counting the frames *)

Single(s) == s \in Seq(Nat) /\ \A i, j \in 1 .. Len(s) : s[i] = s[j] => i = j

\* Two queues without a common frame, one after the other.
LEMMA JoinFacts ==
  ASSUME NEW s, Single(s), NEW t, Single(t),
         \A i \in 1 .. Len(s), j \in 1 .. Len(t) : s[i] # t[j]
  PROVE  /\ Single(s \o t)
         /\ \A k \in 1 .. Len(s \o t) : \/ \E i \in 1 .. Len(s) : (s \o t)[k] = s[i]
                                        \/ \E j \in 1 .. Len(t) : (s \o t)[k] = t[j]
<1> DEFINE c == s \o t
<1>1. /\ c \in Seq(Nat) /\ Len(s) \in Nat /\ Len(t) \in Nat /\ Len(c) = Len(s) + Len(t)
      /\ s \in Seq(Nat) /\ t \in Seq(Nat)
  BY DEF Single
<1>2. ASSUME NEW k \in 1 .. Len(c)
      PROVE  \/ k \in 1 .. Len(s) /\ c[k] = s[k]
             \/ k - Len(s) \in 1 .. Len(t) /\ c[k] = t[k - Len(s)]
  BY <1>1, <1>2
<1> HIDE DEF c
<1>3. ASSUME NEW i \in 1 .. Len(c), NEW j \in 1 .. Len(c), c[i] = c[j] PROVE i = j
  <2>1. i \in Int /\ j \in Int
    BY <1>1
  <2>2. CASE i \in 1 .. Len(s) /\ c[i] = s[i] /\ j \in 1 .. Len(s) /\ c[j] = s[j]
    <3>1. s[i] = s[j]
      BY <1>3, <2>2
    <3> QED  BY <2>2, <3>1 DEF Single
  <2>3. CASE /\ i - Len(s) \in 1 .. Len(t) /\ c[i] = t[i - Len(s)]
             /\ j - Len(s) \in 1 .. Len(t) /\ c[j] = t[j - Len(s)]
    <3>1. t[i - Len(s)] = t[j - Len(s)]
      BY <1>3, <2>3
    <3>2. i - Len(s) = j - Len(s)
      BY <2>3, <3>1 DEF Single
    <3> QED  BY <1>1, <2>1, <3>2
  <2>4. ASSUME NEW k \in 1 .. Len(s), NEW m \in 1 .. Len(t), s[k] = t[m] PROVE FALSE
    BY <2>4
  <2>5. CASE i \in 1 .. Len(s) /\ c[i] = s[i] /\ j - Len(s) \in 1 .. Len(t) /\ c[j] = t[j - Len(s)]
    <3>1. s[i] = t[j - Len(s)]
      BY <1>3, <2>5
    <3> QED  BY <2>4, <2>5, <3>1
  <2>6. CASE j \in 1 .. Len(s) /\ c[j] = s[j] /\ i - Len(s) \in 1 .. Len(t) /\ c[i] = t[i - Len(s)]
    <3>1. s[j] = t[i - Len(s)]
      BY <1>3, <2>6
    <3> QED  BY <2>4, <2>6, <3>1
  <2> QED  BY <1>2, <2>2, <2>3, <2>5, <2>6
<1>4. Single(c)
  BY <1>1, <1>3 DEF Single
<1>5. \A k \in 1 .. Len(c) : (\E i \in 1 .. Len(s) : c[k] = s[i]) \/ (\E j \in 1 .. Len(t) : c[k] = t[j])
  BY <1>2
<1> QED  BY <1>4, <1>5 DEF c

\* A queue without a repeated frame is as long as its set of frames is large.
LEMMA SingleCounted == \A s : Single(s) => Len(s) = Cardinality(Elements(s))
<1> SUFFICES ASSUME NEW s, Single(s) PROVE Len(s) = Cardinality(Elements(s))
  OBVIOUS
<1>1. Len(s) \in Nat /\ s \in [1 .. Len(s) -> Elements(s)]
  BY DEF Single, Elements
<1>2. s \in Bijection(1 .. Len(s), Elements(s))
  BY <1>1 DEF Single, Elements, Bijection, Injection, Surjection, IsInjective
<1>3. ExistsBijection(1 .. Len(s), Elements(s))
  BY <1>2 DEF ExistsBijection
<1> QED  BY <1>1, <1>3, FS_CountingElements

\* Queues that are apart, one after the other.
LEMMA ApartCounted == Apart(Frames) => OneOwner
<1> SUFFICES ASSUME Apart(Frames) PROVE OneOwner
  OBVIOUS
<1> DEFINE F == Frames
<1>0. /\ F["queued"] = camera.queued /\ F["completed"] = camera.completed
      /\ F["encoding"] = encoding /\ F["sent"] = sink.queued /\ F["read"] = sink.done
  BY DEF Frames, Parties
<1>1. /\ \A p \in Parties : Single(F[p])
      /\ \A p, q \in Parties : p # q => \A i \in 1 .. Len(F[p]), j \in 1 .. Len(F[q]) : F[p][i] # F[q][j]
  BY DEF Apart, Single
<1> HIDE DEF F
<1> DEFINE In(x, ps) == \E p \in ps : \E i \in 1 .. Len(F[p]) : x = F[p][i]
           OnlyFrom(s, ps) == Single(s) /\ \A k \in 1 .. Len(s) : In(s[k], ps)
<1>2. ASSUME NEW s, NEW ps \in SUBSET Parties, OnlyFrom(s, ps), NEW p \in Parties \ ps
      PROVE  OnlyFrom(s \o F[p], ps \cup {p})
  <2>1. \A i \in 1 .. Len(s), j \in 1 .. Len(F[p]) : s[i] # F[p][j]
    BY <1>1, <1>2
  <2>2. Single(s) /\ Single(F[p])
    BY <1>1, <1>2
  <2> DEFINE c == s \o F[p]
  <2>3. /\ Single(c)
        /\ \A k \in 1 .. Len(c) : \/ \E i \in 1 .. Len(s) : c[k] = s[i]
                                 \/ \E j \in 1 .. Len(F[p]) : c[k] = F[p][j]
    BY <2>1, <2>2, JoinFacts
  <2> HIDE DEF c
  <2>4. ASSUME NEW k \in 1 .. Len(c) PROVE In(c[k], ps \cup {p})
    BY <1>2, <2>3
  <2>5. OnlyFrom(c, ps \cup {p})
    BY <2>3, <2>4
  <2> QED  BY <2>5 DEF c
<1>3. OnlyFrom(F["queued"], {"queued"})
  <2>1. "queued" \in Parties
    BY DEF Parties
  <2> QED  BY <1>1, <2>1
<1> HIDE DEF OnlyFrom
<1>4. OnlyFrom(F["queued"] \o F["completed"], {"queued", "completed"})
  <2>1. "completed" \in Parties \ {"queued"} /\ {"queued"} \in SUBSET Parties
        /\ {"queued"} \cup {"completed"} = {"queued", "completed"}
    BY DEF Parties
  <2> QED  BY <1>2, <1>3, <2>1
<1>5. OnlyFrom(F["queued"] \o F["completed"] \o F["encoding"], {"queued", "completed", "encoding"})
  <2>1. "encoding" \in Parties \ {"queued", "completed"} /\ {"queued", "completed"} \in SUBSET Parties
        /\ {"queued", "completed"} \cup {"encoding"} = {"queued", "completed", "encoding"}
    BY DEF Parties
  <2> QED  BY <1>2, <1>4, <2>1
<1>6. OnlyFrom(F["queued"] \o F["completed"] \o F["encoding"] \o F["sent"],
               {"queued", "completed", "encoding", "sent"})
  <2>1. /\ "sent" \in Parties \ {"queued", "completed", "encoding"}
        /\ {"queued", "completed", "encoding"} \in SUBSET Parties
        /\ {"queued", "completed", "encoding"} \cup {"sent"} = {"queued", "completed", "encoding", "sent"}
    BY DEF Parties
  <2> QED  BY <1>2, <1>5, <2>1
<1>7. OnlyFrom(F["queued"] \o F["completed"] \o F["encoding"] \o F["sent"] \o F["read"], Parties)
  <2>1. /\ "read" \in Parties \ {"queued", "completed", "encoding", "sent"}
        /\ {"queued", "completed", "encoding", "sent"} \in SUBSET Parties
        /\ {"queued", "completed", "encoding", "sent"} \cup {"read"} = Parties
    BY DEF Parties
  <2> QED  BY <1>2, <1>6, <2>1
<1> DEFINE line == camera.queued \o camera.completed \o encoding \o sink.queued \o sink.done
<1>8. Single(line)
  BY <1>0, <1>7 DEF OnlyFrom
<1> HIDE DEF line
<1>9. Len(line) = Cardinality(Elements(line))
  BY <1>8, SingleCounted
<1> QED  BY <1>9 DEF OneOwner, line

-----------------------------------------------------------------------------
(* The invariant *)

CameraState == [nbufs : Nat, requests : SUBSET Nat, queued : Seq(Nat), completed : Seq(Nat), on : BOOLEAN]
SinkState ==
  [nbufs : Nat, memtype : {"none", "MMAP", "DMABUF"}, mem : SUBSET Nat, dmabuf : SUBSET Nat,
   kbufs : Nat, queued : Seq(Nat), done : Seq(Nat), streaming : BOOLEAN]
Requests == {<<"STREAMON">>, <<"STREAMOFF">>} \cup {<<"COMMIT", f>> : f \in Formats}

Early == {"setup", "test", "armed", "select", "dispatch", "stream"}
Late == {"signal", "pipe", "source", "return", "exited"}

Types ==
  /\ camera \in CameraState
  /\ sink \in SinkState
  /\ watched \in BOOLEAN
  /\ pc \in {"loop", "camera", "encoder"}
  /\ evq \in Seq(Requests)
  /\ kstate \in {"connected", "streaming", "gone"}

\* A request that is on its way has not been destroyed.
Live ==
  /\ \A k \in 1 .. Len(camera.queued) : camera.queued[k] \in camera.requests
  /\ \A k \in 1 .. Len(camera.completed) : camera.completed[k] \in camera.requests

\* Whoever may touch a frame has the memory for it.
Backed ==
  /\ encoding # << >> => type = "ENCODED"
  /\ camera.on \/ encoding # << >> => camera.nbufs # 0 /\ (type = "ENCODED" => sink.mem # {})

\* A device that nothing is left of, but buffers its driver granted unasked.
Bare(d) == d.nbufs = 0 /\ d.kbufs \notin 1 .. NBufs /\ d.mem = {} /\ d.dmabuf = {}

Released ==
  /\ camera = NoCamera /\ encoding = << >>
  /\ Bare(sink) /\ sink.queued = << >> /\ sink.done = << >>

Rest == pc = "loop" /\ ~watched => Released

\* How far a stop is.
Stopping ==
  /\ ~watched => ~sink.streaming
  /\ pc # "loop" => ~watched
  /\ watched \/ pc # "loop" => sink.nbufs # 0
  /\ pc = "encoder" =>
       ~camera.on /\ camera.requests = {} /\ camera.queued = << >> /\ camera.completed = << >>

\* The host waits for its SET_INTERFACE 1 and ends a stream before it asks for
\* anything else: a stream that runs finds its end at the head of the queue.
HostOrder ==
  /\ \A k \in 1 .. Len(evq) : evq[k] = <<"STREAMON">> => k = Len(evq) /\ kstate = "connected"
  /\ \A k \in 1 .. Len(evq) : evq[k] = <<"STREAMOFF">> => k = 1 /\ kstate = "connected" /\ watched
  /\ kstate = "streaming" => watched /\ evq = << >>
  /\ watched /\ kstate = "connected" => evq # << >> /\ Head(evq) = <<"STREAMOFF">>
  /\ kstate = "gone" => evq = << >>

Phases ==
  /\ phase \in Early \cup Late
  /\ phase \in Early <=> kstate # "gone"
  /\ pc # "loop" => phase = "dispatch"

IndInv ==
  /\ Types
  /\ Apart(Frames)
  /\ Live
  /\ Backed
  /\ Rest
  /\ Stopping
  /\ HostOrder
  /\ Phases

PhaseKept ==
  /\ phase' \in Early \cup Late
  /\ phase' \in Early <=> phase \in Early
  /\ pc' # "loop" => phase' = "dispatch"

-----------------------------------------------------------------------------
(* Where the main thread is *)

\* The order of the cleanup, spelled out.
LEMMA OrderFacts ==
  /\ CleanupOrder[1] = "stream" /\ CleanupOrder[2] = "signal" /\ CleanupOrder[3] = "pipe"
  /\ CleanupOrder[4] = "source" /\ CleanupOrder[5] = "return" /\ Len(CleanupOrder) = 5
  /\ Cleanup = {"stream", "signal", "pipe", "source", "return"}
<1>1. /\ CleanupOrder[1] = "stream" /\ CleanupOrder[2] = "signal" /\ CleanupOrder[3] = "pipe"
      /\ CleanupOrder[4] = "source" /\ CleanupOrder[5] = "return" /\ Len(CleanupOrder) = 5
  BY DEF CleanupOrder
<1>2. 1 .. 5 = {1, 2, 3, 4, 5}
  OBVIOUS
<1> QED  BY <1>1, <1>2 DEF Cleanup, Elements

LEMMA PlaceFacts ==
  /\ Place("stream") = 1 /\ Place("signal") = 2 /\ Place("pipe") = 3
  /\ Place("source") = 4 /\ Place("return") = 5
<1>1. 1 .. 5 = {1, 2, 3, 4, 5}
  OBVIOUS
<1>2. ASSUME NEW part, NEW n \in 1 .. 5, CleanupOrder[n] = part,
             \A k \in 1 .. 5 : CleanupOrder[k] = part => k = n
      PROVE  Place(part) = n
  BY <1>2, OrderFacts DEF Place
<1>3. Place("stream") = 1
  BY <1>1, <1>2, OrderFacts
<1>4. Place("signal") = 2
  BY <1>1, <1>2, OrderFacts
<1>5. Place("pipe") = 3
  BY <1>1, <1>2, OrderFacts
<1>6. Place("source") = 4
  BY <1>1, <1>2, OrderFacts
<1>7. Place("return") = 5
  BY <1>1, <1>2, OrderFacts
<1> QED  BY <1>3, <1>4, <1>5, <1>6, <1>7

\* What has been taken down in each phase.
LEMMA GoneFacts ==
  ASSUME Phases
  PROVE  /\ Gone("stream") <=> phase \in Late
         /\ Gone("signal") <=> phase \in Late \ {"signal"}
         /\ Gone("pipe") <=> phase \in Late \ {"signal", "pipe"}
         /\ Gone("source") <=> phase \in {"return", "exited"}
<1>1. CASE phase \in Cleanup
  <2>1. phase # "exited" /\ \A part : Gone(part) <=> Place(phase) > Place(part)
    BY <1>1, OrderFacts DEF Gone
  <2> QED  BY <1>1, <2>1, OrderFacts, PlaceFacts DEF Late
<1>2. CASE phase \notin Cleanup
  <2>1. \A part : Gone(part) <=> phase = "exited"
    BY <1>2 DEF Gone
  <2>2. phase \in Late <=> phase = "exited"
    BY <1>2, OrderFacts DEF Late
  <2> QED  BY <1>2, <2>1, <2>2, OrderFacts
<1> QED  BY <1>1, <1>2

\* The phase that follows each step of the cleanup, and the loop's test.
LEMMA AfterFacts ==
  /\ AfterCleanup("stream") = "signal" /\ AfterCleanup("signal") = "pipe"
  /\ AfterCleanup("pipe") = "source" /\ AfterCleanup("source") = "return"
  /\ AfterCleanup("return") = "exited"
  /\ AfterTest \in {"stream", "armed"}
BY OrderFacts, PlaceFacts DEF AfterCleanup, AfterTest

-----------------------------------------------------------------------------
(* Assembling the invariant after a step *)

LEMMA FramesFacts ==
  /\ Frames["queued"] = camera.queued /\ Frames["completed"] = camera.completed
  /\ Frames["encoding"] = encoding /\ Frames["sent"] = sink.queued /\ Frames["read"] = sink.done
  /\ Frames'["queued"] = camera'.queued /\ Frames'["completed"] = camera'.completed
  /\ Frames'["encoding"] = encoding' /\ Frames'["sent"] = sink'.queued /\ Frames'["read"] = sink'.done
BY DEF Frames, Parties

\* What IndInv says of the data.
LEMMA Known ==
  ASSUME IndInv
  PROVE  /\ camera \in CameraState /\ camera.nbufs \in Nat /\ camera.requests \in SUBSET Nat
         /\ camera.queued \in Seq(Nat) /\ camera.completed \in Seq(Nat)
         /\ sink \in SinkState /\ sink.nbufs \in Nat
         /\ sink.queued \in Seq(Nat) /\ sink.done \in Seq(Nat)
         /\ encoding \in Seq(Nat) /\ evq \in Seq(Requests) /\ watched \in BOOLEAN
         /\ pc \in {"loop", "camera", "encoder"} /\ kstate \in {"connected", "streaming", "gone"}
         /\ Apart(Frames) /\ Phases
<1>1. "encoding" \in Parties
  BY DEF Parties
<1>2. encoding \in Seq(Nat)
  BY <1>1, FramesFacts DEF IndInv, Apart
<1> QED  BY <1>2 DEF IndInv, Types, CameraState, SinkState

\* A step of the main thread between callbacks.
LEMMA Aside ==
  ASSUME IndInv, UNCHANGED <<type, camera, encoding, sink, watched, pc, evq, kstate>>, PhaseKept
  PROVE  IndInv'
<1>1. UNCHANGED <<type, camera, encoding, sink, watched, pc, evq, kstate>>
  OBVIOUS
<1>2. Types' /\ Live' /\ Backed'
  BY <1>1 DEF IndInv, Types, Live, Backed
<1>3. Apart(Frames)'
  <2>1. Frames' = Frames
    BY <1>1 DEF Frames
  <2> QED  BY <2>1 DEF IndInv, Apart
<1>4. Rest' /\ Stopping'
  BY <1>1 DEF IndInv, Rest, Released, Bare, Stopping
<1>5. HostOrder'
  BY <1>1 DEF IndInv, HostOrder
<1>6. Phases'
  BY <1>1 DEF IndInv, Phases, PhaseKept
<1> QED  BY <1>2, <1>3, <1>4, <1>5, <1>6 DEF IndInv

\* Frames travel; nothing starts or stops.
LEMMA Traffic ==
  ASSUME IndInv, UNCHANGED <<type, watched, pc, evq, kstate>>, PhaseKept,
         ~(pc = "loop" /\ ~watched), pc = "encoder" => camera' = camera,
         camera' \in CameraState, camera'.nbufs = camera.nbufs, camera'.on = camera.on,
         sink' \in SinkState, sink'.nbufs = sink.nbufs, sink'.mem = sink.mem,
         sink'.streaming = sink.streaming,
         Apart(Frames'), Live',
         encoding' # << >> => type = "ENCODED" /\ (camera.on \/ encoding # << >>)
  PROVE  IndInv'
<1>1. Types'
  BY DEF IndInv, Types
<1>2. Apart(Frames)'
  BY DEF Apart
<1>3. Backed'
  BY DEF IndInv, Backed
<1>4. Rest' /\ HostOrder'
  BY DEF IndInv, Rest, HostOrder
<1>5. Stopping'
  BY DEF IndInv, Stopping
<1>6. Phases'
  BY DEF IndInv, Phases, PhaseKept
<1> QED  BY <1>1, <1>2, <1>3, <1>4, <1>5, <1>6 DEF IndInv

-----------------------------------------------------------------------------
(* What the V4L2 library does to the UVC device *)

LEMMA SinkQueued ==
  ASSUME NEW q \in Seq(Nat), sink \in SinkState, NEW c, c = [sink EXCEPT !.queued = q]
  PROVE  /\ c \in SinkState /\ c.queued = q /\ c.done = sink.done
         /\ c.nbufs = sink.nbufs /\ c.mem = sink.mem /\ c.streaming = sink.streaming
BY DEF SinkState

\* QBUF takes the buffer or leaves everything as it was.
LEMMA QueueBufferFacts ==
  ASSUME IndInv, NEW i \in Nat, NEW b \in QueueBuffer(sink, i), sink' = b.dev
  PROVE  /\ sink' \in SinkState /\ sink'.nbufs = sink.nbufs /\ sink'.mem = sink.mem
         /\ sink'.streaming = sink.streaming /\ sink'.done = sink.done
         /\ sink'.queued = sink.queued \/ sink'.queued = Append(sink.queued, i)
<1>1. sink' = sink \/ sink' = [sink EXCEPT !.queued = Append(sink.queued, i)]
  BY DEF QueueBuffer, Ok, Failed, If
<1>2. CASE sink' = sink
  BY <1>2, Known
<1>3. CASE sink' = [sink EXCEPT !.queued = Append(sink.queued, i)]
  <2>1. PICK q \in Seq(Nat) : q = Append(sink.queued, i)
    <3>1. sink.queued \in Seq(Nat)
      BY Known
    <3>2. Append(sink.queued, i) \in Seq(Nat)
      BY <3>1
    <3> QED  BY <3>2
  <2>2. sink' = [sink EXCEPT !.queued = q]
    BY <1>3, <2>1
  <2>3. /\ sink' \in SinkState /\ sink'.queued = q /\ sink'.done = sink.done
        /\ sink'.nbufs = sink.nbufs /\ sink'.mem = sink.mem /\ sink'.streaming = sink.streaming
    BY <2>2, Known, SinkQueued
  <2> QED  BY <2>1, <2>3
<1> QED  BY <1>1, <1>2, <1>3

-----------------------------------------------------------------------------
(* The frames of a stream that runs *)

\* requestComplete
LEMMA RequestCompleteInv == IndInv /\ RequestComplete /\ UNCHANGED life => IndInv'
<1> SUFFICES ASSUME IndInv, RequestComplete, UNCHANGED life PROVE IndInv'
  OBVIOUS
<1>1. UNCHANGED <<type, encoding, sink, watched, pc, evq, kstate>> /\ PhaseKept
  BY DEF RequestComplete, format, host, life, PhaseKept, IndInv, Phases
<1>2. camera.on /\ camera.queued # << >>
  BY DEF RequestComplete
<1>3. ~(pc = "loop" /\ ~watched) /\ pc # "encoder"
  BY <1>2 DEF IndInv, Rest, Released, Bare, Stopping, NoCamera
<1> DEFINE q == Tail(camera.queued)
           r == Append(camera.completed, Head(camera.queued))
<1>4. q \in Seq(Nat) /\ r \in Seq(Nat)
  <2>1. camera.queued \in Seq(Nat) /\ camera.completed \in Seq(Nat)
    BY Known
  <2> QED  BY <1>2, <2>1
<1>5. camera' = [camera EXCEPT !.queued = q, !.completed = r]
  BY DEF RequestComplete
<1> HIDE DEF q, r
<1>6. /\ camera' \in CameraState /\ camera'.queued = q /\ camera'.completed = r
      /\ camera'.nbufs = camera.nbufs /\ camera'.on = camera.on /\ camera'.requests = camera.requests
  <2>1. camera \in CameraState
    BY Known
  <2> QED  BY <1>4, <1>5, <2>1 DEF CameraState
<1>7. Apart(Frames')
  <2> DEFINE F == Frames
             G == Frames'
  <2>1. /\ F["queued"] # << >> /\ G["queued"] = Tail(F["queued"])
        /\ G["completed"] = Append(F["completed"], Head(F["queued"]))
    BY <1>2, <1>6, FramesFacts DEF q, r
  <2>2. \A p \in Parties \ {"queued", "completed"} : G[p] = F[p]
    BY <1>1, FramesFacts DEF Parties
  <2>3. "queued" \in Parties /\ "completed" \in Parties /\ Apart(F)
    BY Known DEF Parties
  <2> HIDE DEF F, G
  <2>4. Apart(G)
    BY <2>1, <2>2, <2>3, MovedFacts
  <2> QED  BY <2>4 DEF G
<1>8. Live'
  <2>1. /\ \A k \in 1 .. Len(camera.queued) : camera.queued[k] \in camera.requests
        /\ \A k \in 1 .. Len(camera.completed) : camera.completed[k] \in camera.requests
    BY DEF IndInv, Live
  <2>2. /\ camera.queued \in Seq(Nat) /\ camera.completed \in Seq(Nat)
    BY Known
  <2>3. \A k \in 1 .. Len(q) : q[k] \in camera.requests
    BY <1>2, <2>1, <2>2 DEF q
  <2>4. Head(camera.queued) \in camera.requests
    BY <1>2, <2>1, <2>2
  <2>5. \A k \in 1 .. Len(r) : r[k] \in camera.requests
    BY <2>1, <2>2, <2>4 DEF r
  <2> QED  BY <1>6, <2>3, <2>5 DEF Live
<1>9. encoding' # << >> => type = "ENCODED" /\ (camera.on \/ encoding # << >>)
  BY <1>1 DEF IndInv, Backed
<1> QED  BY <1>1, <1>3, <1>6, <1>7, <1>8, <1>9, Known, Traffic

\* A step that leaves the camera alone.
LEMMA LiveKept == IndInv /\ camera' = camera => Live'
BY DEF IndInv, Live

\* outputReady, into the device of a stream that exists or into nothing.
LEMMA OutputInv ==
  ASSUME IndInv, encoding # << >>, encoding' = Tail(encoding),
         sink' = sink \/ \E b \in QueueBuffer(sink, Head(encoding)) : sink' = b.dev,
         UNCHANGED <<type, camera, watched, pc, evq, kstate, life>>
  PROVE  IndInv'
<1>1. PhaseKept
  BY DEF life, PhaseKept, IndInv, Phases
<1>2. encoding \in Seq(Nat) /\ Head(encoding) \in Nat
  <2>1. encoding \in Seq(Nat)
    BY Known
  <2> QED  BY <2>1
<1>3. ~(pc = "loop" /\ ~watched) /\ type = "ENCODED"
  BY DEF IndInv, Rest, Released, Bare, Backed
<1>4. /\ sink' \in SinkState /\ sink'.nbufs = sink.nbufs /\ sink'.mem = sink.mem
      /\ sink'.streaming = sink.streaming /\ sink'.done = sink.done
      /\ sink'.queued = sink.queued \/ sink'.queued = Append(sink.queued, Head(encoding))
  <2>1. CASE sink' = sink
    BY <2>1, Known
  <2>2. CASE \E b \in QueueBuffer(sink, Head(encoding)) : sink' = b.dev
    BY <1>2, <2>2, QueueBufferFacts
  <2> QED  BY <2>1, <2>2
<1>5. Apart(Frames')
  <2> DEFINE F == Frames
             G == Frames'
  <2>1. F["encoding"] # << >> /\ G["encoding"] = Tail(F["encoding"])
    BY FramesFacts
  <2>2. G["queued"] = F["queued"] /\ G["completed"] = F["completed"] /\ G["read"] = F["read"]
    BY <1>4, FramesFacts
  <2>3. Apart(F) /\ "encoding" \in Parties /\ "sent" \in Parties
    BY Known DEF Parties
  <2>4. G["sent"] = F["sent"] \/ G["sent"] = Append(F["sent"], Head(F["encoding"]))
    BY <1>4, FramesFacts
  <2> HIDE DEF F, G
  <2>5. ASSUME G["sent"] = F["sent"] PROVE Apart(G)
    <3>1. \A p \in Parties : \/ G[p] = F[p] \/ G[p] = << >>
                             \/ F[p] # << >> /\ G[p] = Tail(F[p])
      BY <2>1, <2>2, <2>5 DEF Parties
    <3> QED  BY <2>3, <3>1, LostFacts
  <2>6. ASSUME G["sent"] = Append(F["sent"], Head(F["encoding"])) PROVE Apart(G)
    <3>1. \A p \in Parties \ {"encoding", "sent"} : G[p] = F[p]
      BY <2>2 DEF Parties
    <3> QED  BY <2>1, <2>3, <2>6, <3>1, MovedFacts
  <2>7. Apart(G)
    BY <2>4, <2>5, <2>6
  <2> QED  BY <2>7 DEF G
<1> QED  BY <1>1, <1>3, <1>4, <1>5, Known, LiveKept, Traffic

\* The host has read a frame.
LEMMA SinkCompleteInv == IndInv /\ SinkComplete /\ UNCHANGED life => IndInv'
<1> SUFFICES ASSUME IndInv, SinkComplete, UNCHANGED life PROVE IndInv'
  OBVIOUS
<1>1. UNCHANGED <<type, camera, encoding, watched, pc, evq, kstate>> /\ PhaseKept
  BY DEF SinkComplete, format, host, life, PhaseKept, IndInv, Phases
<1>2. sink.queued # << >> /\ kstate = "streaming"
  BY DEF SinkComplete, CanComplete
<1>3. watched
  BY <1>2 DEF IndInv, HostOrder
<1> DEFINE q == Tail(sink.queued)
           h == Append(sink.done, Head(sink.queued))
<1>4. q \in Seq(Nat) /\ h \in Seq(Nat)
  <2>1. sink.queued \in Seq(Nat) /\ sink.done \in Seq(Nat)
    BY Known
  <2> QED  BY <1>2, <2>1
<1>5. sink' = [sink EXCEPT !.queued = q, !.done = h]
  BY DEF SinkComplete, Complete
<1> HIDE DEF q, h
<1>6. /\ sink' \in SinkState /\ sink'.queued = q /\ sink'.done = h
      /\ sink'.nbufs = sink.nbufs /\ sink'.mem = sink.mem /\ sink'.streaming = sink.streaming
  <2>1. sink \in SinkState
    BY Known
  <2> QED  BY <1>4, <1>5, <2>1 DEF SinkState
<1>7. Apart(Frames')
  <2> DEFINE F == Frames
             G == Frames'
  <2>1. /\ F["sent"] # << >> /\ G["sent"] = Tail(F["sent"])
        /\ G["read"] = Append(F["read"], Head(F["sent"]))
    BY <1>2, <1>6, FramesFacts DEF q, h
  <2>2. \A p \in Parties \ {"sent", "read"} : G[p] = F[p]
    BY <1>1, FramesFacts DEF Parties
  <2>3. "sent" \in Parties /\ "read" \in Parties /\ Apart(F)
    BY Known DEF Parties
  <2> HIDE DEF F, G
  <2>4. Apart(G)
    BY <2>1, <2>2, <2>3, MovedFacts
  <2> QED  BY <2>4 DEF G
<1>8. encoding' # << >> => type = "ENCODED" /\ (camera.on \/ encoding # << >>)
  BY <1>1 DEF IndInv, Backed
<1> QED  BY <1>1, <1>3, <1>6, <1>7, <1>8, Known, LiveKept, Traffic

\* The callback of the pipe: one finished request goes to the encoder or to
\* the UVC device, which may refuse it.
LEMMA VideoProcessInv ==
  ASSUME IndInv, VideoProcess, PhaseKept
  PROVE  IndInv'
<1> DEFINE i == Head(camera.completed)
           t == Tail(camera.completed)
<1>1. UNCHANGED <<type, watched, pc, evq, kstate>>
  BY DEF VideoProcess, format, host
<1>2. camera.on /\ pc = "loop" /\ camera.completed # << >> /\ camera' = [camera EXCEPT !.completed = t]
  BY DEF VideoProcess
<1>3. watched
  BY <1>2 DEF IndInv, Rest, Released, Bare, NoCamera
<1>4. t \in Seq(Nat) /\ i \in Nat
  <2>1. camera.completed \in Seq(Nat)
    BY Known
  <2> QED  BY <1>2, <2>1
<1>5. /\ camera' \in CameraState /\ camera'.queued = camera.queued /\ camera'.completed = t
      /\ camera'.nbufs = camera.nbufs /\ camera'.on = camera.on /\ camera'.requests = camera.requests
  <2> HIDE DEF i, t
  <2>1. camera \in CameraState
    BY Known
  <2> QED  BY <1>2, <1>4, <2>1 DEF CameraState
<1>6. \/ type = "ENCODED" /\ encoding' = Append(encoding, i) /\ sink' = sink
      \/ encoding' = encoding /\ \E b \in QueueBuffer(sink, i) : sink' = b.dev
  BY DEF VideoProcess
<1>7. /\ sink' \in SinkState /\ sink'.nbufs = sink.nbufs /\ sink'.mem = sink.mem
      /\ sink'.streaming = sink.streaming /\ sink'.done = sink.done
      /\ sink'.queued = sink.queued \/ sink'.queued = Append(sink.queued, i)
      /\ sink'.queued = sink.queued \/ encoding' = encoding
  <2> HIDE DEF i
  <2>1. CASE sink' = sink
    BY <2>1, Known
  <2>2. CASE encoding' = encoding /\ \E b \in QueueBuffer(sink, i) : sink' = b.dev
    BY <1>4, <2>2, QueueBufferFacts
  <2> QED  BY <1>6, <2>1, <2>2
<1>8. Apart(Frames')
  <2> DEFINE F == Frames
             G == Frames'
  <2>1. F["completed"] # << >> /\ G["completed"] = Tail(F["completed"])
    BY <1>2, <1>5, FramesFacts
  <2>2. G["queued"] = F["queued"] /\ G["read"] = F["read"]
    BY <1>5, <1>7, FramesFacts
  <2>3. /\ Apart(F) /\ "encoding" \in Parties /\ "sent" \in Parties /\ "completed" \in Parties
    BY Known DEF Parties
  <2>4. \/ G["encoding"] = Append(F["encoding"], Head(F["completed"])) /\ G["sent"] = F["sent"]
        \/ G["encoding"] = F["encoding"] /\ G["sent"] = F["sent"]
        \/ G["encoding"] = F["encoding"] /\ G["sent"] = Append(F["sent"], Head(F["completed"]))
    BY <1>6, <1>7, FramesFacts
  <2> HIDE DEF F, G
  <2>5. ASSUME G["encoding"] = Append(F["encoding"], Head(F["completed"])), G["sent"] = F["sent"]
        PROVE  Apart(G)
    <3>1. \A p \in Parties \ {"completed", "encoding"} : G[p] = F[p]
      BY <2>2, <2>5 DEF Parties
    <3> QED  BY <2>1, <2>3, <2>5, <3>1, MovedFacts
  <2>6. ASSUME G["encoding"] = F["encoding"], G["sent"] = F["sent"] PROVE Apart(G)
    <3>1. \A p \in Parties : \/ G[p] = F[p] \/ G[p] = << >>
                             \/ F[p] # << >> /\ G[p] = Tail(F[p])
      BY <2>1, <2>2, <2>6 DEF Parties
    <3> QED  BY <2>3, <3>1, LostFacts
  <2>7. ASSUME G["encoding"] = F["encoding"], G["sent"] = Append(F["sent"], Head(F["completed"]))
        PROVE  Apart(G)
    <3>1. \A p \in Parties \ {"completed", "sent"} : G[p] = F[p]
      BY <2>2, <2>7 DEF Parties
    <3> QED  BY <2>1, <2>3, <2>7, <3>1, MovedFacts
  <2>8. Apart(G)
    BY <2>4, <2>5, <2>6, <2>7
  <2> QED  BY <2>8 DEF G
<1>9. Live'
  <2>1. /\ \A k \in 1 .. Len(camera.queued) : camera.queued[k] \in camera.requests
        /\ \A k \in 1 .. Len(camera.completed) : camera.completed[k] \in camera.requests
    BY DEF IndInv, Live
  <2>2. camera.completed \in Seq(Nat)
    BY Known
  <2>3. \A k \in 1 .. Len(t) : k + 1 \in 1 .. Len(camera.completed) /\ t[k] = camera.completed[k + 1]
    <3> DEFINE c == camera.completed
    <3>1. c \in Seq(Nat) /\ c # << >>
      BY <1>2, <2>2
    <3> HIDE DEF c
    <3>2. \A k \in 1 .. Len(Tail(c)) : k + 1 \in 1 .. Len(c) /\ Tail(c)[k] = c[k + 1]
      BY <3>1
    <3> QED  BY <3>2 DEF c
  <2> HIDE DEF t
  <2>4. \A k \in 1 .. Len(t) : t[k] \in camera.requests
    BY <2>1, <2>3
  <2> QED  BY <1>5, <2>1, <2>4 DEF Live
<1>10. encoding' # << >> => type = "ENCODED" /\ (camera.on \/ encoding # << >>)
  BY <1>2, <1>6 DEF IndInv, Backed
<1> HIDE DEF i, t
<1> QED  BY <1>1, <1>2, <1>3, <1>5, <1>7, <1>8, <1>9, <1>10, Traffic

\* The callback of the UVC device: a frame the host has read goes back to the
\* camera, if its request is still there.
LEMMA SinkProcessInv ==
  ASSUME IndInv, SinkProcess, PhaseKept
  PROVE  IndInv'
<1> DEFINE i == Head(sink.done)
           t == Tail(sink.done)
<1>1. UNCHANGED <<type, encoding, watched, pc, evq, kstate>> /\ pc = "loop" /\ watched
  BY DEF SinkProcess, format, host
<1>2. CASE UNCHANGED <<camera, sink>>
  BY <1>1, <1>2, Aside
<1>3. CASE sink.done # << >> /\ sink' = [sink EXCEPT !.done = t] /\ camera' \in RequeueRequest(camera, i)
  <2>1. t \in Seq(Nat) /\ i \in Nat
    <3>1. sink.done \in Seq(Nat)
      BY Known
    <3> QED  BY <1>3, <3>1
  <2>2. /\ sink' \in SinkState /\ sink'.queued = sink.queued /\ sink'.done = t
        /\ sink'.nbufs = sink.nbufs /\ sink'.mem = sink.mem /\ sink'.streaming = sink.streaming
    <3>1. sink \in SinkState
      BY Known
    <3> HIDE DEF i, t
    <3> QED  BY <1>3, <2>1, <3>1 DEF SinkState
  <2>3. /\ camera' \in CameraState /\ camera'.completed = camera.completed
        /\ camera'.nbufs = camera.nbufs /\ camera'.on = camera.on /\ camera'.requests = camera.requests
        /\ \/ camera'.queued = camera.queued
           \/ i \in camera.requests /\ camera'.queued = Append(camera.queued, i)
    <3>1. camera \in CameraState /\ camera.queued \in Seq(Nat)
      BY Known
    <3>2. PICK q \in Seq(Nat) : q = Append(camera.queued, i)
      <4>1. Append(camera.queued, i) \in Seq(Nat)
        BY <2>1, <3>1
      <4> QED  BY <4>1
    <3> HIDE DEF i, t
    <3>3. camera' = camera \/ (i \in camera.requests /\ camera' = [camera EXCEPT !.queued = q])
      BY <1>3, <3>2 DEF RequeueRequest
    <3>4. CASE camera' = camera
      BY <3>1, <3>4
    <3>5. CASE i \in camera.requests /\ camera' = [camera EXCEPT !.queued = q]
      BY <3>1, <3>2, <3>5 DEF CameraState
    <3> QED  BY <3>3, <3>4, <3>5
  <2>4. Apart(Frames')
    <3> DEFINE F == Frames
               G == Frames'
    <3>1. F["read"] # << >> /\ G["read"] = Tail(F["read"])
      BY <1>3, <2>2, FramesFacts
    <3>2. G["completed"] = F["completed"] /\ G["encoding"] = F["encoding"] /\ G["sent"] = F["sent"]
      BY <1>1, <2>2, <2>3, FramesFacts
    <3>3. Apart(F) /\ "read" \in Parties /\ "queued" \in Parties
      BY Known DEF Parties
    <3>4. G["queued"] = F["queued"] \/ G["queued"] = Append(F["queued"], Head(F["read"]))
      BY <2>3, FramesFacts
    <3> HIDE DEF F, G
    <3>5. ASSUME G["queued"] = F["queued"] PROVE Apart(G)
      <4>1. \A p \in Parties : \/ G[p] = F[p] \/ G[p] = << >>
                               \/ F[p] # << >> /\ G[p] = Tail(F[p])
        BY <3>1, <3>2, <3>5 DEF Parties
      <4> QED  BY <3>3, <4>1, LostFacts
    <3>6. ASSUME G["queued"] = Append(F["queued"], Head(F["read"])) PROVE Apart(G)
      <4>1. \A p \in Parties \ {"read", "queued"} : G[p] = F[p]
        BY <3>2 DEF Parties
      <4> QED  BY <3>1, <3>3, <3>6, <4>1, MovedFacts
    <3>7. Apart(G)
      BY <3>4, <3>5, <3>6
    <3> QED  BY <3>7 DEF G
  <2>5. Live'
    <3>1. /\ \A k \in 1 .. Len(camera.queued) : camera.queued[k] \in camera.requests
          /\ \A k \in 1 .. Len(camera.completed) : camera.completed[k] \in camera.requests
      BY DEF IndInv, Live
    <3>2. camera.queued \in Seq(Nat)
      BY Known
    <3> HIDE DEF i, t
    <3>3. \A k \in 1 .. Len(camera'.queued) : camera'.queued[k] \in camera.requests
      <4>1. CASE camera'.queued = camera.queued
        BY <3>1, <4>1
      <4>2. CASE i \in camera.requests /\ camera'.queued = Append(camera.queued, i)
        <5> DEFINE c == camera.queued
        <5>1. c \in Seq(Nat) /\ \A k \in 1 .. Len(c) : c[k] \in camera.requests
          BY <3>1, <3>2
        <5> HIDE DEF c
        <5>2. \A k \in 1 .. Len(Append(c, i)) : Append(c, i)[k] \in camera.requests
          BY <4>2, <5>1
        <5> QED  BY <4>2, <5>2 DEF c
      <4> QED  BY <2>3, <4>1, <4>2
    <3> QED  BY <2>3, <3>1, <3>3 DEF Live
  <2>6. encoding' # << >> => type = "ENCODED" /\ (camera.on \/ encoding # << >>)
    BY <1>1 DEF IndInv, Backed
  <2> HIDE DEF i, t
  <2> QED  BY <1>1, <2>2, <2>3, <2>4, <2>5, <2>6, Traffic
<1>4. UNCHANGED <<camera, sink>> \/ (sink.done # << >> /\ sink' = [sink EXCEPT !.done = t]
                                     /\ camera' \in RequeueRequest(camera, i))
  <2>1. PICK r \in DequeueBuffer(sink) :
          \/ r.ret = "error" /\ UNCHANGED <<camera, sink>>
          \/ r.ret = "ok" /\ sink' = r.dev /\ camera' \in RequeueRequest(camera, r.index)
    BY DEF SinkProcess
  <2>2. sink.done # << >>
    BY DEF SinkProcess, CanDequeue
  <2>3. r = [ret |-> "ok", dev |-> [sink EXCEPT !.done = t], index |-> i] \/ r = Failed(sink)
    BY DEF DequeueBuffer, If
  <2>4. CASE r = Failed(sink)
    BY <2>1, <2>4 DEF Failed
  <2>5. CASE r = [ret |-> "ok", dev |-> [sink EXCEPT !.done = t], index |-> i]
    <3>1. r.ret = "ok" /\ r.dev = [sink EXCEPT !.done = t] /\ r.index = i
      BY <2>5
    <3> HIDE DEF i, t
    <3> QED  BY <2>1, <2>2, <3>1
  <2> QED  BY <2>3, <2>4, <2>5
<1> QED  BY <1>2, <1>3, <1>4

-----------------------------------------------------------------------------
(* The events of the host *)

\* What a handler knows of the event it is called for and of those that wait.
LEMMA Delivered ==
  ASSUME IndInv, evq # << >>, evq' = Tail(evq)
  PROVE  /\ kstate = "connected" /\ evq' \in Seq(Requests)
         /\ \A k \in 1 .. Len(evq') : evq'[k] = <<"STREAMON">> => k = Len(evq')
         /\ \A k \in 1 .. Len(evq') : evq'[k] # <<"STREAMOFF">>
         /\ Head(evq) = <<"STREAMON">> => evq' = << >>
         /\ Head(evq) = <<"STREAMOFF">> <=> watched
<1> DEFINE On == <<"STREAMON">>
           Off == <<"STREAMOFF">>
<1>1. /\ \A k \in 1 .. Len(evq) : evq[k] = On => k = Len(evq)
      /\ \A k \in 1 .. Len(evq) : evq[k] = Off => k = 1 /\ watched
  BY DEF IndInv, HostOrder
<1>2. kstate = "connected" /\ (watched => Head(evq) = Off)
  <2>1. kstate = "connected"
    BY Known DEF IndInv, HostOrder
  <2> QED  BY <2>1 DEF IndInv, HostOrder
<1>3. evq \in Seq(Requests)
  BY Known
<1> DEFINE t == Tail(evq)
<1>4. /\ t \in Seq(Requests) /\ Len(t) = Len(evq) - 1 /\ Len(evq) \in Nat /\ Len(evq) >= 1
      /\ Head(evq) = evq[1] /\ 1 \in 1 .. Len(evq)
      /\ \A k \in 1 .. Len(t) : k \in Nat /\ k >= 1 /\ k + 1 \in 1 .. Len(evq) /\ t[k] = evq[k + 1]
  BY <1>3
<1>5. t = << >> <=> Len(t) = 0
  BY <1>4
<1> HIDE DEF On, Off, t
<1>6. \A k \in 1 .. Len(t) : t[k] = On => k = Len(t)
  BY <1>1, <1>4
<1>7. \A k \in 1 .. Len(t) : t[k] # Off
  BY <1>1, <1>4
<1>8. Head(evq) = On => t = << >>
  BY <1>1, <1>4, <1>5
<1>9. Head(evq) = Off => watched
  BY <1>1, <1>4
<1>10. evq' = t
  BY DEF t
<1> QED  BY <1>2, <1>4, <1>6, <1>7, <1>8, <1>9, <1>10 DEF On, Off

\* The format changes only while nothing runs.
LEMMA HandleCommitInv == IndInv /\ HandleCommit /\ PhaseKept => IndInv'
<1> SUFFICES ASSUME IndInv, HandleCommit, PhaseKept PROVE IndInv'
  OBVIOUS
<1>1. UNCHANGED <<camera, encoding, sink, watched, pc, kstate>> /\ pc = "loop"
  BY DEF HandleCommit, Deliver
<1>2. PICK f \in Formats : Deliver(<<"COMMIT", f>>)
  BY DEF HandleCommit
<1>3. evq # << >> /\ evq' = Tail(evq) /\ Head(evq) = <<"COMMIT", f>>
  BY <1>2 DEF Deliver
<1>4. Head(evq) # <<"STREAMOFF">>
  BY <1>3
<1>5. ~watched
  BY <1>3, <1>4, Delivered
<1>6. Released
  BY <1>1, <1>5 DEF IndInv, Rest
<1>7. Types' /\ Live'
  BY <1>1, <1>3, Delivered DEF IndInv, Types, Live
<1>8. Backed'
  BY <1>1, <1>6 DEF Backed, Released, Bare, NoCamera
<1>9. Apart(Frames)'
  <2>1. Frames' = Frames
    BY <1>1 DEF Frames
  <2> QED  BY <2>1 DEF IndInv, Apart
<1>10. Rest' /\ Stopping'
  BY <1>1 DEF IndInv, Rest, Released, Bare, Stopping
<1>11. HostOrder'
  BY <1>1, <1>3, <1>5, Delivered DEF HostOrder
<1>12. Phases'
  BY <1>1 DEF IndInv, Phases, PhaseKept
<1> QED  BY <1>7, <1>8, <1>9, <1>10, <1>11, <1>12 DEF IndInv

-----------------------------------------------------------------------------
(* uvc_stream_stop *)

\* The STREAMOFF event: the UVC device gives its frames back, nobody watches it.
LEMMA StopSinkInv == IndInv /\ StopSink /\ phase = "dispatch" /\ phase' = "dispatch" => IndInv'
<1> SUFFICES ASSUME IndInv, StopSink, phase = "dispatch", phase' = "dispatch" PROVE IndInv'
  OBVIOUS
<1>1. /\ UNCHANGED <<type, camera, encoding, kstate>> /\ watched' = FALSE /\ pc' = "camera"
      /\ sink' = [sink EXCEPT !.streaming = FALSE, !.queued = << >>, !.done = << >>]
      /\ evq # << >> /\ evq' = Tail(evq) /\ Head(evq) = <<"STREAMOFF">> /\ pc = "loop"
  BY DEF StopSink, Deliver, StreamOff, format
<1>2. watched
  BY <1>1, Delivered
<1>3. /\ sink' \in SinkState /\ sink'.queued = << >> /\ sink'.done = << >> /\ sink'.streaming = FALSE
      /\ sink'.nbufs = sink.nbufs /\ sink'.mem = sink.mem
  <2>1. sink \in SinkState /\ << >> \in Seq(Nat)
    BY Known
  <2> QED  BY <1>1, <2>1 DEF SinkState
<1>4. Types' /\ Live'
  BY <1>1, <1>3, Delivered DEF IndInv, Types, Live
<1>5. Backed'
  BY <1>1, <1>3 DEF IndInv, Backed
<1>6. Apart(Frames')
  <2> DEFINE F == Frames
             G == Frames'
  <2>1. \A p \in Parties : G[p] = F[p] \/ G[p] = << >>
    BY <1>1, <1>3, FramesFacts DEF Parties
  <2>2. Apart(F)
    BY Known
  <2> HIDE DEF F, G
  <2>3. Apart(G)
    BY <2>1, <2>2, LostFacts
  <2> QED  BY <2>3 DEF G
<1>7. Rest' /\ Stopping'
  BY <1>1, <1>2, <1>3 DEF IndInv, Rest, Stopping
<1>8. HostOrder'
  BY <1>1, Delivered DEF HostOrder
<1>9. Phases'
  BY <1>1 DEF IndInv, Phases, Early
<1>10. Apart(Frames)'
  BY <1>6 DEF Apart
<1> QED  BY <1>4, <1>5, <1>7, <1>8, <1>9, <1>10 DEF IndInv

\* The camera forgets its requests; the encoder may still have frames.
LEMMA StopCameraInv == IndInv /\ StopCamera /\ phase = "dispatch" /\ phase' = "dispatch" => IndInv'
<1> SUFFICES ASSUME IndInv, StopCamera, phase = "dispatch", phase' = "dispatch" PROVE IndInv'
  OBVIOUS
<1>1. /\ UNCHANGED <<type, encoding, sink, watched, evq, kstate>> /\ pc = "camera" /\ pc' = "encoder"
      /\ camera' = [camera EXCEPT !.on = FALSE, !.requests = {}, !.queued = << >>, !.completed = << >>]
  BY DEF StopCamera, Stopped, format, host
<1>2. /\ camera' \in CameraState /\ camera'.queued = << >> /\ camera'.completed = << >>
      /\ camera'.on = FALSE /\ camera'.requests = {} /\ camera'.nbufs = camera.nbufs
  <2>1. camera \in CameraState /\ << >> \in Seq(Nat) /\ {} \in SUBSET Nat
    BY Known
  <2> QED  BY <1>1, <2>1 DEF CameraState
<1>3. Types' /\ Live'
  BY <1>1, <1>2 DEF IndInv, Types, Live
<1>4. Backed'
  BY <1>1, <1>2 DEF IndInv, Backed
<1>5. Apart(Frames')
  <2> DEFINE F == Frames
             G == Frames'
  <2>1. \A p \in Parties : G[p] = F[p] \/ G[p] = << >>
    BY <1>1, <1>2, FramesFacts DEF Parties
  <2>2. Apart(F)
    BY Known
  <2> HIDE DEF F, G
  <2>3. Apart(G)
    BY <2>1, <2>2, LostFacts
  <2> QED  BY <2>3 DEF G
<1>6. Rest' /\ Stopping' /\ HostOrder'
  BY <1>1, <1>2 DEF IndInv, Rest, Stopping, HostOrder
<1>7. Phases'
  BY <1>1 DEF IndInv, Phases, Early
<1>8. Apart(Frames)'
  BY <1>5 DEF Apart
<1> QED  BY <1>3, <1>4, <1>6, <1>7, <1>8 DEF IndInv

\* With the encoder empty nobody has a frame but the UVC device, which gives
\* its own back.
LEMMA StopFreeInv == IndInv /\ StopFree /\ PhaseKept => IndInv'
<1> SUFFICES ASSUME IndInv, StopFree, PhaseKept PROVE IndInv'
  OBVIOUS
<1>1. /\ UNCHANGED <<encoding, watched, evq, kstate>> /\ pc = "encoder" /\ pc' = "loop"
      /\ encoding = << >> /\ sink' = FreeBuffers(sink) /\ camera' = [camera EXCEPT !.nbufs = 0]
  BY DEF StopFree, EncoderJoined, host
<1>2. /\ ~watched /\ ~sink.streaming /\ sink.nbufs # 0
      /\ ~camera.on /\ camera.requests = {} /\ camera.queued = << >> /\ camera.completed = << >>
  BY <1>1 DEF IndInv, Stopping
<1>3. camera' = NoCamera
  <2>1. camera \in CameraState
    BY Known
  <2> QED  BY <1>1, <1>2, <2>1 DEF CameraState, NoCamera
<1>4. sink' = [sink EXCEPT !.nbufs = 0, !.kbufs = 0, !.mem = {}, !.dmabuf = {}, !.queued = << >>, !.done = << >>]
  BY <1>1, <1>2 DEF FreeBuffers
<1>5. /\ sink' \in SinkState /\ sink'.nbufs = 0 /\ sink'.queued = << >> /\ sink'.done = << >>
      /\ sink'.mem = {} /\ sink'.dmabuf = {} /\ sink'.kbufs = 0 /\ sink'.streaming = sink.streaming
  <2>1. sink \in SinkState /\ << >> \in Seq(Nat) /\ {} \in SUBSET Nat /\ 0 \in Nat
    BY Known
  <2> QED  BY <1>4, <2>1 DEF SinkState
<1>6. /\ camera' \in CameraState /\ camera'.queued = << >> /\ camera'.completed = << >>
      /\ camera'.on = FALSE
  BY <1>3 DEF CameraState, NoCamera
<1>7. Types' /\ Live'
  BY <1>1, <1>5, <1>6 DEF IndInv, Types, Live
<1>8. Backed'
  BY <1>1, <1>6 DEF Backed
<1>9. Apart(Frames')
  <2> DEFINE F == Frames
             G == Frames'
  <2>1. \A p \in Parties : G[p] = F[p] \/ G[p] = << >>
    BY <1>1, <1>5, <1>6, FramesFacts DEF Parties
  <2>2. Apart(F)
    BY Known
  <2> HIDE DEF F, G
  <2>3. Apart(G)
    BY <2>1, <2>2, LostFacts
  <2> QED  BY <2>3 DEF G
<1>10. Rest' /\ Stopping'
  BY <1>1, <1>2, <1>3, <1>5, NBufsAssumption DEF Rest, Released, Bare, Stopping
<1>11. HostOrder'
  BY <1>1 DEF IndInv, HostOrder
<1>12. Phases'
  BY <1>1 DEF IndInv, Phases, PhaseKept
<1>13. Apart(Frames)'
  BY <1>9 DEF Apart
<1> QED  BY <1>7, <1>8, <1>10, <1>11, <1>12, <1>13 DEF IndInv

-----------------------------------------------------------------------------
(* The start of a stream *)

\* A device that has no frames and does not stream.
Idle(d) == d \in SinkState /\ d.queued = << >> /\ d.done = << >> /\ ~d.streaming

\* REQBUFS grants buffers, or leaves a device without any that it has asked for.
LEMMA AllocFacts ==
  ASSUME NEW d, Idle(d), Bare(d), NEW n \in Nat \ {0}, NEW b \in AllocBuffers(d, MemType, n)
  PROVE  /\ b.ret \in {"ok", "error"} /\ Idle(b.dev)
         /\ b.ret = "error" => Bare(b.dev)
         /\ b.ret = "ok" => b.dev.nbufs # 0 /\ b.dev.kbufs # 0
<1>1. PICK mt \in {"MMAP", "DMABUF"} : mt = MemType
  BY DEF MemType
<1>2. d \in SinkState
  BY DEF Idle
<1>3. ASSUME NEW g \in Nat \ {0}, b = Ok([d EXCEPT !.nbufs = g, !.kbufs = g, !.memtype = mt])
      PROVE  b.ret = "ok" /\ Idle(b.dev) /\ b.dev.nbufs # 0 /\ b.dev.kbufs # 0
  <2>1. b.ret = "ok" /\ b.dev = [d EXCEPT !.nbufs = g, !.kbufs = g, !.memtype = mt]
    BY <1>3 DEF Ok
  <2>2. /\ b.dev \in SinkState /\ b.dev.nbufs = g /\ b.dev.kbufs = g
        /\ b.dev.queued = d.queued /\ b.dev.done = d.done /\ b.dev.streaming = d.streaming
    BY <1>2, <2>1 DEF SinkState
  <2> QED  BY <2>1, <2>2 DEF Idle
<1>4. ASSUME b = Failed(d)
      PROVE  b.ret = "error" /\ Idle(b.dev) /\ Bare(b.dev)
  BY <1>4 DEF Failed
<1>5. ASSUME b = Failed([d EXCEPT !.kbufs = NBufs + 1])
      PROVE  b.ret = "error" /\ Idle(b.dev) /\ Bare(b.dev)
  <2>1. b.ret = "error" /\ b.dev = [d EXCEPT !.kbufs = NBufs + 1]
    BY <1>5 DEF Failed
  <2>2. NBufs + 1 \in Nat /\ NBufs + 1 \notin 1 .. NBufs
    BY NBufsAssumption
  <2>3. /\ b.dev \in SinkState /\ b.dev.nbufs = d.nbufs /\ b.dev.mem = d.mem
        /\ b.dev.kbufs = NBufs + 1 /\ b.dev.dmabuf = d.dmabuf
        /\ b.dev.queued = d.queued /\ b.dev.done = d.done /\ b.dev.streaming = d.streaming
    BY <1>2, <2>1, <2>2 DEF SinkState
  <2> QED  BY <2>1, <2>2, <2>3 DEF Idle, Bare
<1>6. FreeBuffers(d) = d
  BY DEF FreeBuffers, Bare
<1>7. FreeBuffers([d EXCEPT !.kbufs = NBufs + 1]) = [d EXCEPT !.kbufs = NBufs + 1]
  <2>1. [d EXCEPT !.kbufs = NBufs + 1].nbufs = 0
    BY <1>2 DEF SinkState, Bare
  <2> QED  BY <2>1 DEF FreeBuffers
<1>8. \/ \E g \in Nat \ {0} : b = Ok([d EXCEPT !.nbufs = g, !.kbufs = g, !.memtype = mt])
      \/ b = Failed(d)
      \/ b = Failed([d EXCEPT !.kbufs = NBufs + 1])
  <2>1. \/ \E g \in {n} \cup If("fewer", {n - 1} \ {0}) :
             b = Ok([d EXCEPT !.nbufs = g, !.kbufs = g, !.memtype = mt])
        \/ b = Failed(FreeBuffers(d))
        \/ b = Failed(FreeBuffers([d EXCEPT !.kbufs = NBufs + 1]))
    BY <1>1 DEF AllocBuffers, If, Bare
  <2>2. {n} \cup If("fewer", {n - 1} \ {0}) \subseteq Nat \ {0}
    BY DEF If
  <2> QED  BY <1>6, <1>7, <2>1, <2>2
<1> QED  BY <1>3, <1>4, <1>5, <1>8

\* Mapping or importing the buffers, which may fail half-way.
LEMMA SinkBuffersFacts ==
  ASSUME NEW d, Idle(d), d.nbufs # 0, d.kbufs # 0, NEW n \in Nat \ {0}, NEW m \in SinkBuffers(d, n)
  PROVE  /\ m.ret \in {"ok", "error"} /\ Idle(m.dev) /\ m.dev.nbufs # 0 /\ m.dev.kbufs # 0
         /\ m.ret = "ok" /\ type = "ENCODED" => m.dev.mem # {}
<1>1. d \in SinkState /\ d.nbufs \in Nat
  BY DEF Idle, SinkState
<1> DEFINE Some(k) == 0 .. k - 1
<1>2. \A k \in Nat : Some(k) \in SUBSET Nat
  OBVIOUS
<1>3. Some(d.nbufs) # {}
  <2>1. d.nbufs \in Nat /\ d.nbufs # 0
    BY <1>1
  <2>2. \A k \in Nat \ {0} : 0 \in 0 .. k - 1
    OBVIOUS
  <2> QED  BY <2>1, <2>2
<1> HIDE DEF Some
<1>4. ASSUME NEW r \in {"ok", "error"}, NEW s \in SUBSET Nat,
             m = [ret |-> r, dev |-> [d EXCEPT !.mem = s]]
      PROVE  m.ret = r /\ m.dev.mem = s /\ Idle(m.dev) /\ m.dev.nbufs # 0 /\ m.dev.kbufs # 0
  <2>1. m.ret = r /\ m.dev = [d EXCEPT !.mem = s]
    BY <1>4
  <2>2. /\ m.dev \in SinkState /\ m.dev.nbufs = d.nbufs /\ m.dev.mem = s /\ m.dev.kbufs = d.kbufs
        /\ m.dev.queued = d.queued /\ m.dev.done = d.done /\ m.dev.streaming = d.streaming
    BY <1>1, <2>1 DEF SinkState
  <2> QED  BY <2>1, <2>2 DEF Idle
<1>5. ASSUME NEW r \in {"ok", "error"}, NEW s \in SUBSET Nat,
             m = [ret |-> r, dev |-> [d EXCEPT !.dmabuf = s]]
      PROVE  m.ret = r /\ Idle(m.dev) /\ m.dev.nbufs # 0 /\ m.dev.kbufs # 0
  <2>1. m.ret = r /\ m.dev = [d EXCEPT !.dmabuf = s]
    BY <1>5
  <2>2. /\ m.dev \in SinkState /\ m.dev.nbufs = d.nbufs /\ m.dev.kbufs = d.kbufs
        /\ m.dev.queued = d.queued /\ m.dev.done = d.done /\ m.dev.streaming = d.streaming
    BY <1>1, <2>1 DEF SinkState
  <2> QED  BY <2>1, <2>2 DEF Idle
<1>6. ASSUME m = Failed(d) PROVE m.ret = "error" /\ Idle(m.dev) /\ m.dev.nbufs # 0 /\ m.dev.kbufs # 0
  BY <1>6 DEF Failed
<1>7. \A k \in 0 .. d.nbufs - 1 : k \in Nat
  BY <1>1
<1>8. CASE type = "ENCODED"
  <2>1. \/ m = Failed(d)
        \/ m = [ret |-> "ok", dev |-> [d EXCEPT !.mem = Some(d.nbufs)]]
        \/ \E k \in 0 .. d.nbufs - 1 : m = [ret |-> "error", dev |-> [d EXCEPT !.mem = Some(k)]]
    BY <1>8 DEF SinkBuffers, MmapBuffers, If, Ok, Failed, Some
  <2>2. CASE m = [ret |-> "ok", dev |-> [d EXCEPT !.mem = Some(d.nbufs)]]
    <3>1. Some(d.nbufs) \in SUBSET Nat
      BY <1>1, <1>2
    <3> QED  BY <1>3, <1>4, <2>2, <3>1
  <2>3. ASSUME NEW k \in 0 .. d.nbufs - 1, m = [ret |-> "error", dev |-> [d EXCEPT !.mem = Some(k)]]
        PROVE  m.ret = "error" /\ Idle(m.dev) /\ m.dev.nbufs # 0 /\ m.dev.kbufs # 0
    <3>1. Some(k) \in SUBSET Nat
      BY <1>2, <1>7
    <3> QED  BY <1>4, <2>3, <3>1
  <2> QED  BY <1>6, <2>1, <2>2, <2>3
<1>9. CASE type # "ENCODED"
  <2>1. \/ m = Failed(d)
        \/ \E r \in {"ok", "error"} : \E k \in Nat :
             m = [ret |-> r, dev |-> [d EXCEPT !.dmabuf = Some(k)]]
    <3>1. SinkBuffers(d, n) = ImportBuffers(d, n)
      BY <1>9 DEF SinkBuffers
    <3>2. \/ m = Failed(d)
          \/ m = Ok([d EXCEPT !.dmabuf = Some(d.nbufs)])
          \/ \E k \in 0 .. d.nbufs - 1 : m = Failed([d EXCEPT !.dmabuf = Some(k)])
          \/ \E k \in 0 .. d.nbufs - 1 : m = Ok([d EXCEPT !.dmabuf = Some(k)])
      BY <3>1 DEF ImportBuffers, If, Some
    <3> QED  BY <1>1, <1>7, <3>2 DEF Ok, Failed
  <2>2. ASSUME NEW r \in {"ok", "error"}, NEW k \in Nat,
               m = [ret |-> r, dev |-> [d EXCEPT !.dmabuf = Some(k)]]
        PROVE  m.ret = r /\ Idle(m.dev) /\ m.dev.nbufs # 0 /\ m.dev.kbufs # 0
    <3>1. Some(k) \in SUBSET Nat
      BY <1>2
    <3> QED  BY <1>5, <2>2, <3>1
  <2> QED  BY <1>6, <1>9, <2>1, <2>2
<1> QED  BY <1>8, <1>9

\* The error path of a start releases what was allocated.
LEMMA FreeFacts ==
  ASSUME NEW d, Idle(d), d.nbufs # 0
  PROVE  Idle(FreeBuffers(d)) /\ Bare(FreeBuffers(d))
<1>1. d \in SinkState /\ ~d.streaming
  BY DEF Idle
<1>2. PICK e \in SinkState : e = [d EXCEPT !.nbufs = 0, !.kbufs = 0, !.mem = {}, !.dmabuf = {},
                                           !.queued = << >>, !.done = << >>]
  <2>1. << >> \in Seq(Nat) /\ {} \in SUBSET Nat /\ 0 \in Nat
    OBVIOUS
  <2>2. [d EXCEPT !.nbufs = 0, !.kbufs = 0, !.mem = {}, !.dmabuf = {},
                  !.queued = << >>, !.done = << >>] \in SinkState
    BY <1>1, <2>1 DEF SinkState
  <2> QED  BY <2>2
<1>3. FreeBuffers(d) = e
  BY <1>1, <1>2 DEF FreeBuffers
<1>4. /\ e.nbufs = 0 /\ e.kbufs = 0 /\ e.mem = {} /\ e.dmabuf = {}
      /\ e.queued = << >> /\ e.done = << >> /\ e.streaming = d.streaming
  BY <1>1, <1>2 DEF SinkState
<1>5. 0 \notin 1 .. NBufs
  BY NBufsAssumption
<1> QED  BY <1>1, <1>3, <1>4, <1>5 DEF Idle, Bare

\* A start that failed, or a device whose driver was asked for too many buffers.
LEMMA NotStarted ==
  ASSUME IndInv, PhaseKept, pc = "loop", ~watched, evq # << >>, evq' = Tail(evq), evq' = << >>,
         UNCHANGED <<type, camera, encoding, watched, pc, kstate>>,
         Idle(sink'), Bare(sink')
  PROVE  IndInv'
<1>1. Released
  BY DEF IndInv, Rest
<1>2. sink' \in SinkState /\ sink'.queued = << >> /\ sink'.done = << >> /\ ~sink'.streaming
  BY DEF Idle
<1>3. Types' /\ Live'
  BY <1>2, Delivered DEF IndInv, Types, Live
<1>4. Backed'
  BY <1>1 DEF Backed, Released, Bare, NoCamera
<1>5. Apart(Frames')
  <2> DEFINE F == Frames
             G == Frames'
  <2>1. \A p \in Parties : G[p] = F[p]
    BY <1>1, <1>2, FramesFacts DEF Parties, Released, Bare
  <2>2. Apart(F)
    BY Known
  <2> HIDE DEF F, G
  <2>3. Apart(G)
    BY <2>1, <2>2, LostFacts
  <2> QED  BY <2>3 DEF G
<1>6. Rest' /\ Stopping'
  BY <1>1, <1>2 DEF Rest, Released, Bare, Stopping
<1>7. HostOrder'
  BY Delivered DEF HostOrder
<1>8. Phases'
  BY DEF IndInv, Phases, PhaseKept
<1>9. Apart(Frames)'
  BY <1>5 DEF Apart
<1> QED  BY <1>3, <1>4, <1>6, <1>7, <1>8, <1>9 DEF IndInv

\* The camera is asked for at most as many buffers as the device.
LEMMA GrantedFacts == Granted \subseteq Nat \ {0} /\ \A n \in Granted : n <= NBufs
BY NBufsAssumption DEF Granted

\* A start that went through: the camera has all buffers, or has not started, or
\* has finished with some before a request was refused.
LEMMA Started ==
  ASSUME IndInv, PhaseKept, pc = "loop", ~watched, evq # << >>, evq' = Tail(evq), evq' = << >>,
         UNCHANGED <<type, encoding, pc>>, watched' = TRUE, kstate' = "streaming",
         NEW n \in Nat \ {0}, camera' \in CameraStreamOn([camera EXCEPT !.nbufs = n]),
         sink' \in SinkState, sink'.queued = << >>, sink'.done = << >>, sink'.nbufs # 0,
         sink'.streaming, type = "ENCODED" => sink'.mem # {}
  PROVE  IndInv'
<1>1. Released
  BY DEF IndInv, Rest
<1>2. encoding = << >> /\ camera = NoCamera
  BY <1>1 DEF Released
<1> DEFINE First(m) == [k \in 1 .. m |-> k - 1]
           made == 0 .. n - 1
<1>3. ASSUME NEW m \in 0 .. n
      PROVE  First(m) \in Seq(Nat) /\ Len(First(m)) = m /\ \A k \in 1 .. m : First(m)[k] \in made
  OBVIOUS
<1>4. made \in SUBSET Nat /\ n \in Nat /\ n \in 0 .. n /\ \A m \in 0 .. n - 1 : m \in 0 .. n
  OBVIOUS
<1>5. PICK c \in CameraState : /\ c = [NoCamera EXCEPT !.nbufs = n] /\ c.nbufs = n
                               /\ c.queued = << >> /\ c.completed = << >>
  <2>1. << >> \in Seq(Nat) /\ {} \in SUBSET Nat
    OBVIOUS
  <2>2. NoCamera \in CameraState /\ NoCamera.queued = << >> /\ NoCamera.completed = << >>
    BY <2>1 DEF NoCamera, CameraState
  <2> HIDE DEF NoCamera
  <2> DEFINE e == [NoCamera EXCEPT !.nbufs = n]
  <2>3. e \in CameraState /\ e.nbufs = n
    BY <1>4, <2>2 DEF CameraState
  <2>4. e.queued = NoCamera.queued /\ e.completed = NoCamera.completed
    BY <2>2 DEF CameraState
  <2> HIDE DEF e
  <2>5. e.queued = << >> /\ e.completed = << >>
    BY <2>2, <2>4
  <2> QED  BY <2>3, <2>5 DEF e
<1>6. \/ camera' = [[c EXCEPT !.requests = made] EXCEPT !.on = TRUE, !.queued = First(n)]
      \/ camera' = [c EXCEPT !.requests = made]
      \/ \E m \in 0 .. n - 1 : camera' = [[c EXCEPT !.requests = made] EXCEPT !.completed = First(m)]
  <2>1. camera' \in CameraStreamOn(c)
    BY <1>2, <1>5
  <2>2. c.nbufs = n
    BY <1>5
  <2> QED  BY <2>1, <2>2 DEF CameraStreamOn
<1> HIDE DEF First, made
<1>7. /\ camera' \in CameraState /\ camera'.nbufs = n /\ camera'.requests = made
      /\ \/ camera'.completed = << >> /\ camera'.queued = First(n)
         \/ camera'.completed = << >> /\ camera'.queued = << >>
         \/ \E m \in 0 .. n : camera'.completed = First(m) /\ camera'.queued = << >>
  <2>1. PICK d \in CameraState : /\ d = [c EXCEPT !.requests = made] /\ d.nbufs = n /\ d.requests = made
                                 /\ d.queued = << >> /\ d.completed = << >>
    <3> DEFINE e == [c EXCEPT !.requests = made]
    <3>1. e \in CameraState /\ e.nbufs = c.nbufs /\ e.requests = made
          /\ e.queued = c.queued /\ e.completed = c.completed
      BY <1>4 DEF CameraState
    <3> HIDE DEF e
    <3>2. e.nbufs = n /\ e.queued = << >> /\ e.completed = << >>
      BY <1>5, <3>1
    <3> QED  BY <3>1, <3>2 DEF e
  <2>2. CASE camera' = [d EXCEPT !.on = TRUE, !.queued = First(n)]
    <3>1. First(n) \in Seq(Nat)
      BY <1>3, <1>4
    <3> QED  BY <2>1, <2>2, <3>1 DEF CameraState
  <2>3. CASE camera' = d
    BY <2>1, <2>3
  <2>4. ASSUME NEW m \in 0 .. n - 1, camera' = [d EXCEPT !.completed = First(m)]
        PROVE  /\ camera' \in CameraState /\ camera'.nbufs = n /\ camera'.requests = made
               /\ camera'.completed = First(m) /\ camera'.queued = << >> /\ m \in 0 .. n
    <3>1. First(m) \in Seq(Nat) /\ m \in 0 .. n
      BY <1>3, <1>4
    <3> QED  BY <2>1, <2>4, <3>1 DEF CameraState
  <2> QED  BY <1>6, <2>1, <2>2, <2>3, <2>4
<1>8. Types'
  BY <1>7, Delivered DEF IndInv, Types
<1>9. Live'
  <2>1. ASSUME NEW s, s = << >> \/ \E m \in 0 .. n : s = First(m), NEW k \in 1 .. Len(s)
        PROVE  s[k] \in made
    BY <1>3, <2>1
  <2>2. camera'.queued = << >> \/ \E m \in 0 .. n : camera'.queued = First(m)
    BY <1>4, <1>7
  <2>3. camera'.completed = << >> \/ \E m \in 0 .. n : camera'.completed = First(m)
    BY <1>7
  <2> QED  BY <1>7, <2>1, <2>2, <2>3 DEF Live
<1>10. Backed'
  BY <1>2, <1>7 DEF Backed
<1>11. Apart(Frames')
  <2> DEFINE G == Frames'
  <2>1. G["encoding"] = << >> /\ G["sent"] = << >> /\ G["read"] = << >>
    <3>1. encoding' = encoding
      OBVIOUS
    <3> QED  BY <1>2, <3>1, FramesFacts
  <2>2. \/ G["completed"] = << >> /\ G["queued"] = First(n)
        \/ G["completed"] = << >> /\ G["queued"] = << >>
        \/ \E m \in 0 .. n : G["completed"] = First(m) /\ G["queued"] = << >>
    BY <1>7, FramesFacts
  <2>3. "queued" \in Parties /\ "completed" \in Parties
    BY DEF Parties
  <2> HIDE DEF G
  <2>4. ASSUME NEW a \in {"queued", "completed"}, NEW m \in 0 .. n, G[a] = First(m),
               \A p \in {"queued", "completed"} \ {a} : G[p] = << >>
        PROVE  Apart(G)
    <3>1. \A p \in Parties \ {a} : G[p] = << >>
      BY <2>1, <2>4 DEF Parties
    <3>2. G[a] = [k \in 1 .. m |-> k - 1]
      BY <2>4 DEF First
    <3>3. m \in Nat /\ a \in Parties
      BY <1>4, <2>3
    <3> QED  BY <3>1, <3>2, <3>3, FilledFacts
  <2>5. ASSUME G["completed"] = << >>, G["queued"] = << >> PROVE Apart(G)
    <3>1. \A p \in Parties : G[p] = << >>
      BY <2>1, <2>5 DEF Parties
    <3>2. << >> \in Seq(Nat) /\ 1 .. Len(<< >>) = {}
      OBVIOUS
    <3>3. \A p \in Parties : G[p] \in Seq(Nat) /\ 1 .. Len(G[p]) = {}
      BY <3>1, <3>2
    <3> QED  BY <3>3 DEF Apart
  <2>6. ASSUME G["completed"] = << >>, G["queued"] = First(n) PROVE Apart(G)
    <3>1. "queued" \in {"queued", "completed"} /\ {"queued", "completed"} \ {"queued"} = {"completed"}
      OBVIOUS
    <3> QED  BY <1>4, <2>4, <2>6, <3>1
  <2>7. ASSUME NEW m \in 0 .. n, G["completed"] = First(m), G["queued"] = << >> PROVE Apart(G)
    <3>1. "completed" \in {"queued", "completed"} /\ {"queued", "completed"} \ {"completed"} = {"queued"}
      OBVIOUS
    <3> QED  BY <2>4, <2>7, <3>1
  <2>8. Apart(G)
    BY <2>2, <2>5, <2>6, <2>7
  <2> QED  BY <2>8 DEF G
<1>12. Rest' /\ Stopping'
  BY DEF Rest, Stopping
<1>13. HostOrder'
  BY DEF HostOrder
<1>14. Phases'
  BY Delivered DEF IndInv, Phases, PhaseKept
<1>15. Apart(Frames)'
  BY <1>11 DEF Apart
<1> QED  BY <1>8, <1>9, <1>10, <1>12, <1>13, <1>14, <1>15 DEF IndInv

\* The STREAMON event, with every failure of the start.
LEMMA HandleStreamOnInv == IndInv /\ HandleStreamOn /\ PhaseKept => IndInv'
<1> SUFFICES ASSUME IndInv, HandleStreamOn, PhaseKept PROVE IndInv'
  OBVIOUS
<1>1. UNCHANGED <<type, encoding, pc>> /\ pc = "loop" /\ Start
  BY DEF HandleStreamOn, Deliver, format
<1>2. evq # << >> /\ evq' = Tail(evq) /\ Head(evq) = <<"STREAMON">>
  BY DEF HandleStreamOn, Deliver
<1>3. <<"STREAMON">> # <<"STREAMOFF">>
  OBVIOUS
<1>4. evq' = << >> /\ ~watched /\ kstate = "connected"
  BY <1>2, <1>3, Delivered
<1>5. Released /\ ~sink.streaming
  BY <1>1, <1>4 DEF IndInv, Rest, Stopping
<1>6. Idle(sink) /\ Bare(sink)
  BY <1>5, Known DEF Idle, Released, Bare
<1>a. \A n \in Granted : n \in Nat \ {0}
  BY GrantedFacts
<1>7. kstate' = IF sink'.streaming THEN "streaming" ELSE kstate
  BY <1>5 DEF HandleStreamOn
<1>8. ASSUME UNCHANGED <<camera, watched>>, Idle(sink'), Bare(sink')
      PROVE  IndInv'
  <2>1. kstate' = kstate
    BY <1>7, <1>8 DEF Idle
  <2> QED  BY <1>1, <1>2, <1>4, <1>8, <2>1, NotStarted
<1>9. CASE UNCHANGED <<camera, sink, watched>>
  BY <1>6, <1>8, <1>9
<1>10. ASSUME NEW n \in Granted, NEW b \in AllocBuffers(sink, MemType, n), b.ret = "error", sink' = b.dev,
              UNCHANGED <<camera, watched>>
       PROVE  IndInv'
  BY <1>6, <1>8, <1>10, <1>a, AllocFacts
<1>11. ASSUME NEW n \in Granted, NEW b \in AllocBuffers(sink, MemType, n), b.ret = "ok",
              NEW m \in SinkBuffers(b.dev, n), m.ret = "error", sink' = FreeBuffers(m.dev),
              UNCHANGED <<camera, watched>>
       PROVE  IndInv'
  <2>1. Idle(b.dev) /\ b.dev.nbufs # 0 /\ b.dev.kbufs # 0
    BY <1>6, <1>11, <1>a, AllocFacts
  <2>2. Idle(m.dev) /\ m.dev.nbufs # 0
    BY <1>11, <2>1, <1>a, SinkBuffersFacts
  <2> QED  BY <1>8, <1>11, <2>2, FreeFacts
<1>12. ASSUME NEW n \in Granted, NEW b \in AllocBuffers(sink, MemType, n), b.ret = "ok",
              NEW m \in SinkBuffers(b.dev, n), m.ret = "ok",
              camera' \in CameraStreamOn([camera EXCEPT !.nbufs = n]),
              NEW on \in StreamOn(m.dev), sink' = on.dev, watched' = TRUE
       PROVE  IndInv'
  <2>1. Idle(b.dev) /\ b.dev.nbufs # 0 /\ b.dev.kbufs # 0
    BY <1>6, <1>12, <1>a, AllocFacts
  <2>2. /\ Idle(m.dev) /\ m.dev.nbufs # 0 /\ m.dev.kbufs # 0
        /\ type = "ENCODED" => m.dev.mem # {}
    BY <1>12, <2>1, <1>a, SinkBuffersFacts
  <2>3. sink' = [m.dev EXCEPT !.streaming = TRUE]
    <3>1. "streamon" \notin Faults
      BY SinkFaultsAssumption
    <3>2. on = Ok([m.dev EXCEPT !.streaming = TRUE])
      BY <2>2, <3>1 DEF StreamOn, If
    <3> QED  BY <1>12, <3>2 DEF Ok
  <2>4. m.dev \in SinkState /\ m.dev.queued = << >> /\ m.dev.done = << >>
    BY <2>2 DEF Idle
  <2>5. /\ sink' \in SinkState /\ sink'.queued = m.dev.queued /\ sink'.done = m.dev.done
        /\ sink'.nbufs = m.dev.nbufs /\ sink'.mem = m.dev.mem /\ sink'.streaming = TRUE
    BY <2>3, <2>4 DEF SinkState
  <2>6. kstate' = "streaming"
    BY <1>7, <2>5
  <2> QED  BY <1>1, <1>2, <1>4, <1>12, <2>2, <2>4, <2>5, <2>6, <1>a, Started
<1> QED  BY <1>1, <1>9, <1>10, <1>11, <1>12 DEF Start

-----------------------------------------------------------------------------
(* The host *)

\* The host changes only what it has asked for.
LEMMA AskedFor ==
  ASSUME IndInv, UNCHANGED <<type, camera, encoding, sink, watched, pc, phase>>, kstate # "gone",
         kstate' \in {"connected", "streaming"}, evq' \in Seq(Requests), HostOrder'
  PROVE  IndInv'
<1>1. Types' /\ Live' /\ Backed'
  BY DEF IndInv, Types, Live, Backed
<1>2. Apart(Frames)'
  <2>1. Frames' = Frames
    BY DEF Frames
  <2> QED  BY <2>1 DEF IndInv, Apart
<1>3. Rest' /\ Stopping'
  BY DEF IndInv, Rest, Released, Bare, Stopping
<1>4. Phases'
  BY DEF IndInv, Phases
<1> QED  BY <1>1, <1>2, <1>3, <1>4 DEF IndInv

\* A request that comes after those the loop has not seen yet.
LEMMA HostRequestInv ==
  ASSUME IndInv, NEW e \in Requests, e # <<"STREAMOFF">>, HostRequest(e),
         UNCHANGED <<type, camera, encoding, sink, watched, pc, phase>>
  PROVE  IndInv'
<1>1. kstate = "connected" /\ kstate' = "connected" /\ evq' = Append(evq, e) /\ evq \in Seq(Requests)
  BY Known DEF HostRequest
<1>2. \A k \in 1 .. Len(evq) : evq[k] # <<"STREAMON">>
  BY DEF HostRequest, Elements
<1>3. \A k \in 1 .. Len(evq) : evq[k] = <<"STREAMOFF">> => k = 1 /\ watched
  BY DEF IndInv, HostOrder
<1>4. watched => evq # << >> /\ Head(evq) = <<"STREAMOFF">>
  BY <1>1 DEF IndInv, HostOrder
<1> DEFINE t == Append(evq, e)
<1>5. /\ t \in Seq(Requests) /\ Len(evq) \in Nat /\ Len(t) = Len(evq) + 1 /\ t[Len(evq) + 1] = e
      /\ \A k \in 1 .. Len(evq) : t[k] = evq[k]
      /\ \A k \in 1 .. Len(t) : k \in 1 .. Len(evq) \/ k = Len(evq) + 1
  BY <1>1
<1>6. watched => t # << >> /\ Head(t) = <<"STREAMOFF">>
  <2> SUFFICES ASSUME watched PROVE t # << >> /\ Head(t) = <<"STREAMOFF">>
    OBVIOUS
  <2>1. evq # << >> /\ Head(evq) = <<"STREAMOFF">>
    BY <1>4
  <2>2. t # << >> /\ Head(t) = Head(evq)
    BY <1>1, <2>1
  <2> QED  BY <2>1, <2>2
<1> HIDE DEF t
<1>7. \A k \in 1 .. Len(t) : t[k] = <<"STREAMON">> => k = Len(t)
  BY <1>2, <1>5
<1>8. \A k \in 1 .. Len(t) : t[k] = <<"STREAMOFF">> => k = 1 /\ watched
  BY <1>3, <1>5
<1>9. evq' = t
  BY <1>1 DEF t
<1>10. HostOrder'
  BY <1>1, <1>6, <1>7, <1>8, <1>9 DEF HostOrder
<1> QED  BY <1>1, <1>5, <1>9, <1>10, AskedFor

\* The host commits a format, starts a stream or ends it.
LEMMA HostInv == IndInv /\ Host /\ UNCHANGED life => IndInv'
<1> SUFFICES ASSUME IndInv, Host, UNCHANGED life PROVE IndInv'
  OBVIOUS
<1>1. UNCHANGED <<type, camera, encoding, sink, watched, pc, phase>>
  BY DEF Host, format, life
<1>2. CASE HostCommit
  <2>1. PICK f \in Formats : HostRequest(<<"COMMIT", f>>)
    BY <1>2 DEF HostCommit
  <2>2. <<"COMMIT", f>> \in Requests /\ <<"COMMIT", f>> # <<"STREAMOFF">>
    BY DEF Requests
  <2> QED  BY <1>1, <2>1, <2>2, HostRequestInv
<1>3. CASE HostStreamOn
  <2>1. HostRequest(<<"STREAMON">>)
    BY <1>3 DEF HostStreamOn
  <2>2. <<"STREAMON">> \in Requests /\ <<"STREAMON">> # <<"STREAMOFF">>
    BY DEF Requests
  <2> QED  BY <1>1, <2>1, <2>2, HostRequestInv
<1>4. CASE HostStreamOff
  <2>1. watched /\ evq = << >> /\ kstate = "streaming" /\ kstate' = "connected"
    BY <1>4 DEF HostStreamOff, IndInv, HostOrder
  <2>2. evq' = << <<"STREAMOFF">> >>
    BY <1>4, <2>1 DEF HostStreamOff
  <2>3. <<"STREAMOFF">> \in Requests /\ <<"STREAMOFF">> # <<"STREAMON">>
    BY DEF Requests
  <2>4. /\ evq' \in Seq(Requests) /\ evq' # << >> /\ Head(evq') = <<"STREAMOFF">>
        /\ \A k \in 1 .. Len(evq') : k = 1 /\ evq'[k] = <<"STREAMOFF">>
    BY <2>2, <2>3
  <2>5. HostOrder'
    BY <1>1, <2>1, <2>3, <2>4 DEF HostOrder
  <2> QED  BY <1>1, <2>1, <2>4, <2>5, AskedFor
<1> QED  BY <1>2, <1>3, <1>4 DEF Host

-----------------------------------------------------------------------------
(* The cleanup *)

\* Closing the device gives its frames back and leaves the encoder's memory.
LEMMA DeleteStreamInv == IndInv /\ DeleteStream => IndInv'
<1> SUFFICES ASSUME IndInv, DeleteStream PROVE IndInv'
  OBVIOUS
<1>1. /\ UNCHANGED <<type, camera, encoding, watched, pc>> /\ phase = "stream" /\ phase' = "signal"
      /\ evq' = << >> /\ kstate' = "gone"
      /\ sink' = [StreamOff(sink) EXCEPT !.kbufs = 0, !.dmabuf = {}]
  BY AfterFacts DEF DeleteStream, CleanupStep, format
<1>2. pc = "loop"
  BY <1>1, Known DEF Phases
<1>3. /\ sink' \in SinkState /\ sink'.queued = << >> /\ sink'.done = << >> /\ sink'.streaming = FALSE
      /\ sink'.nbufs = sink.nbufs /\ sink'.mem = sink.mem /\ sink'.kbufs = 0 /\ sink'.dmabuf = {}
  <2>1. sink \in SinkState /\ << >> \in Seq(Nat) /\ {} \in SUBSET Nat /\ 0 \in Nat
    BY Known
  <2>2. PICK d \in SinkState : /\ d = StreamOff(sink) /\ d.queued = << >> /\ d.done = << >>
                               /\ d.streaming = FALSE /\ d.nbufs = sink.nbufs /\ d.mem = sink.mem
    <3> DEFINE e == StreamOff(sink)
    <3>1. /\ e \in SinkState /\ e.queued = << >> /\ e.done = << >> /\ e.streaming = FALSE
          /\ e.nbufs = sink.nbufs /\ e.mem = sink.mem
      BY <2>1 DEF StreamOff, SinkState
    <3> HIDE DEF e
    <3> QED  BY <3>1 DEF e
  <2>3. sink' = [d EXCEPT !.kbufs = 0, !.dmabuf = {}]
    BY <1>1, <2>2
  <2> QED  BY <2>1, <2>2, <2>3 DEF SinkState
<1>4. Types' /\ Live'
  <2>1. << >> \in Seq(Requests)
    OBVIOUS
  <2> QED  BY <1>1, <1>3, <2>1 DEF IndInv, Types, Live
<1>5. Backed'
  BY <1>1, <1>3 DEF IndInv, Backed
<1>6. Apart(Frames')
  <2> DEFINE F == Frames
             G == Frames'
  <2>1. \A p \in Parties : G[p] = F[p] \/ G[p] = << >>
    BY <1>1, <1>3, FramesFacts DEF Parties
  <2>2. Apart(F)
    BY Known
  <2> HIDE DEF F, G
  <2>3. Apart(G)
    BY <2>1, <2>2, LostFacts
  <2> QED  BY <2>3 DEF G
<1>7. Rest' /\ Stopping'
  BY <1>1, <1>2, <1>3, NBufsAssumption DEF IndInv, Rest, Released, Bare, Stopping
<1>8. HostOrder'
  BY <1>1 DEF HostOrder
<1>9. Phases'
  BY <1>1, <1>2 DEF Phases, Early, Late
<1>10. Apart(Frames)'
  BY <1>6 DEF Apart
<1> QED  BY <1>4, <1>5, <1>7, <1>8, <1>9, <1>10 DEF IndInv

\* The source goes while the encoder may still have frames.
LEMMA DeleteSourceInv == IndInv /\ DeleteSource => IndInv'
<1> SUFFICES ASSUME IndInv, DeleteSource PROVE IndInv'
  OBVIOUS
<1>1. /\ UNCHANGED <<type, encoding, sink, watched, pc, evq, kstate>>
      /\ phase = "source" /\ phase' = "return"
      /\ camera' = [NoCamera EXCEPT !.nbufs = camera.nbufs]
  BY AfterFacts DEF DeleteSource, CleanupStep, format, host
<1>2. pc = "loop" /\ kstate = "gone"
  BY <1>1, Known DEF Phases, Early, Late
<1>3. /\ camera' \in CameraState /\ camera'.queued = << >> /\ camera'.completed = << >>
      /\ camera'.on = FALSE /\ camera'.nbufs = camera.nbufs
  <2>1. camera.nbufs \in Nat /\ << >> \in Seq(Nat) /\ {} \in SUBSET Nat
    BY Known
  <2> QED  BY <1>1, <2>1 DEF CameraState, NoCamera
<1>4. Types' /\ Live'
  BY <1>1, <1>3 DEF IndInv, Types, Live
<1>5. Backed'
  BY <1>1, <1>3 DEF IndInv, Backed
<1>6. Apart(Frames')
  <2> DEFINE F == Frames
             G == Frames'
  <2>1. \A p \in Parties : G[p] = F[p] \/ G[p] = << >>
    BY <1>1, <1>3, FramesFacts DEF Parties
  <2>2. Apart(F)
    BY Known
  <2> HIDE DEF F, G
  <2>3. Apart(G)
    BY <2>1, <2>2, LostFacts
  <2> QED  BY <2>3 DEF G
<1>7. Rest' /\ Stopping'
  <2>1. camera = NoCamera => camera' = NoCamera
    BY <1>1 DEF NoCamera
  <2> QED  BY <1>1, <1>2, <2>1 DEF IndInv, Rest, Released, Bare, Stopping
<1>8. HostOrder'
  BY <1>1 DEF IndInv, HostOrder
<1>9. Phases'
  BY <1>1, <1>2 DEF Phases, Early, Late
<1>10. Apart(Frames)'
  BY <1>6 DEF Apart
<1> QED  BY <1>4, <1>5, <1>7, <1>8, <1>9, <1>10 DEF IndInv

\* The process is gone, after its cleanup or in the encoder's call.
LEMMA ProcessEndsInv == IndInv /\ phase \in Late /\ ProcessEnds /\ phase' = "exited" => IndInv'
<1> SUFFICES ASSUME IndInv, phase \in Late, ProcessEnds, phase' = "exited" PROVE IndInv'
  OBVIOUS
<1>1. /\ UNCHANGED <<type, pc, evq, kstate>> /\ camera' = NoCamera /\ encoding' = << >>
      /\ sink' = NewDevice /\ watched' = FALSE
  BY DEF ProcessEnds, format, host
<1>2. pc = "loop" /\ kstate = "gone"
  BY Known DEF Phases, Early, Late
<1>3. /\ camera' \in CameraState /\ camera'.queued = << >> /\ camera'.completed = << >>
      /\ camera'.on = FALSE
  BY <1>1 DEF NoCamera, CameraState
<1>4. /\ sink' \in SinkState /\ sink'.queued = << >> /\ sink'.done = << >> /\ sink'.streaming = FALSE
      /\ Bare(sink')
  BY <1>1, NBufsAssumption DEF NewDevice, SinkState, Bare
<1>5. Types' /\ Live'
  <2>1. Types'
    BY <1>1, <1>3, <1>4 DEF IndInv, Types
  <2>2. Live'
    BY <1>3 DEF Live
  <2> QED  BY <2>1, <2>2
<1>6. Backed'
  BY <1>1, <1>3 DEF Backed
<1>7. Apart(Frames')
  <2> DEFINE F == Frames
             G == Frames'
  <2>1. \A p \in Parties : G[p] = F[p] \/ G[p] = << >>
    BY <1>1, <1>3, <1>4, FramesFacts DEF Parties
  <2>2. Apart(F)
    BY Known
  <2> HIDE DEF F, G
  <2>3. Apart(G)
    BY <2>1, <2>2, LostFacts
  <2> QED  BY <2>3 DEF G
<1>8. Rest' /\ Stopping'
  BY <1>1, <1>2, <1>4 DEF Rest, Released, Bare, Stopping
<1>9. HostOrder'
  BY <1>1, <1>2 DEF IndInv, HostOrder
<1>10. Phases'
  BY <1>1, <1>2 DEF Phases, Early, Late
<1>11. Apart(Frames)'
  BY <1>7 DEF Apart
<1> QED  BY <1>5, <1>6, <1>8, <1>9, <1>10, <1>11 DEF IndInv

-----------------------------------------------------------------------------
(* Every step keeps the invariant *)

\* The program's first state.
LEMMA StartUpInv == StartUp => IndInv
<1> SUFFICES ASSUME StartUp PROVE IndInv
  OBVIOUS
<1>1. /\ type = "DMABUF" /\ camera = NoCamera /\ encoding = << >> /\ sink = NewDevice
      /\ watched = FALSE /\ pc = "loop" /\ evq = << >> /\ kstate = "connected" /\ phase = "setup"
  BY DEF StartUp, Init
<1>2. /\ camera \in CameraState /\ camera.queued = << >> /\ camera.completed = << >>
      /\ camera.on = FALSE
  BY <1>1 DEF NoCamera, CameraState
<1>3. /\ sink \in SinkState /\ sink.queued = << >> /\ sink.done = << >> /\ sink.streaming = FALSE
      /\ Bare(sink)
  BY <1>1, NBufsAssumption DEF NewDevice, SinkState, Bare
<1>4. Types /\ Live
  <2>1. Types
    <3>1. << >> \in Seq(Requests)
      OBVIOUS
    <3> QED  BY <1>1, <1>2, <1>3, <3>1 DEF Types
  <2>2. Live
    BY <1>2 DEF Live
  <2> QED  BY <2>1, <2>2
<1>5. Apart(Frames)
  <2>1. \A p \in Parties : Frames[p] = << >>
    BY <1>1, <1>2, <1>3, FramesFacts DEF Parties
  <2>2. << >> \in Seq(Nat) /\ 1 .. Len(<< >>) = {}
    OBVIOUS
  <2>3. \A p \in Parties : Frames[p] \in Seq(Nat) /\ 1 .. Len(Frames[p]) = {}
    BY <2>1, <2>2
  <2> QED  BY <2>3 DEF Apart
<1>6. Backed
  BY <1>1, <1>2 DEF Backed
<1>7. Rest /\ Stopping
  BY <1>1, <1>3 DEF Rest, Released, Bare, Stopping
<1>8. HostOrder
  BY <1>1 DEF HostOrder
<1>9. Phases
  BY <1>1 DEF Phases, Early, Late
<1> QED  BY <1>4, <1>5, <1>6, <1>7, <1>8, <1>9 DEF IndInv

\* The walk over the descriptors calls one handler.
LEMMA DispatchInv == IndInv /\ Dispatch(Callback) => IndInv'
<1> SUFFICES ASSUME IndInv, Dispatch(Callback) PROVE IndInv'
  OBVIOUS
<1>1. /\ phase = "dispatch" /\ Callback
      /\ phase' = "stream" \/ phase' = "dispatch"
      /\ pc' # "loop" => phase' = "dispatch"
  BY OrderFacts DEF Dispatch
<1>2. PhaseKept
  BY <1>1 DEF PhaseKept, Early, Late
<1>3. CASE HandleCommit
  BY <1>2, <1>3, HandleCommitInv
<1>4. CASE HandleStreamOn
  BY <1>2, <1>4, HandleStreamOnInv
<1>5. CASE VideoProcess
  BY <1>2, <1>5, VideoProcessInv
<1>6. CASE SinkProcess
  BY <1>2, <1>6, SinkProcessInv
<1>7. CASE StopSink
  <2>1. pc' # "loop"
    BY <1>7 DEF StopSink
  <2> QED  BY <1>1, <1>7, <2>1, StopSinkInv
<1>8. CASE StopCamera
  <2>1. pc' # "loop"
    BY <1>8 DEF StopCamera
  <2> QED  BY <1>1, <1>8, <2>1, StopCameraInv
<1>9. CASE StopFree
  BY <1>2, <1>9, StopFreeInv
<1> QED  BY <1>1, <1>3, <1>4, <1>5, <1>6, <1>7, <1>8, <1>9 DEF Callback, Stop

\* The loop's own steps touch no frame; the cleanup has its lemmas above.
LEMMA MainThreadInv == IndInv /\ MainThread => IndInv'
<1> SUFFICES ASSUME IndInv, MainThread PROVE IndInv'
  OBVIOUS
<1>0. Phases
  BY Known
<1>1. CASE EnterLoop \/ LoopTest \/ Select \/ Wake \/ DispatchEnd
  <2>1. UNCHANGED vars /\ phase \in Early /\ phase' \in Early
    BY <1>1, AfterFacts DEF EnterLoop, LoopTest, Select, Wake, DispatchEnd, Early
  <2>2. pc = "loop"
    <3>1. CASE DispatchEnd
      BY <3>1 DEF DispatchEnd
    <3>2. CASE EnterLoop \/ LoopTest \/ Select \/ Wake
      BY <1>0, <3>2 DEF EnterLoop, LoopTest, Select, Wake, Phases
    <3> QED  BY <1>1, <3>1, <3>2
  <2>3. UNCHANGED <<type, camera, encoding, sink, watched, pc, evq, kstate>>
    BY <2>1 DEF vars, format, host
  <2>4. PhaseKept
    BY <2>1, <2>2, <2>3 DEF PhaseKept, Early, Late
  <2> QED  BY <2>3, <2>4, Aside
<1>2. CASE Dispatch(Callback)
  BY <1>2, DispatchInv
<1>3. CASE DeleteStream
  BY <1>3, DeleteStreamInv
<1>4. CASE DisconnectSignal \/ ClosePipe
  <2>1. /\ UNCHANGED <<type, camera, encoding, sink, watched, pc, evq, kstate>>
        /\ phase \in {"signal", "pipe"} /\ phase' \in {"pipe", "source"}
    BY <1>4, AfterFacts DEF DisconnectSignal, ClosePipe, CleanupStep, vars, format, host
  <2>2. pc = "loop"
    BY <1>0, <2>1 DEF Phases
  <2>3. PhaseKept
    BY <2>1, <2>2 DEF PhaseKept, Early, Late
  <2> QED  BY <2>1, <2>3, Aside
<1>5. CASE DeleteSource
  BY <1>5, DeleteSourceInv
<1>6. CASE Return
  <2>1. phase \in Late /\ ProcessEnds /\ phase' = "exited"
    BY <1>6, AfterFacts DEF Return, CleanupStep, Late
  <2> QED  BY <2>1, ProcessEndsInv
<1> QED  BY <1>1, <1>2, <1>3, <1>4, <1>5, <1>6 DEF MainThread

\* The encoder's output thread, before and after the stream was freed.
LEMMA EncoderThreadInv == IndInv /\ EncoderThread => IndInv'
<1> SUFFICES ASSUME IndInv, EncoderThread PROVE IndInv'
  OBVIOUS
<1>1. CASE OutputReady /\ UNCHANGED life
  <2>1. /\ encoding # << >> /\ encoding' = Tail(encoding)
        /\ \E b \in QueueBuffer(sink, Head(encoding)) : sink' = b.dev
        /\ UNCHANGED <<type, camera, watched, pc, evq, kstate, life>>
    BY <1>1 DEF OutputReady, format, host
  <2> QED  BY <2>1, OutputInv
<1>2. CASE Gone("stream") /\ OutputAfterFree
  <2>1. phase \in Late
    BY <1>2, Known, GoneFacts
  <2>2. CASE phase' = "exited" /\ ProcessEnds
    BY <2>1, <2>2, ProcessEndsInv
  <2>3. CASE /\ encoding' = Tail(encoding)
             /\ UNCHANGED <<format, camera, pipe, sink, watched, pc, host, life>>
    <3>1. encoding # << >> /\ UNCHANGED <<type, camera, sink, watched, pc, evq, kstate, life>>
      BY <1>2, <2>3 DEF OutputAfterFree, format, host
    <3> QED  BY <2>3, <3>1, OutputInv
  <2> QED  BY <1>2, <2>2, <2>3 DEF OutputAfterFree
<1> QED  BY <1>1, <1>2 DEF EncoderThread

LEMMA Inductive == IndInv /\ [Run]_all => IndInv'
<1> SUFFICES ASSUME IndInv, [Run]_all PROVE IndInv'
  OBVIOUS
<1>1. CASE MainThread
  BY <1>1, MainThreadInv
<1>2. CASE Interrupt
  <2>1. /\ UNCHANGED <<type, camera, encoding, sink, watched, pc, evq, kstate>>
        /\ phase' = IF phase = "select" THEN "test" ELSE phase
    BY <1>2 DEF Interrupt, vars, format, host
  <2>2. Phases
    BY Known
  <2>3. PhaseKept
    BY <2>1, <2>2 DEF PhaseKept, Phases, Early, Late
  <2> QED  BY <2>1, <2>3, Aside
<1>3. CASE CameraThread
  BY <1>3, RequestCompleteInv DEF CameraThread
<1>4. CASE EncoderThread
  BY <1>4, EncoderThreadInv
<1>5. CASE Outside
  BY <1>5, SinkCompleteInv, HostInv DEF Outside
<1>6. CASE UNCHANGED all
  <2>1. UNCHANGED <<type, camera, encoding, sink, watched, pc, evq, kstate, phase>>
    BY <1>6 DEF all, life, vars, format, host
  <2>2. PhaseKept
    BY <2>1, Known DEF PhaseKept, Phases
  <2> QED  BY <2>1, <2>2, Aside
<1> QED  BY <1>1, <1>2, <1>3, <1>4, <1>5, <1>6 DEF Run, Ended

LEMMA AlwaysIndInv == Unfair => []IndInv
<1> QED  BY StartUpInv, Inductive, PTL DEF Unfair

-----------------------------------------------------------------------------
(* The theorems *)

\* A frame is with the camera, in its list of finished requests, with the
\* encoder or with the UVC device, and never with two of them, through starts,
\* stops, failures, the end of the loop and the cleanup (libcamera-source.cpp
\* and stream.c; main.c:177-181).
THEOREM OneOwnerHolds == Unfair => []OneOwner
<1>1. IndInv => OneOwner
  BY ApartCounted DEF IndInv
<1> QED  BY <1>1, AlwaysIndInv, PTL

\* The encoder never has a frame whose memory is gone, also between the end of
\* the loop and the end of the process, when nobody waits for its threads.
THEOREM EncoderMemoryHolds == Unfair => []EncoderMemory
<1>1. IndInv => EncoderMemory
  BY DEF IndInv, Backed, EncoderMemory
<1> QED  BY <1>1, AlwaysIndInv, PTL

\* No list holds a request that stream_off or the end has destroyed
\* (libcamera-source.cpp:401-406).
THEOREM RequestsLiveHolds == Unfair => []RequestsLive
<1>1. IndInv => RequestsLive
  <2> SUFFICES ASSUME IndInv PROVE RequestsLive
    OBVIOUS
  <2> DEFINE c == camera.completed
             q == camera.queued
  <2>1. c \in Seq(Nat) /\ q \in Seq(Nat)
    BY Known
  <2>2. /\ \A k \in 1 .. Len(q) : q[k] \in camera.requests
        /\ \A k \in 1 .. Len(c) : c[k] \in camera.requests
    BY DEF IndInv, Live
  <2> HIDE DEF c, q
  <2>3. \A k \in 1 .. Len(c \o q) : (c \o q)[k] \in camera.requests
    BY <2>1, <2>2
  <2> QED  BY <2>3 DEF RequestsLive, Elements, c, q
<1> QED  BY <1>1, AlwaysIndInv, PTL

\* Between streams, and after a start that failed, everything has been given
\* back (uvc_stream_stop, stream.c:253-280), but for the buffers of a driver that
\* granted more than it was asked for (v4l2.c:555-559).
THEOREM StoppedIsReleasedHolds == Unfair => []StoppedIsReleased
<1>1. IndInv => StoppedIsReleased
  <2> SUFFICES ASSUME IndInv, pc = "loop", ~watched
               PROVE  /\ camera = NoCamera /\ encoding = << >> /\ sink.nbufs = 0
                      /\ sink.kbufs \notin 1 .. NBufs
                      /\ InKernel(sink) = {} /\ sink.mem = {} /\ sink.dmabuf = {}
    BY DEF StoppedIsReleased
  <2>1. Released
    BY DEF IndInv, Rest
  <2>2. InKernel(sink) = {}
    BY <2>1 DEF Released, Bare, InKernel
  <2> QED  BY <2>1, <2>2 DEF Released, Bare
<1> QED  BY <1>1, AlwaysIndInv, PTL

\* The cleanup takes nothing from under the camera's thread, and only a stream
\* that compresses can find itself freed while the encoder still calls it.
THEOREM ExitOrderHolds == Unfair => ExitOrder
<1>1. IndInv /\ CameraThread => ~Gone("pipe") /\ ~Gone("source")
  <2> SUFFICES ASSUME IndInv, CameraThread PROVE ~Gone("pipe") /\ ~Gone("source")
    OBVIOUS
  <2>1. Phases /\ ~Gone("signal")
    BY Known DEF CameraThread
  <2> QED  BY <2>1, GoneFacts DEF Late
<1>2. IndInv /\ EncoderThread => type # "DMABUF"
  BY DEF IndInv, Backed, EncoderThread, OutputReady, OutputAfterFree
<1>3. IndInv => /\ CameraThread => ~Gone("pipe") /\ ~Gone("source")
                /\ type = "DMABUF" /\ EncoderThread => ~Gone("stream")
  BY <1>1, <1>2
<1> QED  BY <1>3, AlwaysIndInv, PTL DEF ExitOrder

-----------------------------------------------------------------------------
(* The frames go round *)

\* Some party has the frame i.
With(F, i) == \E p \in Parties : \E k \in 1 .. Len(F[p]) : F[p][k] = i

\* While camera and device both stream, no frame is with nobody.
Round ==
  camera.on /\ sink.streaming /\ pc = "loop" => \A i \in 0 .. sink.nbufs - 1 : With(Frames, i)

\* Neither end refuses a frame of the other: the device has the handle of each, and
\* the camera a request for each.
Handles ==
  sink.streaming /\ sink.memtype = "DMABUF" => 0 .. sink.nbufs - 1 \subseteq sink.dmabuf
Asked ==
  camera.on /\ sink.streaming => 0 .. sink.nbufs - 1 \subseteq camera.requests

\* A closed device does not stream.
Closed == kstate = "gone" => ~sink.streaming

Flow == Round /\ Handles /\ Asked /\ Closed

\* Both ends take every frame they are given and every handle is duplicated.
NoLoss == Faults \cap {"dup", "qbuf"} = {} /\ "request" \notin CameraFaults

-----------------------------------------------------------------------------

\* A frame stays with somebody when queues only grow at the end, or lose a head that
\* somebody has.
LEMMA WithKept ==
  ASSUME NEW F, NEW G, NEW i, With(F, i),
         \A p \in Parties :
           /\ F[p] \in Seq(Nat)
           /\ \/ G[p] = F[p]
              \/ \E x \in Nat : G[p] = Append(F[p], x)
              \/ F[p] # << >> /\ G[p] = Tail(F[p]) /\ (Head(F[p]) = i => With(G, i))
  PROVE  With(G, i)
<1>0. PICK p \in Parties : \E k \in 1 .. Len(F[p]) : F[p][k] = i
  BY DEF With
<1>1. PICK k \in 1 .. Len(F[p]) : F[p][k] = i
  BY <1>0
<1> DEFINE s == F[p]
<1>2. s \in Seq(Nat) /\ k \in 1 .. Len(s) /\ s[k] = i
  BY <1>1
<1>3. \/ G[p] = s
      \/ \E x \in Nat : G[p] = Append(s, x)
      \/ s # << >> /\ G[p] = Tail(s) /\ (Head(s) = i => With(G, i))
  BY <1>1
<1> HIDE DEF s
<1>4. CASE G[p] = s
  BY <1>1, <1>2, <1>4 DEF With
<1>5. ASSUME NEW x \in Nat, G[p] = Append(s, x) PROVE With(G, i)
  <2>1. k \in 1 .. Len(Append(s, x)) /\ Append(s, x)[k] = i
    BY <1>2
  <2> QED  BY <1>1, <1>5, <2>1 DEF With
<1>6. CASE s # << >> /\ G[p] = Tail(s) /\ (Head(s) = i => With(G, i))
  <2>1. CASE k = 1
    <3>1. Head(s) = i
      BY <1>2, <2>1
    <3> QED  BY <1>6, <3>1
  <2>2. CASE k # 1
    <3>1. k - 1 \in 1 .. Len(Tail(s)) /\ Tail(s)[k - 1] = i
      BY <1>2, <1>6, <2>2
    <3> QED  BY <1>1, <1>6, <3>1 DEF With
  <2> QED  BY <2>1, <2>2
<1> QED  BY <1>3, <1>4, <1>5, <1>6

\* The last of a queue is with its party.
LEMMA WithLast ==
  ASSUME NEW G, NEW p \in Parties, NEW s \in Seq(Nat), NEW x \in Nat, G[p] = Append(s, x)
  PROVE  With(G, x)
<1>1. Len(s) + 1 \in 1 .. Len(Append(s, x)) /\ Append(s, x)[Len(s) + 1] = x
  OBVIOUS
<1> QED  BY <1>1 DEF With

\* What the driver has is sent or has been read.
LEMMA WithDriver ==
  ASSUME NEW i, i \in InKernel(sink')
  PROVE  With(Frames', i)
<1>1. /\ Frames'["sent"] = sink'.queued /\ Frames'["read"] = sink'.done
      /\ "sent" \in Parties /\ "read" \in Parties
  BY FramesFacts DEF Parties
<1> DEFINE G == Frames'
<1>2. \/ \E k \in 1 .. Len(sink'.queued) : sink'.queued[k] = i
      \/ \E k \in 1 .. Len(sink'.done) : sink'.done[k] = i
  BY DEF InKernel
<1>3. G["sent"] = sink'.queued /\ G["read"] = sink'.done
  BY <1>1
<1> HIDE DEF G
<1>4. With(G, i)
  BY <1>1, <1>2, <1>3 DEF With
<1> QED  BY <1>4 DEF G

\* What a stream is set up with.
SameSetup ==
  /\ sink'.nbufs = sink.nbufs /\ sink'.memtype = sink.memtype /\ sink'.dmabuf = sink.dmabuf
  /\ sink'.streaming = sink.streaming
  /\ camera'.on = camera.on /\ camera'.requests = camera.requests

LEMMA FlowKept ==
  ASSUME Flow, SameSetup, pc' = pc, kstate' = kstate \/ kstate' # "gone",
         camera.on /\ sink.streaming =>
           \A i \in 0 .. sink.nbufs - 1 : With(Frames, i) => With(Frames', i)
  PROVE  Flow'
<1>1. Round'
  <2> DEFINE G == Frames'
  <2>1. camera.on /\ sink.streaming => \A i \in 0 .. sink.nbufs - 1 : With(Frames, i) => With(G, i)
    OBVIOUS
  <2> HIDE DEF G
  <2>2. camera'.on /\ sink'.streaming /\ pc' = "loop" => \A i \in 0 .. sink'.nbufs - 1 : With(G, i)
    BY <2>1 DEF Flow, Round, SameSetup
  <2> QED  BY <2>2 DEF Round, G, With
<1>2. Handles' /\ Asked' /\ Closed'
  BY DEF Flow, Handles, Asked, Closed, SameSetup
<1> QED  BY <1>1, <1>2 DEF Flow

\* A step that ends a stream, or leaves one end as it is.
LEMMA FlowEnds ==
  ASSUME Flow,
         \/ ~camera'.on /\ sink' = sink /\ kstate' = kstate
         \/ camera' = camera /\ ~sink'.streaming
  PROVE  Flow'
<1>1. Round'
  BY DEF Round
<1>2. Handles' /\ Asked' /\ Closed'
  BY DEF Flow, Handles, Asked, Closed
<1> QED  BY <1>1, <1>2 DEF Flow

\* QBUF takes a buffer that has its handle, or the driver has it already.
LEMMA QueueTakes ==
  ASSUME sink \in SinkState, Handles, NoLoss, NEW i \in Nat,
         NEW b \in QueueBuffer(sink, i), sink' = b.dev
  PROVE  /\ sink'.nbufs = sink.nbufs /\ sink'.memtype = sink.memtype /\ sink'.dmabuf = sink.dmabuf
         /\ sink'.streaming = sink.streaming
         /\ sink'.queued = sink.queued \/ sink'.queued = Append(sink.queued, i)
         /\ sink'.done = sink.done
         /\ sink.streaming /\ i < sink.nbufs => i \in InKernel(sink')
<1> DEFINE q == Append(sink.queued, i)
           c == [sink EXCEPT !.queued = q]
<1>1. q \in Seq(Nat) /\ Len(q) \in 1 .. Len(q) /\ q[Len(q)] = i
  <2> DEFINE s == sink.queued
  <2>1. s \in Seq(Nat)
    BY DEF SinkState
  <2> HIDE DEF s
  <2>2. Append(s, i) \in Seq(Nat) /\ Len(Append(s, i)) \in 1 .. Len(Append(s, i))
        /\ Append(s, i)[Len(Append(s, i))] = i
    BY <2>1
  <2> QED  BY <2>2 DEF s
<1> HIDE DEF q
<1>2. /\ c.nbufs = sink.nbufs /\ c.memtype = sink.memtype /\ c.dmabuf = sink.dmabuf
      /\ c.streaming = sink.streaming /\ c.done = sink.done /\ c.queued = q
  BY DEF SinkState
<1>3. sink' = sink \/ sink' = c
  BY DEF QueueBuffer, Ok, Failed, If, NoLoss, q
<1>4. ASSUME sink.streaming, i < sink.nbufs PROVE i \in InKernel(sink')
  <2>1. sink.nbufs \in Nat
    BY DEF SinkState
  <2>2. ~(i >= sink.nbufs) /\ i \in 0 .. sink.nbufs - 1
    BY <1>4, <2>1
  <2>3. i \in InKernel(sink) \/ sink' = c
    BY <1>4, <2>2 DEF QueueBuffer, CanQueue, Ok, If, NoLoss, Handles, q
  <2>4. CASE sink' = c
    <3>1. i \in {sink'.queued[k] : k \in 1 .. Len(sink'.queued)}
      BY <1>1, <1>2, <2>4
    <3> QED  BY <3>1 DEF InKernel
  <2>5. CASE i \in InKernel(sink) /\ sink' = sink
    BY <2>5
  <2> QED  BY <1>3, <2>3, <2>4, <2>5
<1> HIDE DEF c
<1>5. sink'.queued = sink.queued \/ sink'.queued = Append(sink.queued, i)
  BY <1>2, <1>3 DEF q
<1> QED  BY <1>2, <1>3, <1>4, <1>5

\* A step after which neither does.
LEMMA BothEnd ==
  ASSUME Flow, ~sink'.streaming /\ ~camera'.on
  PROVE  Flow'
<1>1. Round'
  BY DEF Round
<1>2. Handles' /\ Asked' /\ Closed'
  BY DEF Flow, Handles, Asked, Closed
<1> QED  BY <1>1, <1>2 DEF Flow

-----------------------------------------------------------------------------
(* The frames of a stream that runs *)

LEMMA FramesAreQueues ==
  ASSUME IndInv
  PROVE  \A p \in Parties : Frames[p] \in Seq(Nat)
BY Known DEF Apart

LEMMA RequestCompleteFlow == IndInv /\ Flow /\ RequestComplete => Flow'
<1> SUFFICES ASSUME IndInv, Flow, RequestComplete PROVE Flow'
  OBVIOUS
<1> DEFINE q == Tail(camera.queued)
           r == Append(camera.completed, Head(camera.queued))
           F == Frames
           G == Frames'
<1>1. /\ UNCHANGED <<encoding, sink, pc, kstate>> /\ camera.queued # << >>
      /\ camera' = [camera EXCEPT !.queued = q, !.completed = r]
  BY DEF RequestComplete, host
<1>2. camera \in CameraState /\ camera.queued \in Seq(Nat) /\ camera.completed \in Seq(Nat)
  BY Known
<1>3. Head(camera.queued) \in Nat
  BY <1>1, <1>2
<1> HIDE DEF q, r
<1>4. /\ camera'.queued = q /\ camera'.completed = r
      /\ camera'.on = camera.on /\ camera'.requests = camera.requests
  BY <1>1, <1>2 DEF CameraState
<1>5. G["queued"] = Tail(F["queued"]) /\ G["completed"] = Append(F["completed"], Head(F["queued"]))
      /\ F["queued"] # << >> /\ Head(F["queued"]) \in Nat /\ F["completed"] \in Seq(Nat)
  BY <1>1, <1>2, <1>3, <1>4, FramesFacts DEF q, r
<1>6. G["encoding"] = F["encoding"] /\ G["sent"] = F["sent"] /\ G["read"] = F["read"]
  BY <1>1, FramesFacts
<1>7. \A p \in Parties : F[p] \in Seq(Nat)
  BY FramesAreQueues
<1> HIDE DEF F, G
<1>8. With(G, Head(F["queued"]))
  BY <1>5, WithLast DEF Parties
<1>9. ASSUME NEW i, With(F, i) PROVE With(G, i)
  <2>1. \A p \in Parties :
          \/ G[p] = F[p]
          \/ \E x \in Nat : G[p] = Append(F[p], x)
          \/ F[p] # << >> /\ G[p] = Tail(F[p]) /\ (Head(F[p]) = i => With(G, i))
    BY <1>5, <1>6, <1>8 DEF Parties
  <2> QED  BY <1>7, <1>9, <2>1, WithKept
<1>10. \A i \in 0 .. sink.nbufs - 1 : With(Frames, i) => With(Frames', i)
  BY <1>9 DEF F, G
<1> QED  BY <1>1, <1>4, <1>10, FlowKept DEF SameSetup

LEMMA SinkCompleteFlow == IndInv /\ Flow /\ SinkComplete => Flow'
<1> SUFFICES ASSUME IndInv, Flow, SinkComplete PROVE Flow'
  OBVIOUS
<1> DEFINE q == Tail(sink.queued)
           h == Append(sink.done, Head(sink.queued))
           F == Frames
           G == Frames'
<1>1. /\ UNCHANGED <<camera, encoding, pc, kstate>> /\ sink.queued # << >>
      /\ sink' = [sink EXCEPT !.queued = q, !.done = h]
  BY DEF SinkComplete, CanComplete, Complete, host
<1>2. sink \in SinkState /\ sink.queued \in Seq(Nat) /\ sink.done \in Seq(Nat)
  BY Known
<1>3. Head(sink.queued) \in Nat
  BY <1>1, <1>2
<1> HIDE DEF q, h
<1>4. /\ sink'.queued = q /\ sink'.done = h /\ sink'.nbufs = sink.nbufs
      /\ sink'.memtype = sink.memtype /\ sink'.dmabuf = sink.dmabuf
      /\ sink'.streaming = sink.streaming
  BY <1>1, <1>2 DEF SinkState
<1>5. G["sent"] = Tail(F["sent"]) /\ G["read"] = Append(F["read"], Head(F["sent"]))
      /\ F["sent"] # << >> /\ Head(F["sent"]) \in Nat /\ F["read"] \in Seq(Nat)
  BY <1>1, <1>2, <1>3, <1>4, FramesFacts DEF q, h
<1>6. G["encoding"] = F["encoding"] /\ G["queued"] = F["queued"] /\ G["completed"] = F["completed"]
  BY <1>1, FramesFacts
<1>7. \A p \in Parties : F[p] \in Seq(Nat)
  BY FramesAreQueues
<1> HIDE DEF F, G
<1>8. With(G, Head(F["sent"]))
  BY <1>5, WithLast DEF Parties
<1>9. ASSUME NEW i, With(F, i) PROVE With(G, i)
  <2>1. \A p \in Parties :
          \/ G[p] = F[p]
          \/ \E x \in Nat : G[p] = Append(F[p], x)
          \/ F[p] # << >> /\ G[p] = Tail(F[p]) /\ (Head(F[p]) = i => With(G, i))
    BY <1>5, <1>6, <1>8 DEF Parties
  <2> QED  BY <1>7, <1>9, <2>1, WithKept
<1>10. \A i \in 0 .. sink.nbufs - 1 : With(Frames, i) => With(Frames', i)
  BY <1>9 DEF F, G
<1> QED  BY <1>1, <1>4, <1>10, FlowKept DEF SameSetup

\* A frame passes from a queue of the camera's or the encoder's to the device, which
\* takes it or has it.
LEMMA ToSinkFlow ==
  ASSUME IndInv, Flow, NoLoss, NEW a \in Parties \ {"sent", "read"},
         Frames[a] # << >>, Frames'[a] = Tail(Frames[a]),
         \A p \in Parties \ {a, "sent", "read"} : Frames'[p] = Frames[p],
         NEW b \in QueueBuffer(sink, Head(Frames[a])), sink' = b.dev,
         pc' = pc, kstate' = kstate, camera'.on = camera.on, camera'.requests = camera.requests
  PROVE  Flow'
<1> DEFINE F == Frames
           G == Frames'
           n == Head(F[a])
<1>1. n \in Nat
  <2> DEFINE s == F[a]
  <2>1. s \in Seq(Nat) /\ s # << >>
    BY FramesAreQueues
  <2> HIDE DEF s
  <2>2. Head(s) \in Nat
    BY <2>1
  <2> QED  BY <2>2 DEF s
<1>a. sink \in SinkState /\ Handles /\ b \in QueueBuffer(sink, n) /\ sink' = b.dev
  BY Known DEF Flow
<1> HIDE DEF n
<1>2. /\ sink'.nbufs = sink.nbufs /\ sink'.memtype = sink.memtype /\ sink'.dmabuf = sink.dmabuf
      /\ sink'.streaming = sink.streaming
      /\ sink'.queued = sink.queued \/ sink'.queued = Append(sink.queued, n)
      /\ sink'.done = sink.done
      /\ sink.streaming /\ n < sink.nbufs => n \in InKernel(sink')
  BY <1>1, <1>a, QueueTakes
<1>3. F[a] # << >> /\ G[a] = Tail(F[a]) /\ \A p \in Parties \ {a, "sent", "read"} : G[p] = F[p]
  OBVIOUS
<1>4. G["read"] = F["read"] /\ (G["sent"] = F["sent"] \/ G["sent"] = Append(F["sent"], n))
  BY <1>2, FramesFacts
<1>5. \A p \in Parties : F[p] \in Seq(Nat)
  BY FramesAreQueues
<1>6. sink.streaming /\ n < sink.nbufs => With(G, n)
  BY <1>2, WithDriver
<1>7. n = Head(F[a])
  BY DEF n
<1>b. sink.nbufs \in Nat
  BY Known
<1> HIDE DEF F, G
<1>8. ASSUME sink.streaming, NEW i \in 0 .. sink.nbufs - 1, With(F, i) PROVE With(G, i)
  <2>0. Head(F[a]) = i => With(G, i)
    BY <1>6, <1>7, <1>8, <1>b
  <2>1. \A p \in Parties :
          \/ G[p] = F[p]
          \/ \E x \in Nat : G[p] = Append(F[p], x)
          \/ F[p] # << >> /\ G[p] = Tail(F[p]) /\ (Head(F[p]) = i => With(G, i))
    BY <1>1, <1>3, <1>4, <2>0
  <2> QED  BY <1>5, <1>8, <2>1, WithKept
<1>9. sink.streaming => \A i \in 0 .. sink.nbufs - 1 : With(Frames, i) => With(Frames', i)
  BY <1>8 DEF F, G
<1> QED  BY <1>2, <1>9, FlowKept DEF SameSetup

LEMMA OutputReadyFlow == IndInv /\ Flow /\ NoLoss /\ OutputReady => Flow'
<1> SUFFICES ASSUME IndInv, Flow, NoLoss, OutputReady PROVE Flow'
  OBVIOUS
<1>1. /\ encoding # << >> /\ encoding' = Tail(encoding)
      /\ \E b \in QueueBuffer(sink, Head(encoding)) : sink' = b.dev
      /\ UNCHANGED <<camera, pc, kstate>>
  BY DEF OutputReady, host
<1>2. /\ Frames["encoding"] # << >> /\ Frames'["encoding"] = Tail(Frames["encoding"])
      /\ \E b \in QueueBuffer(sink, Head(Frames["encoding"])) : sink' = b.dev
      /\ \A p \in Parties \ {"encoding", "sent", "read"} : Frames'[p] = Frames[p]
  BY <1>1, FramesFacts DEF Parties
<1>3. "encoding" \in Parties \ {"sent", "read"}
  BY DEF Parties
<1> QED  BY <1>1, <1>2, <1>3, ToSinkFlow

LEMMA VideoProcessFlow == IndInv /\ Flow /\ NoLoss /\ VideoProcess => Flow'
<1> SUFFICES ASSUME IndInv, Flow, NoLoss, VideoProcess PROVE Flow'
  OBVIOUS
<1> DEFINE n == Head(camera.completed)
           t == Tail(camera.completed)
<1>1. UNCHANGED <<pc, kstate>> /\ camera.completed # << >> /\ camera' = [camera EXCEPT !.completed = t]
  BY DEF VideoProcess, host
<1>2. \/ encoding' = Append(encoding, n) /\ sink' = sink
      \/ encoding' = encoding /\ \E b \in QueueBuffer(sink, n) : sink' = b.dev
  BY DEF VideoProcess
<1>3. camera \in CameraState /\ camera.completed \in Seq(Nat) /\ encoding \in Seq(Nat)
  BY Known
<1>4. n \in Nat
  BY <1>1, <1>3
<1>5. /\ camera'.queued = camera.queued /\ camera'.completed = t
      /\ camera'.on = camera.on /\ camera'.requests = camera.requests
  <2> HIDE DEF t
  <2> QED  BY <1>1, <1>3 DEF CameraState
<1> DEFINE F == Frames
           G == Frames'
<1>6. F["completed"] # << >> /\ G["completed"] = Tail(F["completed"]) /\ G["queued"] = F["queued"]
      /\ n = Head(F["completed"])
  BY <1>1, <1>5, FramesFacts
<1>7. CASE encoding' = encoding /\ \E b \in QueueBuffer(sink, n) : sink' = b.dev
  <2>1. \A p \in Parties \ {"completed", "sent", "read"} : Frames'[p] = Frames[p]
    BY <1>6, <1>7, FramesFacts DEF Parties
  <2>2. "completed" \in Parties \ {"sent", "read"}
    BY DEF Parties
  <2>3. \E b \in QueueBuffer(sink, Head(Frames["completed"])) : sink' = b.dev
    BY <1>6, <1>7
  <2> QED  BY <1>1, <1>5, <1>6, <2>1, <2>2, <2>3, ToSinkFlow
<1>8. CASE encoding' = Append(encoding, n) /\ sink' = sink
  <2>1. G["encoding"] = Append(F["encoding"], n) /\ G["sent"] = F["sent"] /\ G["read"] = F["read"]
    BY <1>8, FramesFacts
  <2>2. \A p \in Parties : F[p] \in Seq(Nat)
    BY FramesAreQueues
  <2> HIDE DEF F, G, n
  <2>3. With(G, n)
    BY <1>4, <2>1, <2>2, WithLast DEF Parties
  <2>4. ASSUME NEW i, With(F, i) PROVE With(G, i)
    <3>1. \A p \in Parties :
            \/ G[p] = F[p]
            \/ \E x \in Nat : G[p] = Append(F[p], x)
            \/ F[p] # << >> /\ G[p] = Tail(F[p]) /\ (Head(F[p]) = i => With(G, i))
      BY <1>4, <1>6, <2>1, <2>3 DEF Parties
    <3> QED  BY <2>2, <2>4, <3>1, WithKept
  <2>5. \A i \in 0 .. sink.nbufs - 1 : With(Frames, i) => With(Frames', i)
    BY <2>4 DEF F, G
  <2> QED  BY <1>1, <1>5, <1>8, <2>5, FlowKept DEF SameSetup
<1> QED  BY <1>2, <1>7, <1>8

\* A frame the host has read goes back to the camera, which has a request for it.
LEMMA SinkProcessFlow == IndInv /\ Flow /\ NoLoss /\ SinkProcess => Flow'
<1> SUFFICES ASSUME IndInv, Flow, NoLoss, SinkProcess PROVE Flow'
  OBVIOUS
<1> DEFINE n == Head(sink.done)
           t == Tail(sink.done)
           F == Frames
           G == Frames'
<1>1. UNCHANGED <<encoding, pc, kstate>> /\ sink.done # << >>
  BY DEF SinkProcess, CanDequeue, host
<1>2. sink \in SinkState /\ sink.done \in Seq(Nat) /\ sink.nbufs \in Nat
      /\ camera \in CameraState /\ camera.queued \in Seq(Nat)
  BY Known
<1>3. n \in Nat /\ t \in Seq(Nat)
  BY <1>1, <1>2
<1>4. CASE UNCHANGED <<camera, sink>>
  <2>1. G = F
    BY <1>1, <1>4 DEF Frames
  <2>2. \A i \in 0 .. sink.nbufs - 1 : With(Frames, i) => With(Frames', i)
    BY <2>1
  <2> QED  BY <1>1, <1>4, <2>2, FlowKept DEF SameSetup
<1>5. CASE sink' = [sink EXCEPT !.done = t] /\ camera' \in RequeueRequest(camera, n)
  <2>1. /\ sink'.nbufs = sink.nbufs /\ sink'.memtype = sink.memtype /\ sink'.dmabuf = sink.dmabuf
        /\ sink'.streaming = sink.streaming /\ sink'.done = t /\ sink'.queued = sink.queued
    <3> HIDE DEF n, t
    <3> QED  BY <1>2, <1>5 DEF SinkState
  <2>2. /\ camera'.on = camera.on /\ camera'.requests = camera.requests
        /\ camera'.completed = camera.completed
        /\ \/ camera'.queued = Append(camera.queued, n)
           \/ camera'.queued = camera.queued /\ ~(n \in camera.requests /\ camera.on)
    <3> HIDE DEF n, t
    <3>1. \/ camera' = [camera EXCEPT !.queued = Append(camera.queued, n)]
          \/ camera' = camera /\ ~(n \in camera.requests /\ camera.on)
      BY <1>5 DEF RequeueRequest, NoLoss
    <3> DEFINE q == Append(camera.queued, n)
    <3>2. \/ camera' = [camera EXCEPT !.queued = q]
          \/ camera' = camera /\ ~(n \in camera.requests /\ camera.on)
      BY <3>1
    <3> HIDE DEF q
    <3>3. /\ camera'.on = camera.on /\ camera'.requests = camera.requests
          /\ camera'.completed = camera.completed
          /\ \/ camera'.queued = q
             \/ camera'.queued = camera.queued /\ ~(n \in camera.requests /\ camera.on)
      BY <1>2, <3>2 DEF CameraState
    <3> QED  BY <3>3 DEF q
  <2>3. /\ G["read"] = Tail(F["read"]) /\ F["read"] # << >> /\ Head(F["read"]) = n
        /\ G["completed"] = F["completed"] /\ G["encoding"] = F["encoding"] /\ G["sent"] = F["sent"]
        /\ \/ G["queued"] = Append(F["queued"], n)
           \/ G["queued"] = F["queued"] /\ ~(n \in camera.requests /\ camera.on)
    BY <1>1, <2>1, <2>2, FramesFacts
  <2>4. \A p \in Parties : F[p] \in Seq(Nat)
    BY FramesAreQueues
  <2> HIDE DEF F, G, n, t
  <2>5. G["queued"] = Append(F["queued"], n) => With(G, n)
    BY <1>3, <2>4, WithLast DEF Parties
  <2>6. camera.on /\ sink.streaming /\ n < sink.nbufs => n \in camera.requests
    <3>1. n < sink.nbufs => n \in 0 .. sink.nbufs - 1
      BY <1>2, <1>3
    <3> QED  BY <3>1 DEF Flow, Asked
  <2>7. ASSUME camera.on, sink.streaming, NEW i \in 0 .. sink.nbufs - 1, With(F, i) PROVE With(G, i)
    <3>0. n = i => With(G, i)
      BY <1>2, <2>3, <2>5, <2>6, <2>7
    <3>1. \A p \in Parties :
            \/ G[p] = F[p]
            \/ \E x \in Nat : G[p] = Append(F[p], x)
            \/ F[p] # << >> /\ G[p] = Tail(F[p]) /\ (Head(F[p]) = i => With(G, i))
      BY <1>3, <2>3, <3>0 DEF Parties
    <3> QED  BY <2>4, <2>7, <3>1, WithKept
  <2>8. camera.on /\ sink.streaming => \A i \in 0 .. sink.nbufs - 1 : With(Frames, i) => With(Frames', i)
    BY <2>7 DEF F, G
  <2> QED  BY <1>1, <2>1, <2>2, <2>8, FlowKept DEF SameSetup
<1>6. UNCHANGED <<camera, sink>> \/ (sink' = [sink EXCEPT !.done = t]
                                     /\ camera' \in RequeueRequest(camera, n))
  <2>1. PICK r \in DequeueBuffer(sink) :
          \/ r.ret = "error" /\ UNCHANGED <<camera, sink>>
          \/ r.ret = "ok" /\ sink' = r.dev /\ camera' \in RequeueRequest(camera, r.index)
    BY DEF SinkProcess
  <2>2. r = [ret |-> "ok", dev |-> [sink EXCEPT !.done = t], index |-> n] \/ r = Failed(sink)
    BY DEF DequeueBuffer, If
  <2>3. CASE r = Failed(sink)
    BY <2>1, <2>3 DEF Failed
  <2>4. CASE r = [ret |-> "ok", dev |-> [sink EXCEPT !.done = t], index |-> n]
    <3>1. r.ret = "ok" /\ r.dev = [sink EXCEPT !.done = t] /\ r.index = n
      BY <2>4
    <3> HIDE DEF n, t
    <3> QED  BY <2>1, <3>1
  <2> QED  BY <2>2, <2>3, <2>4
<1> QED  BY <1>4, <1>5, <1>6

-----------------------------------------------------------------------------
(* The start and the end of a stream *)

LEMMA AllocRound ==
  ASSUME NEW d, Idle(d), d.nbufs = 0, NEW n \in Nat \ {0},
         NEW b \in AllocBuffers(d, MemType, n), b.ret = "ok"
  PROVE  b.dev.nbufs <= n /\ b.dev.memtype = MemType
<1>1. PICK mt \in {"MMAP", "DMABUF"} : mt = MemType
  BY DEF MemType
<1>2. d \in SinkState
  BY DEF Idle
<1>3. PICK g \in {n} \cup If("fewer", {n - 1} \ {0}) :
        b = Ok([d EXCEPT !.nbufs = g, !.kbufs = g, !.memtype = mt])
  <2>1. \/ \E g \in {n} \cup If("fewer", {n - 1} \ {0}) :
             b = Ok([d EXCEPT !.nbufs = g, !.kbufs = g, !.memtype = mt])
        \/ b = Failed(FreeBuffers(d))
        \/ b = Failed(FreeBuffers([d EXCEPT !.kbufs = NBufs + 1]))
    BY <1>1 DEF AllocBuffers, If
  <2>2. \A e : Failed(e).ret = "error"
    BY DEF Failed
  <2>3. b # Failed(FreeBuffers(d)) /\ b # Failed(FreeBuffers([d EXCEPT !.kbufs = NBufs + 1]))
    BY <2>2
  <2> QED  BY <2>1, <2>3
<1>4. g \in Nat /\ g <= n
  BY DEF If
<1>5. b.dev = [d EXCEPT !.nbufs = g, !.kbufs = g, !.memtype = mt]
  BY <1>3 DEF Ok
<1>6. b.dev.nbufs = g /\ b.dev.memtype = mt
  BY <1>2, <1>5 DEF SinkState
<1> QED  BY <1>1, <1>4, <1>6

\* Every buffer is imported, unless a dup() that fails goes unnoticed.
LEMMA ImportRound ==
  ASSUME NoLoss, NEW d, Idle(d), d.nbufs # 0, d.memtype = MemType,
         NEW n \in Nat \ {0}, NEW m \in SinkBuffers(d, n), m.ret = "ok"
  PROVE  /\ m.dev.nbufs = d.nbufs /\ m.dev.memtype = d.memtype
         /\ d.memtype = "DMABUF" => m.dev.dmabuf = 0 .. d.nbufs - 1
<1>1. d \in SinkState
  BY DEF Idle
<1> DEFINE every == 0 .. d.nbufs - 1
<1>2. CASE type = "ENCODED"
  <2>1. d.memtype = "MMAP"
    BY <1>2 DEF MemType
  <2>2. m = Ok([d EXCEPT !.mem = every])
    BY <1>2, <2>1 DEF SinkBuffers, MmapBuffers, If, Failed
  <2>3. m.dev = [d EXCEPT !.mem = every]
    BY <2>2 DEF Ok
  <2> HIDE DEF every
  <2>4. m.dev.nbufs = d.nbufs /\ m.dev.memtype = d.memtype
    BY <1>1, <2>3 DEF SinkState
  <2> QED  BY <2>1, <2>4
<1>3. CASE type # "ENCODED"
  <2>1. m \in ImportBuffers(d, n)
    BY <1>3 DEF SinkBuffers
  <2>2. m = Ok([d EXCEPT !.dmabuf = every])
    BY <2>1 DEF ImportBuffers, If, Failed, NoLoss
  <2>3. m.dev = [d EXCEPT !.dmabuf = every]
    BY <2>2 DEF Ok
  <2>4. m.dev.nbufs = d.nbufs /\ m.dev.memtype = d.memtype /\ m.dev.dmabuf = every
    <3> HIDE DEF every
    <3> QED  BY <1>1, <2>3 DEF SinkState
  <2> QED  BY <2>4
<1> QED  BY <1>2, <1>3

\* A camera that has started has a request, and has queued it, for every buffer.
LEMMA CameraRound ==
  ASSUME camera = NoCamera, NoLoss, NEW n \in Nat \ {0},
         camera' \in CameraStreamOn([camera EXCEPT !.nbufs = n]), camera'.on
  PROVE  camera'.requests = 0 .. n - 1 /\ camera'.queued = [k \in 1 .. n |-> k - 1]
<1> DEFINE ordered == [k \in 1 .. n |-> k - 1]
           made == 0 .. n - 1
<1>1. n \in Nat /\ made \in SUBSET Nat /\ ordered \in Seq(Nat)
  OBVIOUS
<1>2. PICK c \in CameraState : c = [NoCamera EXCEPT !.nbufs = n] /\ c.nbufs = n /\ c.on = FALSE
  <2>1. << >> \in Seq(Nat) /\ {} \in SUBSET Nat
    OBVIOUS
  <2>2. NoCamera \in CameraState /\ NoCamera.on = FALSE
    BY <2>1 DEF NoCamera, CameraState
  <2> HIDE DEF NoCamera
  <2> DEFINE e == [NoCamera EXCEPT !.nbufs = n]
  <2>3. e \in CameraState /\ e.nbufs = n /\ e.on = NoCamera.on
    BY <1>1, <2>2 DEF CameraState
  <2> QED  BY <2>2, <2>3
<1>3. \/ camera' = [[c EXCEPT !.requests = made] EXCEPT !.on = TRUE, !.queued = ordered]
      \/ camera' = [c EXCEPT !.requests = made]
  BY <1>2 DEF CameraStreamOn, NoLoss
<1> HIDE DEF ordered, made
<1>4. PICK d \in CameraState : d = [c EXCEPT !.requests = made] /\ d.requests = made /\ d.on = c.on
  <2> DEFINE e == [c EXCEPT !.requests = made]
  <2>1. e \in CameraState /\ e.requests = made /\ e.on = c.on
    BY <1>1 DEF CameraState
  <2> QED  BY <2>1
<1>5. camera' = [d EXCEPT !.on = TRUE, !.queued = ordered]
  BY <1>2, <1>3, <1>4
<1>6. camera'.requests = made /\ camera'.queued = ordered
  BY <1>1, <1>4, <1>5 DEF CameraState
<1> QED  BY <1>6 DEF made, ordered

LEMMA HandleStreamOnFlow ==
  IndInv /\ IndInv' /\ Flow /\ NoLoss /\ HandleStreamOn => Flow'
<1> SUFFICES ASSUME IndInv, IndInv', Flow, NoLoss, HandleStreamOn PROVE Flow'
  OBVIOUS
<1>1. pc = "loop" /\ Start /\ evq # << >> /\ evq' = Tail(evq) /\ Head(evq) = <<"STREAMON">>
  BY DEF HandleStreamOn, Deliver
<1>2. <<"STREAMON">> # <<"STREAMOFF">>
  OBVIOUS
<1>3. ~watched /\ kstate = "connected"
  BY <1>1, <1>2, Delivered
<1>4. Released /\ ~sink.streaming
  BY <1>1, <1>3 DEF IndInv, Rest, Stopping
<1>5. Idle(sink) /\ Bare(sink) /\ sink.nbufs = 0 /\ camera = NoCamera
  BY <1>4, Known DEF Idle, Released, Bare
<1>6. kstate' # "gone"
  BY <1>3, <1>4 DEF HandleStreamOn
<1>7. sink'.nbufs \in Nat
  BY Known DEF IndInv, Types, SinkState
<1>8. ASSUME UNCHANGED camera, Idle(sink') PROVE Flow'
  BY <1>5, <1>8, FlowEnds DEF Idle, NoCamera
<1>a. \A n \in Granted : n \in Nat \ {0}
  BY GrantedFacts
<1>9. CASE UNCHANGED <<camera, sink, watched>>
  BY <1>5, <1>8, <1>9
<1>10. ASSUME NEW n \in Granted, NEW b \in AllocBuffers(sink, MemType, n), b.ret = "error", sink' = b.dev,
              UNCHANGED <<camera, watched>>
       PROVE  Flow'
  BY <1>5, <1>8, <1>10, <1>a, AllocFacts
<1>11. ASSUME NEW n \in Granted, NEW b \in AllocBuffers(sink, MemType, n), b.ret = "ok",
              NEW m \in SinkBuffers(b.dev, n), m.ret = "error", sink' = FreeBuffers(m.dev),
              UNCHANGED <<camera, watched>>
       PROVE  Flow'
  <2>1. Idle(b.dev) /\ b.dev.nbufs # 0 /\ b.dev.kbufs # 0
    BY <1>5, <1>11, <1>a, AllocFacts
  <2>2. Idle(m.dev) /\ m.dev.nbufs # 0
    BY <1>11, <2>1, <1>a, SinkBuffersFacts
  <2> QED  BY <1>8, <1>11, <2>2, FreeFacts
<1>12. ASSUME NEW n \in Granted, NEW b \in AllocBuffers(sink, MemType, n), b.ret = "ok",
              NEW m \in SinkBuffers(b.dev, n), m.ret = "ok",
              camera' \in CameraStreamOn([camera EXCEPT !.nbufs = n]),
              NEW on \in StreamOn(m.dev), sink' = on.dev, watched' = TRUE
       PROVE  Flow'
  <2>1. Idle(b.dev) /\ b.dev.nbufs # 0 /\ b.dev.kbufs # 0
    BY <1>5, <1>12, <1>a, AllocFacts
  <2>2. b.dev.nbufs <= n /\ b.dev.memtype = MemType
    BY <1>5, <1>12, <1>a, AllocRound
  <2>3. Idle(m.dev) /\ m.dev.kbufs # 0
    BY <1>12, <2>1, <1>a, SinkBuffersFacts
  <2>4. /\ m.dev.nbufs = b.dev.nbufs /\ m.dev.memtype = b.dev.memtype
        /\ b.dev.memtype = "DMABUF" => m.dev.dmabuf = 0 .. b.dev.nbufs - 1
    BY <1>12, <2>1, <2>2, <1>a, ImportRound
  <2>5. sink' = [m.dev EXCEPT !.streaming = TRUE]
    <3>1. "streamon" \notin Faults
      BY SinkFaultsAssumption
    <3>2. on = Ok([m.dev EXCEPT !.streaming = TRUE])
      BY <2>3, <3>1 DEF StreamOn, If
    <3> QED  BY <1>12, <3>2 DEF Ok
  <2>6. sink'.nbufs = m.dev.nbufs /\ sink'.memtype = m.dev.memtype /\ sink'.dmabuf = m.dev.dmabuf
    BY <2>3, <2>5 DEF Idle, SinkState
  <2>7. Handles' /\ sink'.nbufs <= n
    BY <2>2, <2>4, <2>6 DEF Handles
  <2>8. camera'.on => camera'.requests = 0 .. n - 1 /\ camera'.queued = [k \in 1 .. n |-> k - 1]
    BY <1>5, <1>12, <1>a, CameraRound
  <2>9. Asked'
    BY <1>7, <1>12, <1>a, <2>7, <2>8 DEF Asked
  <2>10. ASSUME camera'.on, NEW i \in 0 .. sink'.nbufs - 1 PROVE With(Frames', i)
    <3> DEFINE G == Frames'
    <3>1. G["queued"] = [k \in 1 .. n |-> k - 1] /\ "queued" \in Parties
      BY <2>8, <2>10, FramesFacts DEF Parties
    <3>2. n \in Nat /\ i + 1 \in 1 .. n /\ (i + 1) - 1 = i
      BY <1>7, <1>12, <1>a, <2>7
    <3> HIDE DEF G
    <3>3. i + 1 \in 1 .. Len(G["queued"]) /\ G["queued"][i + 1] = i
      BY <3>1, <3>2
    <3>4. With(G, i)
      BY <3>1, <3>3 DEF With
    <3> QED  BY <3>4 DEF G
  <2>11. Round'
    BY <2>10 DEF Round, With
  <2> QED  BY <1>6, <2>7, <2>9, <2>11 DEF Flow, Closed
<1> QED  BY <1>1, <1>9, <1>10, <1>11, <1>12 DEF Start

\* A stop gives back first the device's frames, then the camera's, then the buffers.
LEMMA StopFlow == IndInv /\ Flow /\ Stop => Flow'
<1> SUFFICES ASSUME IndInv, Flow, Stop PROVE Flow'
  OBVIOUS
<1>1. sink \in SinkState /\ camera \in CameraState /\ << >> \in Seq(Nat) /\ {} \in SUBSET Nat
  BY Known
<1>3. CASE StopSink
  <2>1. /\ UNCHANGED camera
        /\ sink' = [sink EXCEPT !.streaming = FALSE, !.queued = << >>, !.done = << >>]
    BY <1>3 DEF StopSink, StreamOff
  <2>2. sink'.streaming = FALSE /\ sink'.nbufs = sink.nbufs
    BY <1>1, <2>1 DEF SinkState
  <2> QED  BY <2>1, <2>2, FlowEnds
<1>4. CASE StopCamera
  <2>1. /\ UNCHANGED <<sink, kstate>>
        /\ camera' = [camera EXCEPT !.on = FALSE, !.requests = {}, !.queued = << >>, !.completed = << >>]
    BY <1>4 DEF StopCamera, Stopped, host
  <2>2. camera'.on = FALSE
    BY <1>1, <2>1 DEF CameraState
  <2> QED  BY <2>1, <2>2, FlowEnds
<1>5. CASE StopFree
  <2>1. pc = "encoder" /\ sink' = FreeBuffers(sink) /\ camera' = [camera EXCEPT !.nbufs = 0]
    BY <1>5 DEF StopFree
  <2>2. ~sink.streaming /\ sink.nbufs # 0 /\ ~camera.on
    BY <2>1 DEF IndInv, Stopping
  <2>3. sink' = [sink EXCEPT !.nbufs = 0, !.kbufs = 0, !.mem = {}, !.dmabuf = {},
                             !.queued = << >>, !.done = << >>]
    BY <2>1, <2>2 DEF FreeBuffers
  <2>4. sink'.streaming = sink.streaming /\ sink'.nbufs = 0
    BY <1>1, <2>3 DEF SinkState
  <2>5. camera'.on = camera.on
    BY <1>1, <2>1 DEF CameraState
  <2>6. ~sink'.streaming /\ ~camera'.on
    BY <2>2, <2>4, <2>5
  <2> QED  BY <2>6, BothEnd
<1> QED  BY <1>3, <1>4, <1>5 DEF Stop

\* Closing the device ends its stream.
LEMMA DeleteStreamFlow == IndInv /\ Flow /\ DeleteStream => Flow'
<1> SUFFICES ASSUME IndInv, Flow, DeleteStream PROVE Flow'
  OBVIOUS
<1>1. UNCHANGED camera /\ sink' = [StreamOff(sink) EXCEPT !.kbufs = 0, !.dmabuf = {}]
  BY DEF DeleteStream
<1>2. sink \in SinkState /\ << >> \in Seq(Nat) /\ {} \in SUBSET Nat /\ 0 \in Nat
  BY Known
<1>3. PICK d \in SinkState : d = StreamOff(sink) /\ d.streaming = FALSE /\ d.nbufs = sink.nbufs
  <2> DEFINE e == StreamOff(sink)
  <2>1. e \in SinkState /\ e.streaming = FALSE /\ e.nbufs = sink.nbufs
    BY <1>2 DEF StreamOff, SinkState
  <2> HIDE DEF e
  <2> QED  BY <2>1 DEF e
<1>4. sink' = [d EXCEPT !.kbufs = 0, !.dmabuf = {}]
  BY <1>1, <1>3
<1>5. sink'.streaming = FALSE /\ sink'.nbufs = sink.nbufs
  BY <1>2, <1>3, <1>4 DEF SinkState
<1> QED  BY <1>1, <1>5, FlowEnds

\* The source that is deleted, and the process that ends, have no camera that is on.
LEMMA DeleteSourceFlow == IndInv /\ Flow /\ DeleteSource => Flow'
<1> SUFFICES ASSUME IndInv, Flow, DeleteSource PROVE Flow'
  OBVIOUS
<1>1. UNCHANGED <<sink, kstate>> /\ camera' = [NoCamera EXCEPT !.nbufs = camera.nbufs]
  BY DEF DeleteSource, host
<1>2. camera'.on = FALSE
  BY <1>1 DEF NoCamera
<1> QED  BY <1>1, <1>2, FlowEnds

LEMMA ProcessEndsFlow == Flow /\ ProcessEnds => Flow'
<1> SUFFICES ASSUME Flow, ProcessEnds PROVE Flow'
  OBVIOUS
<1>1. ~sink'.streaming /\ ~camera'.on
  BY DEF ProcessEnds, NoCamera, NewDevice
<1> QED  BY <1>1, BothEnd

-----------------------------------------------------------------------------
(* Every step lets the frames go round *)

\* A step that touches neither camera, encoder nor device.
LEMMA AsideFlow ==
  ASSUME Flow, UNCHANGED <<camera, encoding, sink>>, pc' = pc, kstate' = kstate \/ kstate' # "gone"
  PROVE  Flow'
<1>1. Frames' = Frames
  BY DEF Frames
<1>2. SameSetup
  BY DEF SameSetup
<1>3. \A i \in 0 .. sink.nbufs - 1 : With(Frames, i) => With(Frames', i)
  BY <1>1 DEF With
<1> QED  BY <1>2, <1>3, FlowKept

LEMMA HostKeeps == Host => kstate' \in {"connected", "streaming", kstate}
BY DEF Host, HostCommit, HostStreamOn, HostStreamOff, HostRequest

LEMMA MainThreadFlow ==
  IndInv /\ IndInv' /\ Flow /\ NoLoss /\ MainThread => Flow'
<1> SUFFICES ASSUME IndInv, IndInv', Flow, NoLoss, MainThread PROVE Flow'
  OBVIOUS
<1>1. CASE EnterLoop \/ LoopTest \/ Select \/ Wake \/ DispatchEnd \/ DisconnectSignal \/ ClosePipe
  <2>1. UNCHANGED <<camera, encoding, sink, pc, kstate>>
    BY <1>1 DEF EnterLoop, LoopTest, Select, Wake, DispatchEnd, DisconnectSignal, ClosePipe,
                vars, host
  <2> QED  BY <2>1, AsideFlow
<1>2. CASE Dispatch(Callback)
  <2>1. Callback
    BY <1>2 DEF Dispatch
  <2>2. CASE HandleCommit
    <3>1. UNCHANGED <<camera, encoding, sink, pc, kstate>>
      BY <2>2 DEF HandleCommit
    <3> QED  BY <3>1, AsideFlow
  <2> QED  BY <2>1, <2>2, HandleStreamOnFlow, VideoProcessFlow, SinkProcessFlow, StopFlow
              DEF Callback
<1>3. CASE DeleteStream
  BY <1>3, DeleteStreamFlow
<1>4. CASE DeleteSource
  BY <1>4, DeleteSourceFlow
<1>5. CASE Return
  BY <1>5, ProcessEndsFlow DEF Return
<1> QED  BY <1>1, <1>2, <1>3, <1>4, <1>5 DEF MainThread

\* A stream that was freed has a closed device, and needs no frames.
LEMMA EncoderThreadFlow ==
  IndInv /\ Flow /\ NoLoss /\ EncoderThread => Flow'
<1> SUFFICES ASSUME IndInv, Flow, NoLoss, EncoderThread PROVE Flow'
  OBVIOUS
<1>1. CASE OutputReady
  BY <1>1, OutputReadyFlow
<1>2. CASE Gone("stream") /\ OutputAfterFree
  <2>1. kstate = "gone"
    BY <1>2, Known, GoneFacts DEF Phases, Early, Late
  <2>2. ~sink.streaming
    BY <2>1 DEF Flow, Closed
  <2>3. CASE ProcessEnds
    BY <2>3, ProcessEndsFlow
  <2>4. CASE UNCHANGED <<format, camera, pipe, sink, watched, pc, host, life>>
    <3>1. SameSetup /\ pc' = pc /\ kstate' = kstate
      BY <2>4 DEF SameSetup, host
    <3> QED  BY <2>2, <3>1, FlowKept
  <2> QED  BY <1>2, <2>3, <2>4 DEF OutputAfterFree
<1> QED  BY <1>1, <1>2 DEF EncoderThread

LEMMA FlowStep ==
  IndInv /\ IndInv' /\ Flow /\ NoLoss /\ [Run]_all => Flow'
<1> SUFFICES ASSUME IndInv, IndInv', Flow, NoLoss, [Run]_all PROVE Flow'
  OBVIOUS
<1>1. CASE MainThread
  BY <1>1, MainThreadFlow
<1>2. CASE CameraThread
  BY <1>2, RequestCompleteFlow DEF CameraThread
<1>3. CASE EncoderThread
  BY <1>3, EncoderThreadFlow
<1>4. CASE SinkComplete
  BY <1>4, SinkCompleteFlow
<1>5. CASE Host
  <2>1. UNCHANGED <<camera, encoding, sink, pc>>
    BY <1>5 DEF Host
  <2> QED  BY <1>5, <2>1, HostKeeps, AsideFlow
<1>6. CASE Interrupt \/ UNCHANGED all
  <2>1. UNCHANGED <<camera, encoding, sink, pc, kstate>>
    BY <1>6 DEF Interrupt, all, vars, host
  <2> QED  BY <2>1, AsideFlow
<1> QED  BY <1>1, <1>2, <1>3, <1>4, <1>5, <1>6 DEF Run, Ended, Outside

LEMMA StartUpFlow == StartUp => Flow
<1> SUFFICES ASSUME StartUp PROVE Flow
  OBVIOUS
<1>1. camera.on = FALSE /\ sink.streaming = FALSE /\ sink.nbufs = 0
  BY DEF StartUp, Init, NoCamera, NewDevice
<1> QED  BY <1>1 DEF Flow, Round, Handles, Asked, Closed

\* Two queues, put together, have the frames of both.
LEMMA JoinKeeps ==
  ASSUME NEW s \in Seq(Nat), NEW t \in Seq(Nat)
  PROVE  s \o t \in Seq(Nat) /\ Elements(s) \cup Elements(t) \subseteq Elements(s \o t)
<1> DEFINE c == s \o t
<1>1. c \in Seq(Nat) /\ Len(s) \in Nat /\ Len(t) \in Nat /\ Len(c) = Len(s) + Len(t)
  OBVIOUS
<1>2. \A k \in 1 .. Len(s) : c[k] = s[k]
  OBVIOUS
<1>3. \A k \in 1 .. Len(t) : c[Len(s) + k] = t[k]
  OBVIOUS
<1> HIDE DEF c
<1>4. ASSUME NEW k \in 1 .. Len(s) PROVE s[k] \in Elements(c)
  <2>1. k \in 1 .. Len(c) /\ c[k] = s[k]
    BY <1>1, <1>2
  <2> QED  BY <2>1 DEF Elements
<1>5. ASSUME NEW k \in 1 .. Len(t) PROVE t[k] \in Elements(c)
  <2>1. Len(s) + k \in 1 .. Len(c) /\ c[Len(s) + k] = t[k]
    BY <1>1, <1>3
  <2> QED  BY <2>1 DEF Elements
<1>6. Elements(s) \cup Elements(t) \subseteq Elements(c)
  BY <1>4, <1>5 DEF Elements
<1> QED  BY <1>1, <1>6 DEF c

LEMMA RoundStrandsNothing == IndInv /\ Round => NothingStranded
<1> SUFFICES ASSUME IndInv, Round, pc = "loop", camera.on, sink.streaming, NEW i \in 0 .. sink.nbufs - 1
             PROVE  i \in Elements(camera.queued \o camera.completed \o encoding) \cup InKernel(sink)
  BY DEF NothingStranded
<1>1. With(Frames, i)
  BY DEF Round
<1>2. PICK p \in Parties : \E k \in 1 .. Len(Frames[p]) : Frames[p][k] = i
  BY <1>1 DEF With
<1>3. camera.queued \in Seq(Nat) /\ camera.completed \in Seq(Nat) /\ encoding \in Seq(Nat)
  BY Known
<1>4. CASE p \in {"queued", "completed", "encoding"}
  <2> DEFINE q == camera.queued
             c == camera.completed
  <2>1. Frames[p] \in {q, c, encoding}
    BY <1>4, FramesFacts
  <2>2. q \in Seq(Nat) /\ c \in Seq(Nat)
    BY <1>3
  <2> HIDE DEF q, c
  <2>3. i \in Elements(q) \cup Elements(c) \cup Elements(encoding)
    BY <1>2, <2>1 DEF Elements
  <2>4. q \o c \in Seq(Nat) /\ Elements(q) \cup Elements(c) \subseteq Elements(q \o c)
    BY <2>2, JoinKeeps
  <2>5. Elements(q \o c) \cup Elements(encoding) \subseteq Elements((q \o c) \o encoding)
    BY <1>3, <2>4, JoinKeeps
  <2>6. i \in Elements((q \o c) \o encoding)
    BY <2>3, <2>4, <2>5
  <2> QED  BY <2>6 DEF q, c
<1>5. CASE p \in {"sent", "read"}
  <2>1. Frames[p] = sink.queued \/ Frames[p] = sink.done
    BY <1>5, FramesFacts
  <2> QED  BY <1>2, <2>1 DEF InKernel
<1> QED  BY <1>4, <1>5 DEF Parties

\* While camera and host both stream, every buffer that the device has been given is
\* with the camera, in its list, with the encoder or with the driver: none is dropped
\* by a frame that neither end takes (libcamera_source_queue_buffer and
\* uvc_stream_uvc_process).  A VIDIOC_QBUF, a queueRequest() or a dup() that fails
\* unnoticed strands its buffer (stream.c:47, libcamera-source.cpp:431 and
\* v4l2.c:717), so none of them fails here; nor does STREAMON, and the cable is not
\* pulled (SinkFaultsAssumption).  Every other failure may happen.
THEOREM NothingStrandedHolds ==
  ASSUME Faults \cap {"dup", "qbuf"} = {}, "request" \notin CameraFaults
  PROVE  Unfair => []NothingStranded
<1>1. NoLoss
  BY DEF NoLoss
<1>2. StartUp => IndInv /\ Flow
  BY StartUpInv, StartUpFlow
<1>3. IndInv /\ Flow /\ [Run]_all => (IndInv /\ Flow)'
  BY <1>1, Inductive, FlowStep
<1>4. IndInv /\ Flow => NothingStranded
  BY RoundStrandsNothing DEF Flow
<1> QED  BY <1>2, <1>3, <1>4, PTL DEF Unfair
=============================================================================
