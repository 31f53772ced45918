--------------------------- MODULE PublicationProofs ---------------------------
(***************************************************************************)
(* Proofs about Publication, for any jobs, pages and bounds.  Three things *)
(* are kept by every step: nothing anywhere is newer than the committed    *)
(* revision; a page that still awaits its snapshot will get one that is    *)
(* not older than what it shows; and the newest revision of a job is       *)
(* somewhere on its way to every page whose snapshot has been read.        *)
(***************************************************************************)
EXTENDS Publication, TLAPS

-----------------------------------------------------------------------------
(* Predicates on a queue of frames.                                        *)

FrameWithin(x, f) ==
    /\ x.type = "update" => x.revision <= f[x.job]
    /\ x.type = "snapshot" => \A j \in Jobs : x.jobs[j] <= f[j]

FrameCovers(x, g) ==
    x.type = "snapshot" => \A j \in Jobs : g[j] <= x.jobs[j]

FrameHas(x, j, r) ==
    \/ x.type = "update" /\ x.job = j /\ x.revision = r
    \/ x.type = "snapshot" /\ x.jobs[j] = r

\* No frame is newer than f.
Within(q, f) == \A i \in DOMAIN q : FrameWithin(q[i], f)

\* No snapshot is older than g.
Covers(q, g) == \A i \in DOMAIN q : FrameCovers(q[i], g)

Single(q) == \A i, k \in DOMAIN q :
                 q[i].type = "snapshot" /\ q[k].type = "snapshot" => i = k

NoSnapshot(q) == \A i \in DOMAIN q : q[i].type # "snapshot"

\* Some frame shows revision r of j.
Has(q, j, r) == \E i \in DOMAIN q : FrameHas(q[i], j, r)

-----------------------------------------------------------------------------
(* The invariant.                                                          *)

\* Nothing is newer than the store.
Below ==
    /\ \A p \in committed : p[2] <= revision[p[1]]
    /\ \A j \in Jobs : pending[j] <= published[j] /\ published[j] <= revision[j]
    /\ \A j \in worker.job : worker.revision <= revision[j]
    /\ \A s \in Sockets, j \in Jobs : read[s][j] <= revision[j]
    /\ \A c \in Consoles, j \in Jobs :
           buffered[c][j] <= revision[j] /\ shown[c][j] <= revision[j]
    /\ \A s \in Sockets : Within(channel[s], revision)

\* A socket gets one snapshot, after its handler has read it.
SocketsSound ==
    \A s \in Sockets :
        /\ Single(channel[s])
        /\ handler[s] \in {"none", "connecting", "greeting", "snapshot"} =>
               NoSnapshot(channel[s])
        /\ handler[s] \in Serving <=> s \in admins
        /\ s[2] > page[s[1]] => handler[s] = "none" /\ channel[s] = <<>>

\* The snapshot that a page awaits is not older than what it shows.
PagesSound ==
    \A c \in Consoles :
        /\ open[c] => page[c] # 0
        /\ page[c] # 0 =>
               /\ Covers(channel[Current(c)], shown[c])
               /\ handler[Current(c)] = "snapshot" =>
                      \A j \in Jobs : shown[c][j] <= read[Current(c)][j]
               /\ ~awaiting[c] => /\ handler[Current(c)] \in {"receiving", "done"}
                                  /\ NoSnapshot(channel[Current(c)])

WorkerSound == \A i, j \in worker.job : i = j

\* The newest revision of j has left publish() on its way to c.
Travels(c, j) ==
    \/ pending[j] = revision[j]
    \/ j \in worker.job /\ worker.revision = revision[j] /\ Current(c) \in worker.to
    \/ handler[Current(c)] = "snapshot" /\ read[Current(c)][j] = revision[j]
    \/ Has(channel[Current(c)], j, revision[j])
    \/ buffered[c][j] = revision[j]
    \/ shown[c][j] = revision[j]

Served(c, j) ==
    open[c] /\ handler[Current(c)] \in {"snapshot", "receiving"} /\ j \notin claimed

\* What publish() has taken travels; what it has not is still to be published.
Forwarded ==
    \A c \in Consoles, j \in Jobs :
        Served(c, j) => \/ Travels(c, j)
                        \/ /\ published[j] < revision[j]
                           /\ <<j, revision[j]>> \in committed

IInv ==
    /\ TypeOK /\ Below /\ SocketsSound /\ PagesSound
    /\ WorkerSound /\ WorkerAwake /\ Forwarded

-----------------------------------------------------------------------------
(* Frames and queues.                                                      *)

\* The fields of a frame have the types its kind promises.
LEMMA FrameFields ==
    ASSUME NEW x \in Frames
    PROVE  /\ x.type \in {"update", "snapshot", "close"}
           /\ x.type = "update" => x.job \in Jobs /\ x.revision \in Nat
           /\ x.type = "snapshot" => x.jobs \in Revisions
BY DEF Frames, CloseFrame

\* The three constructors make frames.
LEMMA FramesMade ==
    /\ CloseFrame \in Frames /\ CloseFrame.type = "close"
    /\ \A j \in Jobs, r \in Nat :
           /\ Update(j, r) \in Frames /\ Update(j, r).type = "update"
           /\ Update(j, r).job = j /\ Update(j, r).revision = r
    /\ \A f \in Revisions :
           /\ Snapshot(f) \in Frames /\ Snapshot(f).type = "snapshot"
           /\ Snapshot(f).jobs = f
BY Zenon DEF Frames, CloseFrame, Update, Snapshot

\* Appending a frame keeps the others where they are.
LEMMA AppendShape ==
    ASSUME NEW q \in Seq(Frames), NEW x \in Frames
    PROVE  /\ Append(q, x) \in Seq(Frames)
           /\ DOMAIN Append(q, x) = DOMAIN q \cup {Len(q) + 1}
           /\ Len(q) + 1 \notin DOMAIN q
           /\ \A i \in DOMAIN q : Append(q, x)[i] = q[i]
           /\ Append(q, x)[Len(q) + 1] = x
OBVIOUS

\* Taking the first frame moves the others down by one.
LEMMA TailShape ==
    ASSUME NEW q \in Seq(Frames), q # <<>>
    PROVE  /\ Tail(q) \in Seq(Frames)
           /\ Head(q) \in Frames /\ Head(q) = q[1] /\ 1 \in DOMAIN q
           /\ \A i \in DOMAIN Tail(q) :
                  i + 1 \in DOMAIN q /\ i + 1 # 1 /\ Tail(q)[i] = q[i + 1]
           /\ \A i \in DOMAIN q :
                  i = 1 \/ (i - 1 \in DOMAIN Tail(q) /\ Tail(q)[i - 1] = q[i])
OBVIOUS

\* What a queue keeps when a frame is appended.
LEMMA AppendKeeps ==
    ASSUME NEW q \in Seq(Frames), NEW x \in Frames
    PROVE  /\ \A f : Within(q, f) /\ FrameWithin(x, f) => Within(Append(q, x), f)
           /\ \A g : Covers(q, g) /\ FrameCovers(x, g) => Covers(Append(q, x), g)
           /\ Single(q) /\ x.type # "snapshot" => Single(Append(q, x))
           /\ NoSnapshot(q) => Single(Append(q, x))
           /\ NoSnapshot(q) /\ x.type # "snapshot" => NoSnapshot(Append(q, x))
           /\ \A j, r : Has(q, j, r) => Has(Append(q, x), j, r)
           /\ \A j, r : FrameHas(x, j, r) => Has(Append(q, x), j, r)
<1> DEFINE p == Append(q, x)
           n == Len(q) + 1
<1>1. /\ DOMAIN p = DOMAIN q \cup {n} /\ n \notin DOMAIN q
      /\ \A i \in DOMAIN q : p[i] = q[i]
      /\ p[n] = x
  BY Zenon, AppendShape
<1> HIDE DEF p, n
<1>2. \A f : Within(q, f) /\ FrameWithin(x, f) => Within(p, f)
  BY Zenon, <1>1 DEF Within
<1>3. \A g : Covers(q, g) /\ FrameCovers(x, g) => Covers(p, g)
  BY Zenon, <1>1 DEF Covers
<1>4. /\ Single(q) /\ x.type # "snapshot" => Single(p)
      /\ NoSnapshot(q) => Single(p)
      /\ NoSnapshot(q) /\ x.type # "snapshot" => NoSnapshot(p)
  BY Zenon, <1>1 DEF Single, NoSnapshot
<1>5. \A j, r : Has(q, j, r) => Has(p, j, r)
  BY Zenon, <1>1 DEF Has
<1>6. \A j, r : FrameHas(x, j, r) => Has(p, j, r)
  BY Zenon, <1>1 DEF Has
<1> QED
  BY Zenon, <1>2, <1>3, <1>4, <1>5, <1>6 DEF p

\* What a queue keeps when its first frame is taken.
LEMMA TailKeeps ==
    ASSUME NEW q \in Seq(Frames), q # <<>>
    PROVE  /\ \A f : Within(q, f) => Within(Tail(q), f) /\ FrameWithin(Head(q), f)
           /\ \A g : Covers(q, g) => Covers(Tail(q), g) /\ FrameCovers(Head(q), g)
           /\ Single(q) => Single(Tail(q))
           /\ Single(q) /\ Head(q).type = "snapshot" => NoSnapshot(Tail(q))
           /\ NoSnapshot(q) => NoSnapshot(Tail(q)) /\ Head(q).type # "snapshot"
           /\ \A j, r : Has(q, j, r) => FrameHas(Head(q), j, r) \/ Has(Tail(q), j, r)
<1> DEFINE p == Tail(q)
           h == Head(q)
<1>1. /\ h = q[1] /\ 1 \in DOMAIN q
      /\ \A i \in DOMAIN p : i + 1 \in DOMAIN q /\ i + 1 # 1 /\ p[i] = q[i + 1]
      /\ \A i \in DOMAIN q : i = 1 \/ (i - 1 \in DOMAIN p /\ p[i - 1] = q[i])
  BY Zenon, TailShape
<1>2. \A i, k \in DOMAIN p : i + 1 = k + 1 => i = k
  OBVIOUS
<1> HIDE DEF p, h
<1>3. \A f : Within(q, f) => Within(p, f) /\ FrameWithin(h, f)
  BY Zenon, <1>1 DEF Within
<1>4. \A g : Covers(q, g) => Covers(p, g) /\ FrameCovers(h, g)
  BY Zenon, <1>1 DEF Covers
<1>5. Single(q) => Single(p)
  BY <1>1, <1>2 DEF Single
<1>6. Single(q) /\ h.type = "snapshot" => NoSnapshot(p)
  BY Zenon, <1>1 DEF Single, NoSnapshot
<1>7. NoSnapshot(q) => NoSnapshot(p) /\ h.type # "snapshot"
  BY <1>1 DEF NoSnapshot
<1>8. \A j, r : Has(q, j, r) => FrameHas(h, j, r) \/ Has(p, j, r)
  BY Zenon, <1>1 DEF Has
<1> QED
  BY Zenon, <1>3, <1>4, <1>5, <1>6, <1>7, <1>8 DEF p, h

\* Frames stay within revisions that grow.
LEMMA WithinGrows ==
    ASSUME NEW q \in Seq(Frames), NEW f \in Revisions, NEW g \in Revisions,
           \A j \in Jobs : f[j] <= g[j], Within(q, f)
    PROVE  Within(q, g)
<1>1. ASSUME NEW x \in Frames, FrameWithin(x, f)
      PROVE  FrameWithin(x, g)
  <2>1. \A n \in Nat, j \in Jobs : n <= f[j] => n <= g[j]
    BY DEF Revisions
  <2>2. x.type = "snapshot" => \A j \in Jobs : x.jobs[j] \in Nat
    BY Zenon, FrameFields DEF Revisions
  <2> QED
    BY Zenon, <1>1, <2>1, <2>2, FrameFields DEF FrameWithin
<1>2. \A i \in DOMAIN q : q[i] \in Frames
  OBVIOUS
<1> QED
  BY Zenon, <1>1, <1>2 DEF Within

\* An empty queue satisfies every predicate.
LEMMA EmptyKeeps ==
    /\ <<>> \in Seq(Frames)
    /\ Single(<<>>) /\ NoSnapshot(<<>>)
    /\ \A f : Within(<<>>, f)
    /\ \A g : Covers(<<>>, g)
BY DEF Single, NoSnapshot, Within, Covers

-----------------------------------------------------------------------------
(* The store and the worker.                                               *)

\* A page that has connected has a current socket.
LEMMA CurrentIsSocket ==
    ASSUME TypeOK, PagesSound, NEW c \in Consoles
    PROVE  /\ page[c] # 0 => Current(c) \in Sockets
           /\ open[c] => page[c] # 0 /\ Current(c) \in Sockets
<1>1. page[c] \in 0 .. MaxSockets /\ (page[c] # 0 => page[c] \in 1 .. MaxSockets)
  BY BoundsAssumption DEF TypeOK
<1> QED
  BY Zenon, <1>1 DEF PagesSound, Sockets, Current

\* The pages and their sockets stay sound while nothing is sent or received.
LEMMA PagesKept ==
    ASSUME SocketsSound, PagesSound,
           UNCHANGED <<admins, handler, read, channel, console>>
    PROVE  SocketsSound' /\ PagesSound'
<1>1. SocketsSound'
  BY Zenon DEF SocketsSound, console
<1>2. PagesSound'
  BY Zenon DEF PagesSound, Current, console
<1> QED
  BY Zenon, <1>1, <1>2

\* A commit revises one job and leaves its snapshot to be published.
LEMMA CommitStep ==
    ASSUME IInv, NEW j \in Jobs, Commit(j)
    PROVE  IInv'
<1>1. /\ revision' = [revision EXCEPT ![j] = @ + 1]
      /\ committed' = committed \cup {<<j, revision[j] + 1>>}
      /\ claimed' = claimed \ {j}
      /\ UNCHANGED <<published, pending, wake, awake, worker, admins, handler, read,
                     channel, page, open, awaiting, buffered, shown, restarts>>
  BY Zenon DEF Commit, console
<1>2. /\ \A i \in Jobs : revision[i] \in Nat /\ published[i] \in Nat
      /\ revision' \in Revisions /\ revision'[j] = revision[j] + 1
      /\ \A i \in Jobs : i # j => revision'[i] = revision[i]
      /\ \A i \in Jobs : revision[i] <= revision'[i]
  BY <1>1 DEF IInv, TypeOK, Revisions
<1>3. TypeOK'
  BY <1>1, <1>2 DEF IInv, TypeOK, Revisions
<1>4. Below'
  <2>1. ASSUME NEW p \in committed' PROVE p[2] <= revision'[p[1]]
    <3>1. CASE p = <<j, revision[j] + 1>>
      BY <1>2, <3>1
    <3>2. CASE p \in committed
      <4>1. p[1] \in Jobs /\ p[2] \in Nat /\ p[2] <= revision[p[1]]
        BY Zenon, <3>2 DEF IInv, TypeOK, Below
      <4> QED
        BY <1>2, <4>1
    <3> QED
      BY Zenon, <1>1, <2>1, <3>1, <3>2
  <2>2. \A s \in Sockets : Within(channel[s], revision')
    BY Zenon, <1>2, WithinGrows DEF IInv, TypeOK, Below
  <2>3. /\ \A i \in Jobs : pending[i] \in Nat
        /\ worker.revision \in Nat /\ worker.job \subseteq Jobs
        /\ \A s \in Sockets, i \in Jobs : read[s][i] \in Nat
        /\ \A c \in Consoles, i \in Jobs : buffered[c][i] \in Nat /\ shown[c][i] \in Nat
    BY DEF IInv, TypeOK, Revisions
  <2>4. \A n \in Nat, i \in Jobs : n <= revision[i] => n <= revision'[i]
    BY <1>2
  <2> QED
    BY Zenon, <1>1, <1>2, <2>1, <2>2, <2>3, <2>4 DEF IInv, Below
<1>5. SocketsSound' /\ PagesSound'
  BY Zenon, <1>1, PagesKept DEF IInv, console
<1>6. WorkerSound' /\ WorkerAwake'
  BY Zenon, <1>1 DEF IInv, WorkerSound, WorkerAwake, Waiting
<1>7. Forwarded'
  <2> SUFFICES ASSUME NEW c \in Consoles, NEW i \in Jobs, Served(c, i)'
               PROVE  \/ Travels(c, i)'
                      \/ published'[i] < revision'[i] /\ <<i, revision'[i]>> \in committed'
    BY Zenon DEF Forwarded
  <2>1. CASE i = j
    BY <1>1, <1>2, <2>1 DEF IInv, Below
  <2>2. CASE i # j
    <3>1. Served(c, i) /\ revision'[i] = revision[i]
      BY Zenon, <1>1, <1>2, <2>2 DEF Served, Current
    <3>2. Travels(c, i) => Travels(c, i)'
      BY Zenon, <1>1, <3>1 DEF Travels, Current
    <3> QED
      BY <1>1, <3>1, <3>2 DEF IInv, Forwarded
  <2> QED
    BY Zenon, <2>1, <2>2
<1> QED
  BY Zenon, <1>3, <1>4, <1>5, <1>6, <1>7 DEF IInv

\* claim_next revises a job whose next commit is certain.
LEMMA ClaimStep ==
    ASSUME IInv, NEW j \in Jobs, ClaimNext(j)
    PROVE  IInv'
<1>1. /\ revision' = [revision EXCEPT ![j] = @ + 1]
      /\ claimed' = claimed \cup {j}
      /\ UNCHANGED <<committed, published, pending, wake, awake, worker, admins, handler,
                     read, channel, page, open, awaiting, buffered, shown, restarts>>
  BY Zenon DEF ClaimNext, console
<1>2. /\ revision' \in Revisions
      /\ \A i \in Jobs : i # j => revision'[i] = revision[i]
      /\ \A i \in Jobs : revision[i] \in Nat /\ revision[i] <= revision'[i]
  BY <1>1 DEF IInv, TypeOK, Revisions
<1>3. TypeOK'
  BY Zenon, <1>1, <1>2 DEF IInv, TypeOK
<1>4. Below'
  <2>1. \A n \in Nat, i \in Jobs : n <= revision[i] => n <= revision'[i]
    BY <1>2 DEF Revisions
  <2>2. \A s \in Sockets : Within(channel[s], revision')
    BY Zenon, <1>2, WithinGrows DEF IInv, TypeOK, Below
  <2>3. /\ \A i \in Jobs : pending[i] \in Nat /\ published[i] \in Nat
        /\ worker.revision \in Nat /\ worker.job \subseteq Jobs
        /\ \A s \in Sockets, i \in Jobs : read[s][i] \in Nat
        /\ \A c \in Consoles, i \in Jobs : buffered[c][i] \in Nat /\ shown[c][i] \in Nat
        /\ \A p \in committed : p[1] \in Jobs /\ p[2] \in Nat
    BY DEF IInv, TypeOK, Revisions
  <2> QED
    BY Zenon, <1>1, <2>1, <2>2, <2>3 DEF IInv, Below
<1>5. SocketsSound' /\ PagesSound'
  BY Zenon, <1>1, PagesKept DEF IInv, console
<1>6. WorkerSound' /\ WorkerAwake'
  BY Zenon, <1>1 DEF IInv, WorkerSound, WorkerAwake, Waiting
<1>7. Forwarded'
  <2> SUFFICES ASSUME NEW c \in Consoles, NEW i \in Jobs, Served(c, i)'
               PROVE  \/ Travels(c, i)'
                      \/ published'[i] < revision'[i] /\ <<i, revision'[i]>> \in committed'
    BY Zenon DEF Forwarded
  <2>1. i # j /\ Served(c, i)
    BY Zenon, <1>1 DEF Served, Current
  <2>2. revision'[i] = revision[i]
    BY Zenon, <1>2, <2>1
  <2>3. Travels(c, i) => Travels(c, i)'
    BY Zenon, <1>1, <2>2 DEF Travels, Current
  <2> QED
    BY <1>1, <2>1, <2>2, <2>3 DEF IInv, Forwarded
<1> QED
  BY Zenon, <1>3, <1>4, <1>5, <1>6, <1>7 DEF IInv

\* publish() drops a snapshot only if a newer one, or the same, already left.
LEMMA PublishStep ==
    ASSUME IInv, NEW j \in Jobs, NEW r \in 1 .. MaxRevision, Publish(j, r)
    PROVE  IInv'
<1>1. /\ committed' = committed \ {<<j, r>>} /\ <<j, r>> \in committed
      /\ UNCHANGED <<revision, claimed, awake, worker, admins, handler, read, channel,
                     page, open, awaiting, buffered, shown, restarts>>
  BY Zenon DEF Publish, console
<1>2. /\ r \in Nat /\ r <= revision[j]
      /\ \A i \in Jobs : revision[i] \in Nat /\ published[i] \in Nat /\ pending[i] \in Nat
      /\ \A i \in Jobs : pending[i] <= published[i] /\ published[i] <= revision[i]
  BY Zenon, <1>1, BoundsAssumption DEF IInv, TypeOK, Revisions, Below
<1>3. \/ r <= published[j] /\ UNCHANGED <<published, pending, wake>>
      \/ /\ ~(r <= published[j]) /\ wake' = TRUE
         /\ published' = [published EXCEPT ![j] = r]
         /\ pending' = [pending EXCEPT ![j] = r]
  BY Zenon DEF Publish
<1>4. /\ published' \in Revisions /\ pending' \in Revisions
      /\ \A i \in Jobs : i # j => published'[i] = published[i] /\ pending'[i] = pending[i]
      /\ \A i \in Jobs : pending'[i] <= published'[i] /\ published'[i] <= revision[i]
  <2>1. /\ published \in Revisions /\ pending \in Revisions
    BY Zenon DEF IInv, TypeOK
  <2>2. CASE UNCHANGED <<published, pending>>
    BY Zenon, <1>2, <2>1, <2>2
  <2>3. CASE /\ published' = [published EXCEPT ![j] = r]
             /\ pending' = [pending EXCEPT ![j] = r]
    <3>1. /\ published' \in Revisions /\ pending' \in Revisions
          /\ \A i \in Jobs : i # j => published'[i] = published[i] /\ pending'[i] = pending[i]
          /\ published'[j] = r /\ pending'[j] = r
      BY Zenon, <1>2, <2>1, <2>3 DEF Revisions
    <3> QED
      BY <1>2, <3>1
  <2> QED
    BY Zenon, <1>3, <2>2, <2>3
<1>5. TypeOK'
  <2>1. wake' \in BOOLEAN
    BY Zenon, <1>3 DEF IInv, TypeOK
  <2> QED
    BY Zenon, <1>1, <1>4, <2>1 DEF IInv, TypeOK
<1>6. Below'
  BY Zenon, <1>1, <1>4 DEF IInv, Below
<1>7. SocketsSound' /\ PagesSound'
  BY Zenon, <1>1, PagesKept DEF IInv, console
<1>8. WorkerSound' /\ WorkerAwake'
  BY Zenon, <1>1, <1>3 DEF IInv, WorkerSound, WorkerAwake, Waiting
<1>9. Forwarded'
  <2> SUFFICES ASSUME NEW c \in Consoles, NEW i \in Jobs, Served(c, i)'
               PROVE  \/ Travels(c, i)'
                      \/ published'[i] < revision[i] /\ <<i, revision[i]>> \in committed'
    BY Zenon, <1>1 DEF Forwarded
  <2>1. \/ Travels(c, i)
        \/ published[i] < revision[i] /\ <<i, revision[i]>> \in committed
    BY Zenon, <1>1 DEF IInv, Forwarded, Served, Current
  <2>2. CASE pending'[i] = pending[i]
    <3>1. Travels(c, i) => Travels(c, i)'
      BY Zenon, <1>1, <2>2 DEF Travels, Current
    <3>2. CASE i = j
      <4>1. published'[i] = published[i]
        BY <1>2, <1>3, <2>2, <3>2 DEF IInv, TypeOK, Revisions
      <4>2. r <= published[i]
        BY <1>2, <1>3, <2>2, <3>2 DEF IInv, TypeOK, Revisions
      <4>3. published[i] < revision[i] => r # revision[i]
        BY <1>2, <3>2, <4>2
      <4> QED
        BY Zenon, <1>1, <2>1, <3>1, <3>2, <4>1, <4>3
    <3>3. CASE i # j
      BY Zenon, <1>1, <1>4, <2>1, <3>1, <3>3
    <3> QED
      BY Zenon, <3>2, <3>3
  <2>3. CASE pending'[i] # pending[i]
    <3>1. /\ i = j /\ ~(r <= published[j])
          /\ published'[j] = r /\ pending'[j] = r
      BY Zenon, <1>3, <1>4, <2>3 DEF IInv, TypeOK, Revisions
    <3>2. CASE r = revision[j]
      BY Zenon, <1>1, <3>1, <3>2 DEF Travels
    <3>3. CASE r # revision[j]
      <4>1. r < revision[j] /\ pending[j] # revision[j]
        BY <1>2, <3>1, <3>3
      <4>2. Travels(c, i) => Travels(c, i)'
        BY Zenon, <1>1, <3>1, <4>1 DEF Travels, Current
      <4> QED
        BY Zenon, <1>1, <2>1, <3>1, <3>3, <4>1, <4>2
    <3> QED
      BY Zenon, <3>2, <3>3
  <2> QED
    BY Zenon, <2>2, <2>3
<1> QED
  BY Zenon, <1>5, <1>6, <1>7, <1>8, <1>9 DEF IInv

\* The worker takes an update to every admin connected now, and every page
\* whose snapshot has been read is among them.
LEMMA TakeStep ==
    ASSUME IInv, NEW j \in Jobs, Take(j)
    PROVE  IInv'
<1>1. /\ worker = Idle /\ j \in Waiting /\ pending' = [pending EXCEPT ![j] = 0]
      /\ worker' = IF admins = {} THEN Idle
                   ELSE [job |-> {j}, revision |-> pending[j], to |-> admins]
      /\ UNCHANGED <<revision, claimed, committed, published, admins, handler, read,
                     channel, page, open, awaiting, buffered, shown, restarts>>
  BY Zenon DEF Take, console
<1>2. awake' = TRUE /\ wake' = (awake /\ wake)
  BY Zenon DEF Take
<1>3. /\ \A i \in Jobs : revision[i] \in Nat /\ published[i] \in Nat /\ pending[i] \in Nat
      /\ \A i \in Jobs : pending[i] <= published[i] /\ published[i] <= revision[i]
  BY Zenon DEF IInv, TypeOK, Revisions, Below
<1>4. /\ pending' \in Revisions /\ pending'[j] = 0
      /\ \A i \in Jobs : i # j => pending'[i] = pending[i]
  BY Zenon, <1>1 DEF IInv, TypeOK, Revisions
<1>5. /\ worker' \in [job : SUBSET Jobs, revision : Nat, to : SUBSET Sockets]
      /\ \A i \in worker'.job : i = j /\ worker'.revision = pending[j]
  BY Zenon, <1>1, <1>3 DEF IInv, TypeOK, Idle
<1>6. TypeOK'
  <2>1. awake' \in BOOLEAN /\ wake' \in BOOLEAN
    BY Zenon, <1>2 DEF IInv, TypeOK
  <2> QED
    BY Zenon, <1>1, <1>4, <1>5, <2>1 DEF IInv, TypeOK
<1>7. Below'
  <2>1. \A i \in Jobs : pending'[i] <= published[i]
    BY <1>3, <1>4
  <2>2. \A i \in worker'.job : worker'.revision <= revision[i]
    BY <1>3, <1>5
  <2> QED
    BY Zenon, <1>1, <2>1, <2>2 DEF IInv, Below
<1>8. SocketsSound' /\ PagesSound'
  BY Zenon, <1>1, PagesKept DEF IInv, console
<1>9. WorkerSound' /\ WorkerAwake'
  BY Zenon, <1>2, <1>5 DEF WorkerSound, WorkerAwake
<1>10. Forwarded'
  <2> SUFFICES ASSUME NEW c \in Consoles, NEW i \in Jobs, Served(c, i)'
               PROVE  \/ Travels(c, i)'
                      \/ published[i] < revision[i] /\ <<i, revision[i]>> \in committed
    BY Zenon, <1>1 DEF Forwarded
  <2>1. /\ Served(c, i)
        /\ \/ Travels(c, i)
           \/ published[i] < revision[i] /\ <<i, revision[i]>> \in committed
    BY Zenon, <1>1 DEF IInv, Forwarded, Served, Current
  <2>2. Current(c) \in admins
    BY Zenon, <2>1, CurrentIsSocket DEF IInv, SocketsSound, Served, Serving
  <2>3. CASE i # j
    BY Zenon, <1>1, <1>4, <2>1, <2>3 DEF Travels, Current, Idle
  <2>4. CASE i = j /\ pending[j] = revision[j]
    <3>1. j \in worker'.job /\ worker'.revision = revision[j] /\ Current(c) \in worker'.to
      BY Zenon, <1>1, <2>2, <2>4
    <3> QED
      BY Zenon, <1>1, <2>4, <3>1 DEF Travels, Current
  <2>5. CASE i = j /\ pending[j] # revision[j]
    BY Zenon, <1>1, <2>1, <2>5 DEF Travels, Current, Idle
  <2> QED
    BY Zenon, <2>3, <2>4, <2>5
<1> QED
  BY Zenon, <1>6, <1>7, <1>8, <1>9, <1>10 DEF IInv

\* The worker goes to sleep with nothing waiting.
LEMMA SleepStep ==
    ASSUME IInv, Sleep
    PROVE  IInv'
<1>1. /\ Waiting = {}
      /\ UNCHANGED <<revision, claimed, committed, published, pending, worker, admins,
                     handler, read, channel, page, open, awaiting, buffered, shown,
                     restarts>>
  BY Zenon DEF Sleep, console
<1>2. awake' \in BOOLEAN /\ wake' \in BOOLEAN
  BY Zenon DEF Sleep
<1>3. TypeOK'
  BY Zenon, <1>1, <1>2 DEF IInv, TypeOK
<1>4. Below' /\ WorkerSound'
  BY Zenon, <1>1 DEF IInv, Below, WorkerSound
<1>5. SocketsSound' /\ PagesSound'
  BY Zenon, <1>1, PagesKept DEF IInv, console
<1>6. WorkerAwake'
  BY Zenon, <1>1 DEF WorkerAwake, Waiting
<1>7. Forwarded'
  BY <1>1 DEF IInv, Forwarded, Served, Travels, Current
<1> QED
  BY Zenon, <1>3, <1>4, <1>5, <1>6, <1>7 DEF IInv

-----------------------------------------------------------------------------
(* The sockets.                                                            *)

\* What is kept when a frame is sent on a socket, whether or not the page is
\* still connected to it.
LEMMA EnqueueKeeps ==
    ASSUME IInv, NEW s \in Sockets, NEW x \in Frames, Enqueue(s, x),
           FrameWithin(x, revision)
    PROVE  /\ channel' \in [Sockets -> Seq(Frames)]
           /\ \A u \in Sockets : Within(channel'[u], revision)
           /\ \A u \in Sockets : u # s => channel'[u] = channel[u]
           /\ Connected(s) => channel'[s] = Append(channel[s], x)
           /\ ~Connected(s) => channel'[s] = channel[s]
           /\ \A u \in Sockets : \A j, r : Has(channel[u], j, r) => Has(channel'[u], j, r)
           /\ x.type # "snapshot" => \A u \in Sockets :
                  /\ Single(channel'[u])
                  /\ NoSnapshot(channel[u]) => NoSnapshot(channel'[u])
                  /\ \A g : Covers(channel[u], g) => Covers(channel'[u], g)
           /\ \A u \in Sockets : u[2] > page[u[1]] => channel'[u] = channel[u]
<1>1. /\ channel \in [Sockets -> Seq(Frames)]
      /\ \A u \in Sockets : Within(channel[u], revision) /\ Single(channel[u])
  BY Zenon DEF IInv, TypeOK, Below, SocketsSound
<1>2. /\ \A u \in Sockets : u # s => channel'[u] = channel[u]
      /\ Connected(s) => channel'[s] = Append(channel[s], x)
      /\ ~Connected(s) => channel'[s] = channel[s]
      /\ channel' = [channel EXCEPT ![s] = channel'[s]]
  BY Zenon, <1>1 DEF Enqueue
<1> DEFINE q == channel[s]
           p == channel'[s]
<1>3. q \in Seq(Frames) /\ Within(q, revision) /\ Single(q)
  BY Zenon, <1>1
<1>4. p = q \/ p = Append(q, x)
  BY Zenon, <1>2
<1>5. x.type # "snapshot" => \A g : FrameCovers(x, g)
  BY Zenon DEF FrameCovers
<1> HIDE DEF q, p
<1>6. /\ p \in Seq(Frames) /\ Within(p, revision)
      /\ \A j, r : Has(q, j, r) => Has(p, j, r)
      /\ x.type # "snapshot" =>
             /\ Single(p)
             /\ NoSnapshot(q) => NoSnapshot(p)
             /\ \A g : Covers(q, g) => Covers(p, g)
  <2>1. CASE p = q
    BY Zenon, <1>3, <2>1
  <2>2. CASE p = Append(q, x)
    BY Zenon, <1>3, <1>5, <2>2, AppendShape, AppendKeeps
  <2> QED
    BY Zenon, <1>4, <2>1, <2>2
<1>7. channel' \in [Sockets -> Seq(Frames)]
  BY Zenon, <1>1, <1>2, <1>6 DEF p
<1>8. \A u \in Sockets :
          /\ Within(channel'[u], revision)
          /\ \A j, r : Has(channel[u], j, r) => Has(channel'[u], j, r)
  BY Zenon, <1>1, <1>2, <1>6 DEF p, q
<1>9. x.type # "snapshot" => \A u \in Sockets :
          /\ Single(channel'[u])
          /\ NoSnapshot(channel[u]) => NoSnapshot(channel'[u])
          /\ \A g : Covers(channel[u], g) => Covers(channel'[u], g)
  BY Zenon, <1>1, <1>2, <1>6 DEF p, q
<1>10. \A u \in Sockets : u[2] > page[u[1]] => channel'[u] = channel[u]
  <2>1. Connected(s) => s[2] = page[s[1]]
    BY DEF Connected, Current
  <2>2. s[1] \in Consoles /\ page[s[1]] \in Int
    BY DEF IInv, TypeOK, Sockets
  <2>3. ~(page[s[1]] > page[s[1]])
    BY <2>2
  <2> QED
    BY Zenon, <1>2, <2>1, <2>3
<1> QED
  BY Zenon, <1>2, <1>7, <1>8, <1>9, <1>10

\* A connection that the server gives up takes nothing from the others.
LEMMA GiveUpKeeps ==
    ASSUME IInv, NEW s \in Sockets, s \in admins, GiveUp(s),
           UNCHANGED <<revision, console>>,
           read' \in [Sockets -> Revisions], \A u \in Sockets : u # s => read'[u] = read[u]
    PROVE  /\ channel' \in [Sockets -> Seq(Frames)]
           /\ \A u \in Sockets : Within(channel'[u], revision)
           /\ \A u \in Sockets : u # s => channel'[u] = channel[u]
           /\ handler' = [handler EXCEPT ![s] = "done"]
           /\ admins' = admins \ {s}
           /\ SocketsSound' /\ PagesSound'
<1>1. /\ handler' = [handler EXCEPT ![s] = "done"] /\ admins' = admins \ {s}
      /\ Enqueue(s, CloseFrame)
      /\ UNCHANGED <<page, open, awaiting, buffered, shown>>
  BY Zenon DEF GiveUp, console
<1>2. /\ CloseFrame \in Frames /\ CloseFrame.type # "snapshot"
      /\ FrameWithin(CloseFrame, revision)
  BY Zenon, FramesMade DEF FrameWithin
<1>3. /\ channel' \in [Sockets -> Seq(Frames)]
      /\ \A u \in Sockets : Within(channel'[u], revision)
      /\ \A u \in Sockets : u # s => channel'[u] = channel[u]
      /\ \A u \in Sockets :
             /\ Single(channel'[u])
             /\ NoSnapshot(channel[u]) => NoSnapshot(channel'[u])
             /\ \A g : Covers(channel[u], g) => Covers(channel'[u], g)
      /\ \A u \in Sockets : u[2] > page[u[1]] => channel'[u] = channel[u]
  BY Zenon, <1>1, <1>2, EnqueueKeeps
<1>4. /\ handler'[s] = "done" /\ \A u \in Sockets : u # s => handler'[u] = handler[u]
  BY Zenon, <1>1 DEF IInv, TypeOK
<1>5. SocketsSound'
  <2> SUFFICES ASSUME NEW u \in Sockets
               PROVE  /\ Single(channel'[u])
                      /\ handler'[u] \in {"none", "connecting", "greeting", "snapshot"} =>
                             NoSnapshot(channel'[u])
                      /\ handler'[u] \in Serving <=> u \in admins'
                      /\ u[2] > page[u[1]] => handler'[u] = "none" /\ channel'[u] = <<>>
    BY Zenon, <1>1 DEF SocketsSound
  <2>1. CASE u = s
    <3>1. ~(s[2] > page[s[1]])
      BY Zenon DEF IInv, SocketsSound, Serving
    <3> QED
      BY Zenon, <1>1, <1>3, <1>4, <2>1, <3>1 DEF Serving
  <2>2. CASE u # s
    BY Zenon, <1>1, <1>3, <1>4, <2>2 DEF IInv, SocketsSound
  <2> QED
    BY Zenon, <2>1, <2>2
<1>6. PagesSound'
  <2> SUFFICES ASSUME NEW c \in Consoles, page[c] # 0
               PROVE  /\ Covers(channel'[Current(c)], shown[c])
                      /\ handler'[Current(c)] = "snapshot" =>
                             \A j \in Jobs : shown[c][j] <= read'[Current(c)][j]
                      /\ ~awaiting[c] =>
                             /\ handler'[Current(c)] \in {"receiving", "done"}
                             /\ NoSnapshot(channel'[Current(c)])
    BY Zenon, <1>1 DEF IInv, PagesSound, Current
  <2>1. Current(c) \in Sockets
    BY Zenon, CurrentIsSocket DEF IInv
  <2> QED
    BY Zenon, <1>3, <1>4, <2>1 DEF IInv, PagesSound
<1> QED
  BY Zenon, <1>1, <1>3, <1>5, <1>6

\* Taking s out of the fan-out leaves the update on its way to the others.
LEMMA SentKeeps ==
    ASSUME TypeOK, WorkerSound, NEW s \in Sockets, s \in worker.to, Sent(s)
    PROVE  /\ worker' \in [job : SUBSET Jobs, revision : Nat, to : SUBSET Sockets]
           /\ worker'.job \subseteq worker.job /\ worker'.to \subseteq worker.to
           /\ worker'.job # {} => worker'.revision = worker.revision
           /\ \A u \in worker.to : u # s =>
                  /\ worker'.job = worker.job /\ u \in worker'.to
                  /\ worker'.revision = worker.revision
<1>1. worker \in [job : SUBSET Jobs, revision : Nat, to : SUBSET Sockets]
  BY Zenon DEF TypeOK
<1>2. CASE worker.to = {s}
  BY Zenon, <1>1, <1>2 DEF Sent, Idle
<1>3. CASE worker.to # {s}
  BY Zenon, <1>1, <1>3 DEF Sent
<1> QED
  BY Zenon, <1>2, <1>3

\* An update is enqueued for the socket it is taken out of the fan-out for.
LEMMA SendOneStep ==
    ASSUME IInv, NEW s \in Sockets, SendOne(s)
    PROVE  IInv'
<1>1. /\ s \in worker.to /\ Sent(s)
      /\ UNCHANGED <<revision, claimed, committed, published, pending, wake, awake,
                     admins, handler, read, page, open, awaiting, buffered, shown,
                     restarts>>
  BY Zenon DEF SendOne, console
<1>2. /\ worker' \in [job : SUBSET Jobs, revision : Nat, to : SUBSET Sockets]
      /\ worker'.job \subseteq worker.job /\ worker'.to \subseteq worker.to
      /\ worker'.job # {} => worker'.revision = worker.revision
      /\ \A u \in worker.to : u # s =>
             /\ worker'.job = worker.job /\ u \in worker'.to
             /\ worker'.revision = worker.revision
  BY Zenon, <1>1, SentKeeps DEF IInv
<1>3. /\ channel' \in [Sockets -> Seq(Frames)]
      /\ \A u \in Sockets :
             /\ Within(channel'[u], revision)
             /\ \A j, r : Has(channel[u], j, r) => Has(channel'[u], j, r)
             /\ Single(channel'[u])
             /\ NoSnapshot(channel[u]) => NoSnapshot(channel'[u])
             /\ \A g : Covers(channel[u], g) => Covers(channel'[u], g)
             /\ u[2] > page[u[1]] => channel'[u] = channel[u]
      /\ s \in admins /\ Connected(s) =>
             \A j \in worker.job : Has(channel'[s], j, worker.revision)
  <2>1. CASE s \notin admins
    <3>1. channel' = channel
      BY Zenon, <2>1 DEF SendOne
    <3> QED
      BY Zenon, <2>1, <3>1 DEF IInv, TypeOK, Below, SocketsSound
  <2>2. CASE s \in admins
    <3>1. PICK j \in worker.job : Enqueue(s, Update(j, worker.revision))
      BY Zenon, <2>2 DEF SendOne
    <3> DEFINE x == Update(j, worker.revision)
    <3>2. /\ j \in Jobs /\ worker.revision \in Nat /\ worker.revision <= revision[j]
          /\ \A i \in worker.job : i = j
      BY Zenon DEF IInv, TypeOK, Below, WorkerSound
    <3>3. /\ x \in Frames /\ x.type = "update" /\ x.job = j
          /\ x.revision = worker.revision
      BY <3>2, FramesMade
    <3> HIDE DEF x
    <3>4. FrameWithin(x, revision) /\ x.type # "snapshot"
      BY Zenon, <3>2, <3>3 DEF FrameWithin
    <3>5. FrameHas(x, j, worker.revision)
      BY Zenon, <3>3 DEF FrameHas
    <3>6. Enqueue(s, x)
      BY Zenon, <3>1 DEF x
    <3>7. channel[s] \in Seq(Frames)
      BY Zenon DEF IInv, TypeOK
    <3>8. Connected(s) => Has(channel'[s], j, worker.revision)
      BY Zenon, <3>3, <3>4, <3>5, <3>6, <3>7, EnqueueKeeps, AppendKeeps
    <3>9. /\ channel' \in [Sockets -> Seq(Frames)]
          /\ \A u \in Sockets :
                 /\ Within(channel'[u], revision)
                 /\ \A i, r : Has(channel[u], i, r) => Has(channel'[u], i, r)
                 /\ Single(channel'[u])
                 /\ NoSnapshot(channel[u]) => NoSnapshot(channel'[u])
                 /\ \A g : Covers(channel[u], g) => Covers(channel'[u], g)
                 /\ u[2] > page[u[1]] => channel'[u] = channel[u]
      BY Zenon, <3>3, <3>4, <3>6, EnqueueKeeps
    <3> QED
      BY Zenon, <3>2, <3>8, <3>9
  <2> QED
    BY Zenon, <2>1, <2>2
<1>4. TypeOK'
  BY Zenon, <1>1, <1>2, <1>3 DEF IInv, TypeOK
<1>5. Below'
  <2>1. \A j \in worker'.job : worker'.revision <= revision[j]
    BY Zenon, <1>2 DEF IInv, Below
  <2> QED
    BY Zenon, <1>1, <1>3, <2>1 DEF IInv, Below
<1>6. SocketsSound'
  BY Zenon, <1>1, <1>3 DEF IInv, SocketsSound
<1>7. PagesSound'
  <2>1. \A c \in Consoles : page[c] # 0 => Current(c) \in Sockets
    BY Zenon, CurrentIsSocket DEF IInv
  <2> QED
    BY Zenon, <1>1, <1>3, <2>1 DEF IInv, PagesSound, Current
<1>8. WorkerSound' /\ WorkerAwake'
  BY Zenon, <1>1, <1>2 DEF IInv, WorkerSound, WorkerAwake, Waiting
<1>9. Forwarded'
  <2> SUFFICES ASSUME NEW c \in Consoles, NEW j \in Jobs, Served(c, j), Travels(c, j)
               PROVE  Travels(c, j)'
    BY Zenon, <1>1 DEF IInv, Forwarded, Served, Current
  <2>1. Current(c) \in Sockets /\ Connected(Current(c)) /\ Current(c) \in admins
    <3>1. Current(c) \in Sockets
      BY Zenon, CurrentIsSocket DEF IInv, Served
    <3> QED
      BY Zenon, <3>1
      DEF IInv, SocketsSound, Served, Serving, Connected, Current
  <2>2. Has(channel[Current(c)], j, revision[j]) => Has(channel'[Current(c)], j, revision[j])
    BY Zenon, <1>3, <2>1
  <2>3. CASE j \in worker.job /\ worker.revision = revision[j] /\ Current(c) \in worker.to
    <3>1. CASE Current(c) = s
      <4>1. Has(channel'[Current(c)], j, revision[j])
        BY Zenon, <1>3, <2>1, <2>3, <3>1
      <4> QED
        BY Zenon, <1>1, <4>1 DEF Travels, Current
    <3>2. CASE Current(c) # s
      <4>1. j \in worker'.job /\ worker'.revision = revision[j] /\ Current(c) \in worker'.to
        BY Zenon, <1>2, <2>3, <3>2
      <4> QED
        BY Zenon, <1>1, <4>1 DEF Travels, Current
    <3> QED
      BY Zenon, <3>1, <3>2
  <2>4. CASE ~(/\ j \in worker.job /\ worker.revision = revision[j]
               /\ Current(c) \in worker.to)
    BY Zenon, <1>1, <2>2, <2>4 DEF Travels, Current
  <2> QED
    BY Zenon, <2>3, <2>4
<1> QED
  BY Zenon, <1>4, <1>5, <1>6, <1>7, <1>8, <1>9 DEF IInv

\* A connection given up, by the fan-out or by its handler, is served no more.
LEMMA GiveUpStep ==
    ASSUME IInv, NEW s \in Sockets, SendFailed(s) \/ HandlerEnds(s)
    PROVE  IInv'
<1>1. /\ s \in admins /\ GiveUp(s)
      /\ UNCHANGED <<revision, claimed, committed, published, pending, wake, awake,
                     page, open, awaiting, buffered, shown, restarts>>
      /\ worker' = worker \/ (s \in worker.to /\ Sent(s))
      /\ read' = read \/ read' = [read EXCEPT ![s] = Nothing]
  BY Zenon DEF SendFailed, HandlerEnds, IInv, SocketsSound, server, console
<1>2. /\ worker' \in [job : SUBSET Jobs, revision : Nat, to : SUBSET Sockets]
      /\ worker'.job \subseteq worker.job
      /\ worker'.job # {} => worker'.revision = worker.revision
      /\ \A u \in worker.to : u # s =>
             /\ worker'.job = worker.job /\ u \in worker'.to
             /\ worker'.revision = worker.revision
  <2>1. CASE worker' = worker
    BY Zenon, <2>1 DEF IInv, TypeOK
  <2>2. CASE s \in worker.to /\ Sent(s)
    BY Zenon, <2>2, SentKeeps DEF IInv
  <2> QED
    BY Zenon, <1>1, <2>1, <2>2
<1>3. /\ read' \in [Sockets -> Revisions] /\ \A u \in Sockets : u # s => read'[u] = read[u]
      /\ \A u \in Sockets, j \in Jobs : read'[u][j] <= revision[j]
  <2>1. Nothing \in Revisions /\ \A j \in Jobs : Nothing[j] = 0 /\ 0 <= revision[j]
    BY DEF Nothing, Revisions, IInv, TypeOK
  <2> QED
    BY Zenon, <1>1, <2>1 DEF IInv, TypeOK, Below
<1>4. /\ channel' \in [Sockets -> Seq(Frames)]
      /\ \A u \in Sockets : Within(channel'[u], revision)
      /\ \A u \in Sockets : u # s => channel'[u] = channel[u]
      /\ handler' = [handler EXCEPT ![s] = "done"]
      /\ admins' = admins \ {s}
      /\ SocketsSound' /\ PagesSound'
  BY Zenon, <1>1, <1>3, GiveUpKeeps DEF console
<1>5. TypeOK'
  BY Zenon, <1>1, <1>2, <1>3, <1>4 DEF IInv, TypeOK
<1>6. Below'
  <2>1. \A j \in worker'.job : worker'.revision <= revision[j]
    BY Zenon, <1>2 DEF IInv, Below
  <2> QED
    BY Zenon, <1>1, <1>3, <1>4, <2>1 DEF IInv, Below
<1>7. WorkerSound' /\ WorkerAwake'
  BY Zenon, <1>1, <1>2 DEF IInv, WorkerSound, WorkerAwake, Waiting
<1>8. Forwarded'
  <2> SUFFICES ASSUME NEW c \in Consoles, NEW j \in Jobs, Served(c, j)'
               PROVE  \/ Travels(c, j)'
                      \/ published[j] < revision[j] /\ <<j, revision[j]>> \in committed
    BY Zenon, <1>1 DEF Forwarded
  <2>1. Current(c) \in Sockets /\ Current(c)' = Current(c)
    BY Zenon, <1>1, CurrentIsSocket DEF IInv, Served, Current
  <2>2. Current(c) # s /\ Served(c, j)
    BY Zenon, <1>1, <1>4, <2>1 DEF Served, IInv, TypeOK
  <2>3. /\ handler'[Current(c)] = handler[Current(c)]
        /\ channel'[Current(c)] = channel[Current(c)]
        /\ read'[Current(c)] = read[Current(c)]
    BY Zenon, <1>3, <1>4, <2>1, <2>2 DEF IInv, TypeOK
  <2>4. Travels(c, j) => Travels(c, j)'
    BY Zenon, <1>1, <1>2, <2>1, <2>2, <2>3 DEF Travels
  <2> QED
    BY Zenon, <2>2, <2>4 DEF IInv, Forwarded
<1> QED
  BY Zenon, <1>4, <1>5, <1>6, <1>7, <1>8 DEF IInv

-----------------------------------------------------------------------------
(* The handlers.                                                           *)

\* A handler adds its connection, then reads the store.
LEMMA HandlerStep ==
    ASSUME IInv, NEW s \in Sockets, Accept(s) \/ ReadSnapshot(s)
    PROVE  IInv'
<1>1. /\ UNCHANGED <<revision, claimed, committed, published, pending, wake, awake,
                     worker, channel, page, open, awaiting, buffered, shown, restarts>>
      /\ \/ /\ handler[s] = "connecting" /\ handler' = [handler EXCEPT ![s] = "greeting"]
            /\ admins' = admins \cup {s} /\ read' = read
         \/ /\ handler[s] = "greeting" /\ handler' = [handler EXCEPT ![s] = "snapshot"]
            /\ admins' = admins /\ read' = [read EXCEPT ![s] = revision]
  BY Zenon DEF Accept, ReadSnapshot, server, console
<1>2. /\ \A u \in Sockets : u # s => handler'[u] = handler[u] /\ read'[u] = read[u]
      /\ handler'[s] \in {"greeting", "snapshot"}
      /\ handler[s] \in {"connecting", "greeting"}
      /\ handler'[s] = "snapshot" => read'[s] = revision
      /\ read' \in [Sockets -> Revisions]
      /\ \A u \in Sockets : read'[u] = read[u] \/ read'[u] = revision
  <2>1. /\ handler \in [Sockets -> {"none", "connecting", "done"} \cup Serving]
        /\ read \in [Sockets -> Revisions] /\ revision \in Revisions
    BY Zenon DEF IInv, TypeOK
  <2>2. CASE read' = read
    BY Zenon, <1>1, <2>1, <2>2
  <2>3. CASE read' = [read EXCEPT ![s] = revision] /\ handler[s] = "greeting"
             /\ handler' = [handler EXCEPT ![s] = "snapshot"]
    BY Zenon, <2>1, <2>3
  <2> QED
    BY Zenon, <1>1, <2>2, <2>3
<1>3. TypeOK'
  <2>1. handler' \in [Sockets -> {"none", "connecting", "done"} \cup Serving]
    BY Zenon, <1>1 DEF IInv, TypeOK, Serving
  <2>2. admins' \subseteq Sockets
    BY Zenon, <1>1 DEF IInv, TypeOK
  <2> QED
    BY Zenon, <1>1, <1>2, <2>1, <2>2 DEF IInv, TypeOK
<1>4. Below'
  <2>1. \A j \in Jobs : revision[j] <= revision[j]
    BY DEF IInv, TypeOK, Revisions
  <2>2. \A u \in Sockets, j \in Jobs : read'[u][j] <= revision[j]
    BY Zenon, <1>2, <2>1 DEF IInv, Below
  <2> QED
    BY Zenon, <1>1, <2>2 DEF IInv, Below
<1>5. SocketsSound'
  BY Zenon, <1>1, <1>2 DEF IInv, TypeOK, SocketsSound, Serving
<1>6. PagesSound'
  <2> SUFFICES ASSUME NEW c \in Consoles, page[c] # 0
               PROVE  /\ handler'[Current(c)] = "snapshot" =>
                             \A j \in Jobs : shown[c][j] <= read'[Current(c)][j]
                      /\ ~awaiting[c] => handler'[Current(c)] \in {"receiving", "done"}
    BY Zenon, <1>1 DEF IInv, PagesSound, Current
  <2>1. Current(c) \in Sockets
    BY Zenon, CurrentIsSocket DEF IInv
  <2>2. CASE Current(c) = s
    BY Zenon, <1>2, <2>2 DEF IInv, PagesSound, Below
  <2>3. CASE Current(c) # s
    BY Zenon, <1>2, <2>1, <2>3 DEF IInv, PagesSound
  <2> QED
    BY Zenon, <2>2, <2>3
<1>7. WorkerSound' /\ WorkerAwake'
  BY Zenon, <1>1 DEF IInv, WorkerSound, WorkerAwake, Waiting
<1>8. Forwarded'
  <2> SUFFICES ASSUME NEW c \in Consoles, NEW j \in Jobs, Served(c, j)'
               PROVE  \/ Travels(c, j)'
                      \/ published[j] < revision[j] /\ <<j, revision[j]>> \in committed
    BY Zenon, <1>1 DEF Forwarded
  <2>1. Current(c) \in Sockets /\ Current(c)' = Current(c)
    BY Zenon, <1>1, CurrentIsSocket DEF IInv, Served, Current
  <2>2. CASE Current(c) = s
    BY Zenon, <1>1, <1>2, <2>1, <2>2 DEF Served, Travels
  <2>3. CASE Current(c) # s
    <3>1. Served(c, j) /\ (Travels(c, j) => Travels(c, j)')
      BY Zenon, <1>1, <1>2, <2>1, <2>3 DEF Served, Travels
    <3> QED
      BY Zenon, <3>1 DEF IInv, Forwarded
  <2> QED
    BY Zenon, <2>2, <2>3
<1> QED
  BY Zenon, <1>3, <1>4, <1>5, <1>6, <1>7, <1>8 DEF IInv

\* The snapshot that is sent is the one that was read.
LEMMA SnapshotStep ==
    ASSUME IInv, NEW s \in Sockets, SendSnapshot(s)
    PROVE  IInv'
<1> DEFINE x == Snapshot(read[s])
<1>1. /\ UNCHANGED <<revision, claimed, committed, published, pending, wake, awake,
                     worker, admins, page, open, awaiting, buffered, shown, restarts>>
      /\ handler[s] = "snapshot" /\ handler' = [handler EXCEPT ![s] = "receiving"]
      /\ read' = [read EXCEPT ![s] = Nothing]
      /\ Enqueue(s, x)
  BY Zenon DEF SendSnapshot, server, console
<1>2. /\ x \in Frames /\ x.type = "snapshot" /\ x.jobs = read[s]
  BY Zenon, FramesMade DEF IInv, TypeOK
<1> HIDE DEF x
<1>3. FrameWithin(x, revision)
  BY Zenon, <1>2 DEF FrameWithin, IInv, Below
<1>4. /\ channel' \in [Sockets -> Seq(Frames)]
      /\ \A u \in Sockets : Within(channel'[u], revision)
      /\ \A u \in Sockets : u # s => channel'[u] = channel[u]
      /\ Connected(s) => channel'[s] = Append(channel[s], x)
      /\ ~Connected(s) => channel'[s] = channel[s]
      /\ \A u \in Sockets : \A j, r : Has(channel[u], j, r) => Has(channel'[u], j, r)
      /\ \A u \in Sockets : u[2] > page[u[1]] => channel'[u] = channel[u]
  BY Zenon, <1>1, <1>2, <1>3, EnqueueKeeps
<1>5. /\ \A u \in Sockets : u # s => handler'[u] = handler[u] /\ read'[u] = read[u]
      /\ handler'[s] = "receiving" /\ read'[s] = Nothing
      /\ Nothing \in Revisions /\ read' \in [Sockets -> Revisions]
  BY Zenon, <1>1 DEF IInv, TypeOK, Nothing, Revisions
<1>6. channel[s] \in Seq(Frames) /\ NoSnapshot(channel[s])
  BY Zenon, <1>1 DEF IInv, TypeOK, SocketsSound
<1>7. TypeOK'
  BY Zenon, <1>1, <1>4, <1>5 DEF IInv, TypeOK, Serving
<1>8. Below'
  <2>1. \A j \in Jobs : Nothing[j] <= revision[j]
    BY DEF IInv, TypeOK, Revisions, Nothing
  <2>2. \A u \in Sockets, j \in Jobs : read'[u][j] <= revision[j]
    BY Zenon, <1>5, <2>1 DEF IInv, Below
  <2> QED
    BY Zenon, <1>1, <1>4, <2>2 DEF IInv, Below
<1>9. SocketsSound'
  <2>1. Single(channel'[s])
    BY Zenon, <1>2, <1>4, <1>6, AppendKeeps DEF IInv, SocketsSound
  <2> QED
    BY Zenon, <1>1, <1>4, <1>5, <2>1 DEF IInv, SocketsSound, Serving
<1>10. PagesSound'
  <2> SUFFICES ASSUME NEW c \in Consoles, page[c] # 0
               PROVE  /\ Covers(channel'[Current(c)], shown[c])
                      /\ handler'[Current(c)] = "snapshot" =>
                             \A j \in Jobs : shown[c][j] <= read'[Current(c)][j]
                      /\ ~awaiting[c] => /\ handler'[Current(c)] \in {"receiving", "done"}
                                         /\ NoSnapshot(channel'[Current(c)])
    BY Zenon, <1>1 DEF IInv, PagesSound, Current
  <2>1. Current(c) \in Sockets
    BY Zenon, CurrentIsSocket DEF IInv
  <2>2. CASE Current(c) = s
    <3>1. awaiting[c]
      BY Zenon, <1>1, <2>2 DEF IInv, PagesSound
    <3>2. FrameCovers(x, shown[c])
      BY Zenon, <1>1, <1>2, <2>2 DEF IInv, PagesSound, FrameCovers
    <3>3. Covers(channel[s], shown[c])
      BY Zenon, <2>2 DEF IInv, PagesSound
    <3>4. Covers(channel'[s], shown[c])
      BY Zenon, <1>2, <1>4, <1>6, <3>2, <3>3, AppendKeeps
    <3> QED
      BY Zenon, <1>5, <2>2, <3>1, <3>4
  <2>3. CASE Current(c) # s
    BY Zenon, <1>4, <1>5, <2>1, <2>3 DEF IInv, PagesSound
  <2> QED
    BY Zenon, <2>2, <2>3
<1>11. WorkerSound' /\ WorkerAwake'
  BY Zenon, <1>1 DEF IInv, WorkerSound, WorkerAwake, Waiting
<1>12. Forwarded'
  <2> SUFFICES ASSUME NEW c \in Consoles, NEW j \in Jobs, Served(c, j), Travels(c, j)
               PROVE  Travels(c, j)'
    <3>1. ASSUME NEW c \in Consoles, NEW j \in Jobs, Served(c, j)'
          PROVE  Served(c, j)
      <4>1. Current(c) \in Sockets /\ Current(c)' = Current(c)
        BY Zenon, <1>1, <3>1, CurrentIsSocket DEF IInv, Served, Current
      <4> QED
        BY Zenon, <1>1, <1>5, <3>1, <4>1 DEF Served
    <3> QED
      BY Zenon, <1>1, <3>1 DEF IInv, Forwarded
  <2>1. Current(c) \in Sockets /\ Connected(Current(c)) /\ Current(c)' = Current(c)
    <3>1. Current(c) \in Sockets
      BY Zenon, CurrentIsSocket DEF IInv, Served
    <3> QED
      BY Zenon, <1>1, <3>1 DEF Served, Connected, Current
  <2>2. Has(channel[Current(c)], j, revision[j]) => Has(channel'[Current(c)], j, revision[j])
    BY Zenon, <1>4, <2>1
  <2>3. CASE Current(c) = s /\ read[s][j] = revision[j]
    <3>1. FrameHas(x, j, revision[j])
      BY Zenon, <1>2, <2>3 DEF FrameHas
    <3>2. Has(channel'[s], j, revision[j])
      BY Zenon, <1>2, <1>4, <1>6, <2>1, <2>3, <3>1, AppendKeeps
    <3> QED
      BY Zenon, <1>1, <2>1, <2>3, <3>2 DEF Travels
  <2>4. CASE ~(Current(c) = s /\ read[s][j] = revision[j])
    BY Zenon, <1>1, <1>5, <2>1, <2>2, <2>4 DEF Travels
  <2> QED
    BY Zenon, <2>3, <2>4
<1> QED
  BY Zenon, <1>7, <1>8, <1>9, <1>10, <1>11, <1>12 DEF IInv

-----------------------------------------------------------------------------
(* The browser.                                                            *)

\* A page connects on a socket that nothing has been sent on.
LEMMA ConnectStep ==
    ASSUME IInv, NEW c \in Consoles, Connect(c)
    PROVE  IInv'
<1> DEFINE s == <<c, page[c] + 1>>
<1>1. /\ page[c] < MaxSockets
      /\ page' = [page EXCEPT ![c] = @ + 1]
      /\ open' = [open EXCEPT ![c] = TRUE]
      /\ awaiting' = [awaiting EXCEPT ![c] = TRUE]
      /\ buffered' = [buffered EXCEPT ![c] = Nothing]
      /\ handler' = [handler EXCEPT ![s] = "connecting"]
      /\ UNCHANGED <<revision, claimed, committed, published, pending, wake, awake,
                     worker, admins, read, channel, shown, restarts>>
  BY Zenon DEF Connect, server
<1>2. /\ s \in Sockets /\ s[1] = c /\ s[2] = page[c] + 1 /\ s[2] > page[c]
      /\ page'[c] = s[2] /\ page[c] \in Nat
      /\ page' \in [Consoles -> 0 .. MaxSockets]
      /\ \A d \in Consoles : d # c => page'[d] = page[d]
  BY <1>1, BoundsAssumption DEF IInv, TypeOK, Sockets
<1>3. Current(c)' = s /\ \A d \in Consoles : d # c => Current(d)' = Current(d) /\ Current(d) # s
  BY Zenon, <1>2 DEF Current
<1>4. handler[s] = "none" /\ channel[s] = <<>> /\ s \notin admins
  BY Zenon, <1>2 DEF IInv, SocketsSound, Serving
<1> HIDE DEF s
<1>5. /\ handler'[s] = "connecting" /\ \A u \in Sockets : u # s => handler'[u] = handler[u]
      /\ open'[c] /\ awaiting'[c] /\ buffered'[c] = Nothing
      /\ \A d \in Consoles : d # c => /\ open'[d] = open[d] /\ awaiting'[d] = awaiting[d]
                                      /\ buffered'[d] = buffered[d]
  BY Zenon, <1>1, <1>2 DEF IInv, TypeOK
<1>6. TypeOK'
  <2>1. Nothing \in Revisions
    BY Zenon DEF Nothing, Revisions
  <2>2. open' \in [Consoles -> BOOLEAN] /\ awaiting' \in [Consoles -> BOOLEAN]
    BY Zenon, <1>1 DEF IInv, TypeOK
  <2>3. /\ buffered' \in [Consoles -> Revisions]
        /\ handler' \in [Sockets -> {"none", "connecting", "done"} \cup Serving]
    BY Zenon, <1>1, <1>2, <2>1 DEF IInv, TypeOK
  <2> QED
    BY Zenon, <1>1, <1>2, <2>2, <2>3 DEF IInv, TypeOK
<1>7. Below'
  <2>1. \A j \in Jobs : Nothing[j] <= revision[j]
    BY DEF IInv, TypeOK, Revisions, Nothing
  <2>2. \A d \in Consoles, j \in Jobs : buffered'[d][j] <= revision[j]
    BY Zenon, <1>5, <2>1 DEF IInv, Below
  <2> QED
    BY Zenon, <1>1, <2>2 DEF IInv, Below
<1>8. SocketsSound'
  <2> SUFFICES ASSUME NEW u \in Sockets
               PROVE  /\ Single(channel[u])
                      /\ handler'[u] \in {"none", "connecting", "greeting", "snapshot"} =>
                             NoSnapshot(channel[u])
                      /\ handler'[u] \in Serving <=> u \in admins
                      /\ u[2] > page'[u[1]] => handler'[u] = "none" /\ channel[u] = <<>>
    BY Zenon, <1>1 DEF SocketsSound
  <2>1. u[1] \in Consoles /\ u[2] \in Nat /\ page[u[1]] \in Nat
    BY BoundsAssumption DEF Sockets, IInv, TypeOK
  <2>2. CASE u = s
    BY <1>2, <1>4, <1>5, <2>1, <2>2, EmptyKeeps DEF Serving
  <2>3. CASE u # s
    <3>1. u[2] > page'[u[1]] => u[2] > page[u[1]]
      BY <1>2, <2>1
    <3> QED
      BY Zenon, <1>5, <2>3, <3>1 DEF IInv, SocketsSound
  <2> QED
    BY Zenon, <2>2, <2>3
<1>9. PagesSound'
  <2> SUFFICES ASSUME NEW d \in Consoles
               PROVE  /\ open'[d] => page'[d] # 0
                      /\ page'[d] # 0 =>
                             /\ Covers(channel[Current(d)'], shown[d])
                             /\ handler'[Current(d)'] = "snapshot" =>
                                    \A j \in Jobs : shown[d][j] <= read[Current(d)'][j]
                             /\ ~awaiting'[d] =>
                                    /\ handler'[Current(d)'] \in {"receiving", "done"}
                                    /\ NoSnapshot(channel[Current(d)'])
    BY Zenon, <1>1 DEF PagesSound, Current
  <2>1. CASE d = c
    BY <1>2, <1>3, <1>4, <1>5, <2>1, EmptyKeeps
  <2>2. CASE d # c
    <3>1. page[d] # 0 => Current(d) \in Sockets
      BY Zenon, CurrentIsSocket DEF IInv
    <3> QED
      BY <1>2, <1>3, <1>5, <2>2, <3>1 DEF IInv, PagesSound
  <2> QED
    BY Zenon, <2>1, <2>2
<1>10. WorkerSound' /\ WorkerAwake'
  BY Zenon, <1>1 DEF IInv, WorkerSound, WorkerAwake, Waiting
<1>11. Forwarded'
  <2> SUFFICES ASSUME NEW d \in Consoles, NEW j \in Jobs, Served(d, j)'
               PROVE  \/ Travels(d, j)'
                      \/ published[j] < revision[j] /\ <<j, revision[j]>> \in committed
    BY Zenon, <1>1 DEF Forwarded
  <2>1. d # c
    BY Zenon, <1>3, <1>5 DEF Served
  <2>2. Current(d)' = Current(d) /\ Current(d) # s /\ open[d]
    BY Zenon, <1>3, <1>5, <2>1 DEF Served
  <2>3. Current(d) \in Sockets
    BY Zenon, <2>2, CurrentIsSocket DEF IInv
  <2>4. Served(d, j) /\ (Travels(d, j) => Travels(d, j)')
    BY <1>1, <1>5, <2>1, <2>2, <2>3 DEF Served, Travels
  <2> QED
    BY Zenon, <2>4 DEF IInv, Forwarded
<1> QED
  BY Zenon, <1>6, <1>7, <1>8, <1>9, <1>10, <1>11 DEF IInv

\* A lost connection loses the frames on it and is open no more.
LEMMA LostStep ==
    ASSUME IInv, NEW c \in Consoles, Lost(c)
    PROVE  IInv'
<1> DEFINE s == Current(c)
<1>1. /\ open[c] /\ open' = [open EXCEPT ![c] = FALSE]
      /\ channel' = [channel EXCEPT ![s] = <<>>]
      /\ handler' = [handler EXCEPT ![s] = IF @ = "connecting" THEN "done" ELSE @]
      /\ UNCHANGED <<revision, claimed, committed, published, pending, wake, awake,
                     worker, admins, read, page, awaiting, buffered, shown, restarts>>
  BY Zenon DEF Lost, server
<1>2. /\ s \in Sockets /\ page[c] # 0
      /\ \A d \in Consoles : Current(d)' = Current(d) /\ (d # c => Current(d) # s)
  BY Zenon, <1>1, CurrentIsSocket DEF IInv, Current
<1> HIDE DEF s
<1>3. /\ channel'[s] = <<>>
      /\ handler'[s] = IF handler[s] = "connecting" THEN "done" ELSE handler[s]
      /\ \A u \in Sockets : u # s => handler'[u] = handler[u] /\ channel'[u] = channel[u]
  BY Zenon, <1>1, <1>2 DEF IInv, TypeOK
<1>4. TypeOK'
  <2>1. open' \in [Consoles -> BOOLEAN]
    BY Zenon, <1>1 DEF IInv, TypeOK
  <2>2. /\ channel' \in [Sockets -> Seq(Frames)]
        /\ handler' \in [Sockets -> {"none", "connecting", "done"} \cup Serving]
    BY Zenon, <1>1, <1>2, EmptyKeeps DEF IInv, TypeOK
  <2> QED
    BY Zenon, <1>1, <2>1, <2>2 DEF IInv, TypeOK
<1>5. Below'
  <2>1. \A u \in Sockets : Within(channel'[u], revision)
    BY Zenon, <1>3, EmptyKeeps DEF IInv, Below
  <2> QED
    BY Zenon, <1>1, <2>1 DEF IInv, Below
<1>6. SocketsSound'
  BY <1>1, <1>2, <1>3, EmptyKeeps DEF IInv, SocketsSound, Serving
<1>7. PagesSound'
  <2> SUFFICES ASSUME NEW d \in Consoles
               PROVE  /\ open'[d] => page[d] # 0
                      /\ page[d] # 0 =>
                             /\ Covers(channel'[Current(d)], shown[d])
                             /\ handler'[Current(d)] = "snapshot" =>
                                    \A j \in Jobs : shown[d][j] <= read[Current(d)][j]
                             /\ ~awaiting[d] =>
                                    /\ handler'[Current(d)] \in {"receiving", "done"}
                                    /\ NoSnapshot(channel'[Current(d)])
    BY Zenon, <1>1, <1>2 DEF PagesSound
  <2>1. open'[d] => page[d] # 0
    BY Zenon, <1>1 DEF IInv, TypeOK, PagesSound
  <2>2. CASE d = c
    BY Zenon, <1>2, <1>3, <2>1, <2>2, EmptyKeeps DEF IInv, PagesSound, s
  <2>3. CASE d # c
    <3>1. page[d] # 0 => Current(d) \in Sockets
      BY Zenon, CurrentIsSocket DEF IInv
    <3> QED
      BY Zenon, <1>2, <1>3, <2>1, <2>3, <3>1 DEF IInv, PagesSound
  <2> QED
    BY Zenon, <2>2, <2>3
<1>8. WorkerSound' /\ WorkerAwake'
  BY Zenon, <1>1 DEF IInv, WorkerSound, WorkerAwake, Waiting
<1>9. Forwarded'
  <2> SUFFICES ASSUME NEW d \in Consoles, NEW j \in Jobs, Served(d, j)'
               PROVE  \/ Travels(d, j)'
                      \/ published[j] < revision[j] /\ <<j, revision[j]>> \in committed
    BY Zenon, <1>1 DEF Forwarded
  <2>1. d # c /\ open[d]
    BY Zenon, <1>1 DEF Served, IInv, TypeOK
  <2>2. Current(d)' = Current(d) /\ Current(d) # s /\ Current(d) \in Sockets
    BY Zenon, <1>2, <2>1, CurrentIsSocket DEF IInv
  <2>3. Served(d, j) /\ (Travels(d, j) => Travels(d, j)')
    BY Zenon, <1>1, <1>3, <2>1, <2>2 DEF Served, Travels
  <2> QED
    BY Zenon, <2>3 DEF IInv, Forwarded
<1> QED
  BY Zenon, <1>4, <1>5, <1>6, <1>7, <1>8, <1>9 DEF IInv

\* What one frame does to the page that receives it: what the page shows only
\* grows, and what the frame carries is shown or buffered.
Shows(c, x) ==
    /\ shown' \in [Consoles -> Revisions] /\ buffered' \in [Consoles -> Revisions]
    /\ open' \in [Consoles -> BOOLEAN] /\ awaiting' \in [Consoles -> BOOLEAN]
    /\ \A d \in Consoles : d # c => /\ open'[d] = open[d] /\ awaiting'[d] = awaiting[d]
                                    /\ shown'[d] = shown[d] /\ buffered'[d] = buffered[d]
    /\ open'[c] => open[c]
    /\ \A j \in Jobs : /\ shown[c][j] <= shown'[c][j] /\ shown'[c][j] <= revision[j]
                       /\ buffered'[c][j] <= revision[j]
    /\ open'[c] => \A j \in Jobs :
           (\/ buffered[c][j] = revision[j] \/ shown[c][j] = revision[j]
            \/ FrameHas(x, j, revision[j])) =>
               buffered'[c][j] = revision[j] \/ shown'[c][j] = revision[j]
    /\ \/ awaiting[c] /\ awaiting'[c] /\ shown'[c] = shown[c]
       \/ ~awaiting[c] /\ ~awaiting'[c]
       \/ x.type = "snapshot" /\ ~awaiting'[c]

\* A snapshot replaces what is shown by something that is not older.
LEMMA SnapshotShows ==
    ASSUME IInv, NEW c \in Consoles, NEW x \in Frames, x.type = "snapshot",
           FrameWithin(x, revision), FrameCovers(x, shown[c]), ReplaceJobs(c, x.jobs)
    PROVE  Shows(c, x)
<1> DEFINE m == Newer(x.jobs, buffered[c])
<1>1. /\ shown' = [shown EXCEPT ![c] = m]
      /\ buffered' = [buffered EXCEPT ![c] = Nothing]
      /\ awaiting' = [awaiting EXCEPT ![c] = FALSE]
      /\ open' = open
  BY Zenon DEF ReplaceJobs
<1>2. /\ \A j \in Jobs : /\ x.jobs[j] \in Nat /\ buffered[c][j] \in Nat
                         /\ shown[c][j] \in Nat /\ revision[j] \in Nat
                         /\ shown[c][j] <= x.jobs[j] /\ x.jobs[j] <= revision[j]
                         /\ buffered[c][j] <= revision[j]
  BY Zenon, FrameFields
  DEF IInv, TypeOK, Below, Revisions, FrameWithin, FrameCovers
<1>3. \A j \in Jobs : m[j] = IF x.jobs[j] < buffered[c][j] THEN buffered[c][j] ELSE x.jobs[j]
  BY Zenon DEF Newer
<1>4. \A j \in Jobs : m[j] \in Nat
  BY Zenon, <1>2, <1>3
<1>5. m \in Revisions /\ Nothing \in Revisions /\ \A j \in Jobs : Nothing[j] = 0
  BY Zenon, <1>4 DEF Newer, Nothing, Revisions
<1> HIDE DEF m
<1>6. \A j \in Jobs :
          /\ shown[c][j] <= m[j] /\ m[j] <= revision[j]
          /\ (\/ buffered[c][j] = revision[j] \/ shown[c][j] = revision[j]
              \/ x.jobs[j] = revision[j]) => m[j] = revision[j]
  BY <1>2, <1>3
<1>7. /\ shown' \in [Consoles -> Revisions] /\ buffered' \in [Consoles -> Revisions]
      /\ shown'[c] = m /\ buffered'[c] = Nothing
      /\ \A d \in Consoles : d # c => shown'[d] = shown[d] /\ buffered'[d] = buffered[d]
  BY Zenon, <1>1, <1>5 DEF IInv, TypeOK
<1>8. /\ open' \in [Consoles -> BOOLEAN] /\ awaiting' \in [Consoles -> BOOLEAN]
      /\ ~awaiting'[c] /\ \A d \in Consoles : d # c => awaiting'[d] = awaiting[d]
  BY Zenon, <1>1 DEF IInv, TypeOK
<1>9. \A j \in Jobs : Nothing[j] <= revision[j]
  BY <1>2, <1>5
<1>10. \A j \in Jobs : FrameHas(x, j, revision[j]) => x.jobs[j] = revision[j]
  BY Zenon DEF FrameHas
<1> QED
  BY Zenon, <1>1, <1>6, <1>7, <1>8, <1>9, <1>10 DEF Shows

\* Before the snapshot an update is buffered.
LEMMA BufferShows ==
    ASSUME IInv, NEW c \in Consoles, NEW x \in Frames, x.type = "update", awaiting[c],
           FrameWithin(x, revision), BufferJob(c, x.job, x.revision)
    PROVE  Shows(c, x)
<1> DEFINE i == x.job
           b == IF buffered[c][i] < x.revision THEN x.revision ELSE buffered[c][i]
<1>1. i \in Jobs /\ x.revision \in Nat /\ x.revision <= revision[i]
  BY Zenon, FrameFields DEF FrameWithin
<1>2. /\ buffered' = [buffered EXCEPT ![c] = [buffered[c] EXCEPT ![i] = b]]
      /\ UNCHANGED <<open, awaiting, shown>>
  BY Zenon DEF BufferJob
<1>3. \A j \in Jobs : /\ buffered[c][j] \in Nat /\ shown[c][j] \in Nat /\ revision[j] \in Nat
                      /\ buffered[c][j] <= revision[j] /\ shown[c][j] <= revision[j]
  BY Zenon DEF IInv, TypeOK, Below, Revisions
<1>4. /\ b \in Nat /\ b <= revision[i]
      /\ (buffered[c][i] = revision[i] \/ x.revision = revision[i]) => b = revision[i]
  BY <1>1, <1>3
<1>5. \A j \in Jobs : FrameHas(x, j, revision[j]) => j = i /\ x.revision = revision[i]
  BY Zenon DEF FrameHas
<1> HIDE DEF i, b
<1>6. /\ buffered' \in [Consoles -> Revisions]
      /\ buffered'[c][i] = b /\ \A j \in Jobs : j # i => buffered'[c][j] = buffered[c][j]
      /\ \A d \in Consoles : d # c => buffered'[d] = buffered[d]
  BY Zenon, <1>1, <1>2, <1>4 DEF IInv, TypeOK, Revisions
<1>7. /\ shown' \in [Consoles -> Revisions]
      /\ open' \in [Consoles -> BOOLEAN] /\ awaiting' \in [Consoles -> BOOLEAN]
  BY Zenon, <1>2 DEF IInv, TypeOK
<1>8. \A j \in Jobs : buffered'[c][j] <= revision[j] /\ shown[c][j] <= shown[c][j]
  BY <1>3, <1>4, <1>6
<1> QED
  BY Zenon, <1>2, <1>3, <1>4, <1>5, <1>6, <1>7, <1>8 DEF Shows

\* After the snapshot an update is applied unless it is older.
LEMMA ApplyShows ==
    ASSUME IInv, NEW c \in Consoles, NEW x \in Frames, x.type = "update", ~awaiting[c],
           FrameWithin(x, revision), ApplyJob(c, x.job, x.revision)
    PROVE  Shows(c, x)
<1> DEFINE i == x.job
           b == IF shown[c][i] >= x.revision THEN shown[c][i] ELSE x.revision
<1>1. i \in Jobs /\ x.revision \in Nat /\ x.revision <= revision[i]
  BY Zenon, FrameFields DEF FrameWithin
<1>2. /\ shown' = [shown EXCEPT ![c] = [shown[c] EXCEPT ![i] = b]]
      /\ UNCHANGED <<open, awaiting, buffered>>
  BY Zenon DEF ApplyJob
<1>3. \A j \in Jobs : /\ buffered[c][j] \in Nat /\ shown[c][j] \in Nat /\ revision[j] \in Nat
                      /\ buffered[c][j] <= revision[j] /\ shown[c][j] <= revision[j]
  BY Zenon DEF IInv, TypeOK, Below, Revisions
<1>4. /\ b \in Nat /\ b <= revision[i] /\ shown[c][i] <= b
      /\ (shown[c][i] = revision[i] \/ x.revision = revision[i]) => b = revision[i]
  BY <1>1, <1>3
<1>5. \A j \in Jobs : FrameHas(x, j, revision[j]) => j = i /\ x.revision = revision[i]
  BY Zenon DEF FrameHas
<1> HIDE DEF i, b
<1>6. /\ shown' \in [Consoles -> Revisions]
      /\ shown'[c][i] = b /\ \A j \in Jobs : j # i => shown'[c][j] = shown[c][j]
      /\ \A d \in Consoles : d # c => shown'[d] = shown[d]
  BY Zenon, <1>1, <1>2, <1>4 DEF IInv, TypeOK, Revisions
<1>7. /\ buffered' \in [Consoles -> Revisions]
      /\ open' \in [Consoles -> BOOLEAN] /\ awaiting' \in [Consoles -> BOOLEAN]
  BY Zenon, <1>2 DEF IInv, TypeOK
<1>8. \A j \in Jobs : shown'[c][j] <= revision[j] /\ shown[c][j] <= shown'[c][j]
  BY <1>3, <1>4, <1>6
<1> QED
  BY Zenon, <1>2, <1>3, <1>4, <1>5, <1>6, <1>7, <1>8 DEF Shows

\* The end of the connection changes nothing that is shown.
LEMMA CloseShows ==
    ASSUME IInv, NEW c \in Consoles, NEW x \in Frames, x.type = "close", OnClose(c)
    PROVE  Shows(c, x)
<1>1. /\ open' = [open EXCEPT ![c] = FALSE] /\ UNCHANGED <<awaiting, buffered, shown>>
  BY Zenon DEF OnClose
<1>2. /\ open' \in [Consoles -> BOOLEAN] /\ awaiting' \in [Consoles -> BOOLEAN]
      /\ ~open'[c] /\ \A d \in Consoles : d # c => open'[d] = open[d]
  BY Zenon, <1>1 DEF IInv, TypeOK
<1>3. /\ shown' \in [Consoles -> Revisions] /\ buffered' \in [Consoles -> Revisions]
  BY Zenon, <1>1 DEF IInv, TypeOK
<1>4. \A j \in Jobs : /\ shown[c][j] <= shown[c][j] /\ shown[c][j] <= revision[j]
                      /\ buffered[c][j] <= revision[j]
  BY DEF IInv, TypeOK, Below, Revisions
<1> QED
  BY Zenon, <1>1, <1>2, <1>3, <1>4 DEF Shows

\* A page takes the first frame of its current socket and shows it.
LEMMA ReceiveShows ==
    ASSUME IInv, NEW c \in Consoles, Receive(c)
    PROVE  /\ open[c] /\ Current(c) \in Sockets /\ channel[Current(c)] # <<>>
           /\ channel[Current(c)] \in Seq(Frames)
           /\ channel' = [channel EXCEPT ![Current(c)] = Tail(channel[Current(c)])]
           /\ UNCHANGED <<revision, claimed, committed, published, pending, wake, awake,
                          worker, admins, handler, read, page, restarts>>
           /\ Shows(c, Head(channel[Current(c)]))
<1> DEFINE q == channel[Current(c)]
           x == Head(q)
<1>1. /\ open[c] /\ q # <<>>
      /\ channel' = [channel EXCEPT ![Current(c)] = Tail(q)]
      /\ UNCHANGED <<revision, claimed, committed, published, pending, wake, awake,
                     worker, admins, handler, read, page, restarts>>
  BY Zenon DEF Receive, server
<1>2. page[c] # 0 /\ Current(c) \in Sockets
  BY Zenon, <1>1, CurrentIsSocket DEF IInv
<1>3. q \in Seq(Frames) /\ Within(q, revision) /\ Covers(q, shown[c])
  BY Zenon, <1>2 DEF IInv, TypeOK, Below, PagesSound
<1>4. /\ x.type = "snapshot" => ReplaceJobs(c, x.jobs)
      /\ x.type = "close" => OnClose(c)
      /\ x.type = "update" /\ awaiting[c] => BufferJob(c, x.job, x.revision)
      /\ x.type = "update" /\ ~awaiting[c] => ApplyJob(c, x.job, x.revision)
  BY Zenon DEF Receive
<1> HIDE DEF q
<1>5. x \in Frames /\ FrameWithin(x, revision) /\ FrameCovers(x, shown[c])
  BY Zenon, <1>1, <1>3, TailShape, TailKeeps
<1> HIDE DEF x
<1>6. x.type \in {"update", "snapshot", "close"}
  BY Zenon, <1>5, FrameFields
<1>7. Shows(c, x)
  BY Zenon, <1>4, <1>5, <1>6, SnapshotShows, BufferShows, ApplyShows,
      CloseShows
<1> QED
  BY Zenon, <1>1, <1>2, <1>3, <1>7 DEF q, x

\* Receiving a frame keeps the invariant.
LEMMA ReceiveStep ==
    ASSUME IInv, NEW c \in Consoles, Receive(c)
    PROVE  IInv'
<1> DEFINE s == Current(c)
           q == channel[s]
           x == Head(q)
<1>1. /\ open[c] /\ s \in Sockets /\ q # <<>> /\ q \in Seq(Frames)
      /\ channel' = [channel EXCEPT ![s] = Tail(q)]
      /\ UNCHANGED <<revision, claimed, committed, published, pending, wake, awake,
                     worker, admins, handler, read, page, restarts>>
      /\ Shows(c, x)
  BY Zenon, ReceiveShows
<1>2. /\ channel'[s] = Tail(q) /\ \A u \in Sockets : u # s => channel'[u] = channel[u]
      /\ \A d \in Consoles : Current(d)' = Current(d) /\ (d # c => Current(d) # s)
  BY Zenon, <1>1 DEF IInv, TypeOK, Current
<1>3. /\ Within(q, revision) /\ Covers(q, shown[c]) /\ Single(q) /\ page[c] # 0
      /\ handler[s] \in {"none", "connecting", "greeting", "snapshot"} => NoSnapshot(q)
      /\ ~awaiting[c] => NoSnapshot(q) /\ handler[s] \in {"receiving", "done"}
      /\ ~(s[2] > page[s[1]])
  <2>1. page[c] # 0 /\ s[2] = page[s[1]] /\ page[c] \in Int
    BY <1>1 DEF IInv, TypeOK, PagesSound, Current
  <2>2. ~(page[c] > page[c]) /\ s[1] = c
    BY <2>1 DEF Current
  <2> QED
    BY Zenon, <1>1, <2>1, <2>2 DEF IInv, Below, SocketsSound, PagesSound
<1>4. /\ Tail(q) \in Seq(Frames) /\ Within(Tail(q), revision)
      /\ Covers(Tail(q), shown[c]) /\ Single(Tail(q))
      /\ x.type = "snapshot" => NoSnapshot(Tail(q)) /\ ~NoSnapshot(q)
      /\ NoSnapshot(q) => NoSnapshot(Tail(q))
      /\ \A j, r : Has(q, j, r) => FrameHas(x, j, r) \/ Has(Tail(q), j, r)
  <2> HIDE DEF s, q
  <2> QED
    BY Zenon, <1>1, <1>3, TailShape, TailKeeps
<1> HIDE DEF s, q, x
<1>5. TypeOK'
  <2>1. channel' \in [Sockets -> Seq(Frames)]
    BY Zenon, <1>1, <1>4 DEF IInv, TypeOK
  <2> QED
    BY Zenon, <1>1, <2>1 DEF IInv, TypeOK, Shows
<1>6. Below'
  <2>1. \A u \in Sockets : Within(channel'[u], revision)
    BY Zenon, <1>2, <1>4 DEF IInv, Below
  <2>2. \A d \in Consoles, j \in Jobs :
            buffered'[d][j] <= revision[j] /\ shown'[d][j] <= revision[j]
    BY Zenon, <1>1 DEF IInv, Below, Shows
  <2> QED
    BY Zenon, <1>1, <2>1, <2>2 DEF IInv, Below
<1>7. SocketsSound'
  BY Zenon, <1>1, <1>2, <1>3, <1>4 DEF IInv, SocketsSound
<1>8. PagesSound'
  <2> SUFFICES ASSUME NEW d \in Consoles
               PROVE  /\ open'[d] => page[d] # 0
                      /\ page[d] # 0 =>
                             /\ Covers(channel'[Current(d)], shown'[d])
                             /\ handler[Current(d)] = "snapshot" =>
                                    \A j \in Jobs : shown'[d][j] <= read[Current(d)][j]
                             /\ ~awaiting'[d] =>
                                    /\ handler[Current(d)] \in {"receiving", "done"}
                                    /\ NoSnapshot(channel'[Current(d)])
    BY Zenon, <1>1, <1>2 DEF PagesSound
  <2>1. CASE d = c
    <3>1. CASE awaiting[c] /\ awaiting'[c] /\ shown'[c] = shown[c]
      BY Zenon, <1>2, <1>3, <1>4, <2>1, <3>1 DEF IInv, PagesSound, s
    <3>2. CASE ~awaiting'[c] /\ (~awaiting[c] \/ x.type = "snapshot")
      <4>1. NoSnapshot(Tail(q)) /\ handler[s] \in {"receiving", "done"}
        <5>1. handler[s] \in {"none", "connecting", "done"} \cup Serving
          BY Zenon, <1>1 DEF IInv, TypeOK
        <5> QED
          BY Zenon, <1>3, <1>4, <3>2, <5>1 DEF Serving
      <4>2. \A g : Covers(Tail(q), g)
        BY Zenon, <4>1 DEF NoSnapshot, Covers, FrameCovers
      <4> QED
        BY Zenon, <1>2, <1>3, <2>1, <4>1, <4>2 DEF s
    <3> QED
      BY Zenon, <1>1, <3>1, <3>2 DEF Shows
  <2>2. CASE d # c
    <3>1. page[d] # 0 => Current(d) \in Sockets
      BY Zenon, CurrentIsSocket DEF IInv
    <3>2. open'[d] = open[d] /\ awaiting'[d] = awaiting[d] /\ shown'[d] = shown[d]
      BY Zenon, <1>1, <2>2 DEF Shows
    <3> QED
      BY Zenon, <1>2, <2>2, <3>1, <3>2 DEF IInv, PagesSound
  <2> QED
    BY Zenon, <2>1, <2>2
<1>9. WorkerSound' /\ WorkerAwake'
  BY Zenon, <1>1 DEF IInv, WorkerSound, WorkerAwake, Waiting
<1>10. Forwarded'
  <2> SUFFICES ASSUME NEW d \in Consoles, NEW j \in Jobs, Served(d, j)'
               PROVE  \/ Travels(d, j)'
                      \/ published[j] < revision[j] /\ <<j, revision[j]>> \in committed
    BY Zenon, <1>1 DEF Forwarded
  <2>1. open'[d] /\ open[d] /\ Served(d, j)
    BY Zenon, <1>1, <1>2 DEF Served, Shows
  <2>2. CASE d = c
    <3>1. (\/ buffered[c][j] = revision[j] \/ shown[c][j] = revision[j]
           \/ FrameHas(x, j, revision[j])) =>
              buffered'[c][j] = revision[j] \/ shown'[c][j] = revision[j]
      BY Zenon, <1>1, <2>1, <2>2 DEF Shows
    <3>2. Has(channel[s], j, revision[j]) =>
              FrameHas(x, j, revision[j]) \/ Has(channel'[s], j, revision[j])
      BY Zenon, <1>2, <1>4 DEF q
    <3>3. Travels(c, j) => Travels(c, j)'
      BY Zenon, <1>1, <1>2, <3>1, <3>2 DEF Travels, s
    <3> QED
      BY Zenon, <2>1, <2>2, <3>3 DEF IInv, Forwarded
  <2>3. CASE d # c
    <3>1. Current(d) \in Sockets /\ Current(d) # s
      BY Zenon, <1>2, <2>1, <2>3, CurrentIsSocket DEF IInv
    <3>2. shown'[d] = shown[d] /\ buffered'[d] = buffered[d]
      BY Zenon, <1>1, <2>3 DEF Shows
    <3>3. Travels(d, j) => Travels(d, j)'
      BY Zenon, <1>1, <1>2, <3>1, <3>2 DEF Travels
    <3> QED
      BY Zenon, <2>1, <3>3 DEF IInv, Forwarded
  <2> QED
    BY Zenon, <2>2, <2>3
<1> QED
  BY Zenon, <1>5, <1>6, <1>7, <1>8, <1>9, <1>10 DEF IInv

\* After a restart no page is served until it connects again.
LEMMA RestartStep ==
    ASSUME IInv, Restart
    PROVE  IInv'
<1>1. /\ restarts < MaxRestarts /\ restarts' = restarts + 1
      /\ revision' = [j \in Jobs |-> revision[j] + IF j \in claimed THEN 1 ELSE 0]
      /\ claimed' = {} /\ committed' = {} /\ published' = Nothing /\ pending' = Nothing
      /\ worker' = Idle /\ admins' = {}
      /\ handler' = [s \in Sockets |-> IF handler[s] = "none" THEN "none" ELSE "done"]
      /\ read' = [s \in Sockets |-> Nothing]
      /\ UNCHANGED <<page, open, awaiting, buffered, shown>>
  BY Zenon DEF Restart, console
<1>2. wake' = FALSE /\ awake' = FALSE
  BY Zenon DEF Restart
<1>3. /\ revision \in Revisions /\ revision' \in Revisions
      /\ \A j \in Jobs : revision[j] \in Nat /\ revision'[j] \in Nat
      /\ \A j \in Jobs : revision[j] <= revision'[j]
  BY <1>1 DEF IInv, TypeOK, Revisions
<1>4. /\ Nothing \in Revisions /\ \A j \in Jobs : Nothing[j] <= revision'[j]
      /\ \A j \in Jobs : Nothing[j] <= Nothing[j]
  BY <1>3 DEF Nothing, Revisions
<1>5. ASSUME NEW u \in Sockets
      PROVE  /\ channel'[u] \in Seq(Frames) /\ Within(channel'[u], revision')
             /\ Single(channel'[u])
             /\ NoSnapshot(channel[u]) => NoSnapshot(channel'[u])
             /\ \A g : Covers(channel[u], g) => Covers(channel'[u], g)
             /\ u[2] > page[u[1]] => channel'[u] = channel[u]
  <2>1. /\ channel[u] \in Seq(Frames) /\ Within(channel[u], revision) /\ Single(channel[u])
    BY Zenon DEF IInv, TypeOK, Below, SocketsSound
  <2>2. Within(channel[u], revision')
    BY Zenon, <1>3, <2>1, WithinGrows
  <2>3. channel'[u] = channel[u] \/ channel'[u] = Append(channel[u], CloseFrame)
    BY Zenon DEF Restart
  <2>4. /\ CloseFrame \in Frames /\ CloseFrame.type # "snapshot"
        /\ FrameWithin(CloseFrame, revision') /\ \A g : FrameCovers(CloseFrame, g)
    BY Zenon, FramesMade DEF FrameWithin, FrameCovers
  <2>5. u[2] > page[u[1]] => channel'[u] = channel[u]
    <3>1. Connected(u) => u[2] = page[u[1]]
      BY DEF Connected, Current
    <3>2. u[1] \in Consoles /\ page[u[1]] \in Int
      BY DEF IInv, TypeOK, Sockets
    <3>3. ~(page[u[1]] > page[u[1]])
      BY <3>2
    <3> QED
      BY Zenon, <3>1, <3>3 DEF Restart
  <2>6. CASE channel'[u] = channel[u]
    BY Zenon, <2>1, <2>2, <2>5, <2>6
  <2>7. CASE channel'[u] = Append(channel[u], CloseFrame)
    <3>0. Append(channel[u], CloseFrame) \in Seq(Frames)
      BY Zenon, <2>1, <2>4, AppendShape
    <3>1. /\ channel'[u] \in Seq(Frames) /\ Within(channel'[u], revision')
          /\ Single(channel'[u])
      BY Zenon, <2>1, <2>2, <2>4, <2>7, <3>0, AppendKeeps
    <3>2. /\ NoSnapshot(channel[u]) => NoSnapshot(channel'[u])
          /\ \A g : Covers(channel[u], g) => Covers(channel'[u], g)
      BY Zenon, <2>1, <2>4, <2>7, AppendKeeps
    <3> QED
      BY Zenon, <2>5, <3>1, <3>2
  <2> QED
    BY Zenon, <2>3, <2>6, <2>7
<1>6. \A u \in Sockets : /\ handler'[u] \in {"none", "done"}
                         /\ handler'[u] = "none" <=> handler[u] = "none"
  BY Zenon, <1>1
<1>7. TypeOK'
  <2>1. channel' \in [Sockets -> Seq(Frames)]
    <3>1. channel' = [u \in Sockets |-> channel'[u]]
      BY Zenon DEF Restart
    <3> QED
      BY Zenon, <1>5, <3>1
  <2>2. worker' \in [job : SUBSET Jobs, revision : Nat, to : SUBSET Sockets]
    BY Zenon, <1>1 DEF Idle
  <2>3. wake' \in BOOLEAN /\ awake' \in BOOLEAN
    BY Zenon, <1>2
  <2>4. restarts' \in 0 .. MaxRestarts
    BY <1>1, BoundsAssumption DEF IInv, TypeOK
  <2>5. /\ handler' \in [Sockets -> {"none", "connecting", "done"} \cup Serving]
        /\ read' \in [Sockets -> Revisions]
    BY Zenon, <1>1, <1>4
  <2> QED
    BY Zenon, <1>1, <1>3, <1>4, <2>1, <2>2, <2>3, <2>4, <2>5 DEF IInv, TypeOK
<1>8. Below'
  <2>1. \A d \in Consoles, j \in Jobs :
            buffered[d][j] <= revision'[j] /\ shown[d][j] <= revision'[j]
    <3>1. \A d \in Consoles, j \in Jobs :
              /\ buffered[d][j] \in Nat /\ shown[d][j] \in Nat
              /\ buffered[d][j] <= revision[j] /\ shown[d][j] <= revision[j]
      BY Zenon DEF IInv, TypeOK, Below, Revisions
    <3> QED
      BY <1>3, <3>1
  <2>2. worker'.job = {}
    BY Zenon, <1>1 DEF Idle
  <2>3. \A u \in Sockets, j \in Jobs : read'[u][j] <= revision'[j]
    BY Zenon, <1>1, <1>4
  <2> QED
    BY Zenon, <1>1, <1>4, <1>5, <2>1, <2>2, <2>3 DEF Below
<1>9. SocketsSound'
  BY Zenon, <1>1, <1>5, <1>6 DEF IInv, SocketsSound, Serving
<1>10. PagesSound'
  <2> SUFFICES ASSUME NEW d \in Consoles, page[d] # 0
               PROVE  /\ Covers(channel'[Current(d)], shown[d])
                      /\ handler'[Current(d)] # "snapshot"
                      /\ ~awaiting[d] =>
                             /\ handler'[Current(d)] \in {"receiving", "done"}
                             /\ NoSnapshot(channel'[Current(d)])
    BY Zenon, <1>1 DEF IInv, PagesSound, Current
  <2>1. Current(d) \in Sockets
    BY Zenon, CurrentIsSocket DEF IInv
  <2> QED
    BY Zenon, <1>5, <1>6, <2>1 DEF IInv, PagesSound
<1>11. WorkerSound' /\ WorkerAwake'
  BY Zenon, <1>1 DEF WorkerSound, WorkerAwake, Waiting, Idle, Nothing
<1>12. Forwarded'
  <2>1. \A d \in Consoles : open[d] => Current(d) \in Sockets
    BY Zenon, CurrentIsSocket DEF IInv
  <2> QED
    BY Zenon, <1>1, <1>6, <2>1 DEF Forwarded, Served, Current
<1> QED
  BY Zenon, <1>7, <1>8, <1>9, <1>10, <1>11, <1>12 DEF IInv

-----------------------------------------------------------------------------
(* The theorems.                                                           *)

\* The invariant holds when the server starts with no page connected.
LEMMA InitInvariant == Init => IInv
<1> SUFFICES ASSUME Init PROVE IInv
  BY Zenon
<1>1. /\ Nothing \in Revisions /\ \A j \in Jobs : Nothing[j] = 0
  BY Zenon DEF Nothing, Revisions
<1>2. TypeOK
  <2>1. wake \in BOOLEAN /\ awake \in BOOLEAN
    BY Zenon DEF Init
  <2>2. worker \in [job : SUBSET Jobs, revision : Nat, to : SUBSET Sockets]
    BY Zenon DEF Init, Idle
  <2>3. channel \in [Sockets -> Seq(Frames)]
    BY Zenon, EmptyKeeps DEF Init
  <2>4. open \in [Consoles -> BOOLEAN] /\ awaiting \in [Consoles -> BOOLEAN]
    BY Zenon DEF Init
  <2>5. restarts \in 0 .. MaxRestarts /\ page \in [Consoles -> 0 .. MaxSockets]
    BY BoundsAssumption DEF Init
  <2> QED
    BY Zenon, <1>1, <2>1, <2>2, <2>3, <2>4, <2>5 DEF Init, TypeOK
<1>3. Below
  BY <1>1, EmptyKeeps DEF Init, Below, Idle
<1>4. SocketsSound
  BY Zenon, <1>1, EmptyKeeps DEF Init, SocketsSound, Serving
<1>5. PagesSound
  BY Zenon DEF Init, PagesSound
<1>6. WorkerSound /\ WorkerAwake
  BY Zenon, <1>1 DEF Init, WorkerSound, WorkerAwake, Waiting, Idle
<1>7. Forwarded
  BY Zenon DEF Init, Forwarded, Served
<1> QED
  BY Zenon, <1>2, <1>3, <1>4, <1>5, <1>6, <1>7 DEF IInv

\* Every step of the server, of the network and of the pages keeps it.
LEMMA NextInvariant == IInv /\ [Next]_vars => IInv'
<1> SUFFICES ASSUME IInv, [Next]_vars PROVE IInv'
  BY Zenon
<1>1. CASE \E j \in Jobs : Commit(j) \/ ClaimNext(j)
  BY Zenon, <1>1, CommitStep, ClaimStep
<1>2. CASE \E j \in Jobs, r \in 1 .. MaxRevision : Publish(j, r)
  BY Zenon, <1>2, PublishStep
<1>3. CASE Worker
  BY Zenon, <1>3, TakeStep, SleepStep, SendOneStep DEF Worker
<1>4. CASE \E s \in Sockets : SendFailed(s) \/ Handler(s) \/ HandlerEnds(s)
  BY Zenon, <1>4, GiveUpStep, HandlerStep, SnapshotStep DEF Handler
<1>5. CASE \E c \in Consoles : Connect(c) \/ Lost(c) \/ Receive(c)
  BY Zenon, <1>5, ConnectStep, LostStep, ReceiveStep
<1>6. CASE Restart
  BY Zenon, <1>6, RestartStep
<1>7. CASE UNCHANGED vars
  <2>1. UNCHANGED <<revision, claimed, committed, published, pending, wake, awake, worker,
                    admins, handler, read, channel, page, open, awaiting, buffered, shown,
                    restarts>>
    BY Zenon, <1>7 DEF vars, server, console
  <2>2. TypeOK'
    BY Zenon, <2>1 DEF IInv, TypeOK
  <2>3. Below'
    BY Zenon, <2>1 DEF IInv, Below
  <2>4. SocketsSound' /\ PagesSound'
    BY Zenon, <2>1, PagesKept DEF IInv, console
  <2>5. WorkerSound' /\ WorkerAwake'
    BY Zenon, <2>1 DEF IInv, WorkerSound, WorkerAwake, Waiting
  <2>6. Forwarded'
    BY <2>1 DEF IInv, Forwarded, Served, Travels, Current
  <2> QED
    BY Zenon, <2>2, <2>3, <2>4, <2>5, <2>6 DEF IInv
<1> QED
  BY Zenon, <1>1, <1>2, <1>3, <1>4, <1>5, <1>6, <1>7 DEF Next

\* The invariant holds in every reachable state, for every set of jobs and of
\* pages and every bound on connections, revisions and restarts.
THEOREM Invariance == Spec => []IInv
BY InitInvariant, NextInvariant, PTL DEF Spec

\* No committed revision is lost between the store and a page the server
\* serves: it waits in publish(), in the worker, in the snapshot being sent, in
\* the connection or in the page itself.
THEOREM RevisionsForwarded == Spec => []NothingLost
<1>1. IInv => NothingLost
  BY Zenon
  DEF IInv, Forwarded, Travels, Served, NothingLost, OnItsWay, Carries, Has,
      FrameHas
<1> QED
  BY <1>1, Invariance, PTL

\* The publication worker never sleeps while an update waits: no wake is lost
\* between publish() and the worker's clear().
THEOREM NoLostWake == Spec => []WorkerAwake
<1>1. IInv => WorkerAwake
  BY Zenon DEF IInv
<1> QED
  BY <1>1, Invariance, PTL

\* No page goes back to an older revision of a job, across snapshots, buffered
\* updates, reconnections and restarts of the server.
THEOREM PagesOnlyAdvance == Spec => NeverBack
<1>1. IInv /\ [Next]_vars =>
          [\A c \in Consoles, j \in Jobs : shown'[c][j] >= shown[c][j]]_vars
  <2> SUFFICES ASSUME IInv, Next, NEW c \in Consoles, NEW j \in Jobs
               PROVE  shown'[c][j] >= shown[c][j]
    BY Zenon
  <2>1. shown[c][j] \in Nat
    BY Zenon DEF IInv, TypeOK, Revisions
  <2>2. CASE UNCHANGED shown
    BY <2>1, <2>2
  <2>3. ASSUME NEW d \in Consoles, Receive(d)
        PROVE  shown'[c][j] >= shown[c][j]
    <3>1. Shows(d, Head(channel[Current(d)]))
      BY Zenon, <2>3, ReceiveShows
    <3>2. \A e \in Consoles : shown'[e] \in Revisions
      BY Zenon, <3>1 DEF Shows
    <3>3. shown'[c][j] \in Nat
      BY Zenon, <3>2 DEF Revisions
    <3>4. shown[c][j] <= shown'[c][j] \/ shown'[c] = shown[c]
      BY Zenon, <3>1 DEF Shows
    <3> QED
      BY <2>1, <3>3, <3>4
  <2>4. ASSUME NEW d \in Consoles, Connect(d) \/ Lost(d)
        PROVE  UNCHANGED shown
    BY Zenon, <2>4 DEF Connect, Lost
  <2>5. ASSUME NEW s \in Sockets, SendFailed(s) \/ Handler(s) \/ HandlerEnds(s)
        PROVE  UNCHANGED shown
    BY Zenon, <2>5
    DEF SendFailed, Handler, HandlerEnds, Accept, ReadSnapshot, SendSnapshot,
        console
  <2>6. ASSUME Worker PROVE UNCHANGED shown
    BY Zenon, <2>6 DEF Worker, Take, SendOne, Sleep, console
  <2>7. ASSUME NEW i \in Jobs, Commit(i) \/ ClaimNext(i) PROVE UNCHANGED shown
    BY Zenon, <2>7 DEF Commit, ClaimNext, console
  <2>8. ASSUME NEW i \in Jobs, NEW r \in 1 .. MaxRevision, Publish(i, r)
        PROVE  UNCHANGED shown
    BY Zenon, <2>8 DEF Publish, console
  <2>9. ASSUME Restart PROVE UNCHANGED shown
    BY Zenon, <2>9 DEF Restart, console
  <2> QED
    BY Zenon, <2>2, <2>3, <2>4, <2>5, <2>6, <2>7, <2>8, <2>9 DEF Next
<1> QED
  BY <1>1, Invariance, PTL DEF Spec, NeverBack

=============================================================================
