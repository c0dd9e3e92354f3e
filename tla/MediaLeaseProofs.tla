-------------------------- MODULE MediaLeaseProofs --------------------------
(***************************************************************************)
(* MediaLease for any number of requests, owners and calls: what every      *)
(* state satisfies.                                                         *)
(*                                                                          *)
(* The argument: leases are numbered, and the one in force is the one given *)
(* last, so a job that was made for an older one can tell.  A session that  *)
(* has lost its lease is named by work that no cancellation reaches: the    *)
(* cleanup posted by the end of the call, a job that waits for the lock to  *)
(* close it, or the one that holds the lock and closes it.                  *)
(*                                                                          *)
(* What is shown of the audio link and of the lease's client may lag behind *)
(* them, but never for nothing: somebody holds the lock and is about to show *)
(* it, or a callback is posted that will.  When all is quiet, it is so.      *)
(***************************************************************************)
EXTENDS MediaLease, Integers, FiniteSetTheorems, TLAPS

-----------------------------------------------------------------------------
\* Every nonempty set of naturals has a least element.
LEMMA LeastNatural ==
  ASSUME NEW S \in SUBSET Nat, S # {}
  PROVE  \E x \in S : \A y \in S : x <= y
<1> DEFINE T == {1..n : n \in S}
<1>1. T \subseteq FiniteSubsetsOf(Nat) /\ T # {}
  <2>1. \A n \in S : 1..n \in SUBSET Nat /\ IsFiniteSet(1..n)
    BY FS_Interval
  <2> QED
    BY <2>1 DEF FiniteSubsetsOf
<1>2. PICK t \in T : \A u \in T : <<u, t>> \notin StrictSubsetOrdering(Nat)
  <2> HIDE DEF T
  <2> QED
    BY <1>1, WFMin, FS_StrictSubsetOrderingWellFounded
<1>3. PICK x \in S : t = 1..x
  BY <1>2
<1>4. ASSUME NEW y \in S, ~(x <= y) PROVE FALSE
  <2>1. y \in Nat /\ x \in Nat /\ y < x
    BY <1>4
  <2>2. 1..y \subseteq 1..x /\ x \in 1..x /\ x \notin 1..y
    BY <2>1
  <2>3. 1..y \in SUBSET Nat /\ 1..x \in SUBSET Nat
    BY <2>1
  <2>4. <<1..y, 1..x>> \in StrictSubsetOrdering(Nat)
    BY <2>2, <2>3 DEF StrictSubsetOrdering
  <2> QED
    BY <1>2, <1>3, <2>4
<1> QED
  BY <1>3, <1>4

\* Induction on naturals, for a set of numbers.
LEMMA SetInduction ==
  ASSUME NEW S \in SUBSET Nat, 0 \in S, \A n \in S : n + 1 \in S
  PROVE  S = Nat
<1>1. SUFFICES ASSUME Nat \ S # {} PROVE FALSE
  OBVIOUS
<1>2. PICK x \in Nat \ S : \A y \in Nat \ S : x <= y
  <2>1. Nat \ S \in SUBSET Nat
    OBVIOUS
  <2> QED
    BY <1>1, <2>1, LeastNatural
<1>3. x # 0 /\ x - 1 \in Nat /\ x = (x - 1) + 1 /\ ~(x <= x - 1)
  BY <1>2
<1>4. x - 1 \in S
  BY <1>2, <1>3
<1> QED
  BY <1>2, <1>3, <1>4

-----------------------------------------------------------------------------
(* The recursion of Without *)

\* kept is the recursive function of Without, for q and S, up to n.
Prefixes(q, S, n, kept) ==
  kept = [i \in 0..n |-> IF i = 0 THEN <<>>
                         ELSE IF q[i] \in S THEN kept[i - 1] ELSE Append(kept[i - 1], q[i])]

\* The recursion has a solution.
LEMMA PrefixesExist ==
  ASSUME NEW q, NEW S, NEW n \in Nat
  PROVE  \E kept : Prefixes(q, S, n, kept)
<1> DEFINE N == {k \in Nat : \E f : Prefixes(q, S, k, f)}
<1>1. 0 \in N
  <2> DEFINE f == [i \in 0..0 |-> <<>>]
  <2>1. f = [i \in 0..0 |-> IF i = 0 THEN <<>>
                         ELSE IF q[i] \in S THEN f[i - 1] ELSE Append(f[i - 1], q[i])]
    OBVIOUS
  <2> HIDE DEF f
  <2>2. Prefixes(q, S, 0, f)
    BY <2>1 DEF Prefixes
  <2> QED
    BY <2>2
<1>2. ASSUME NEW k \in N PROVE k + 1 \in N
  <2>1. PICK f : Prefixes(q, S, k, f)
    BY <1>2
  <2> DEFINE last == IF q[k + 1] \in S THEN f[k] ELSE Append(f[k], q[k + 1])
             g == [i \in 0..(k + 1) |-> IF i = k + 1 THEN last ELSE f[i]]
  <2>2. k \in Nat /\ k + 1 \in Nat /\ k + 1 # 0 /\ (k + 1) - 1 = k
    BY <1>2
  <2>3. ASSUME NEW i \in 0..(k + 1)
        PROVE  g[i] = IF i = 0 THEN <<>>
                      ELSE IF q[i] \in S THEN g[i - 1] ELSE Append(g[i - 1], q[i])
    <3>1. CASE i = k + 1
      <4>1. k \in 0..(k + 1) /\ k # k + 1
        BY <2>2
      <4>2. g[k] = f[k] /\ g[k + 1] = last
        BY <4>1, <2>2
      <4> HIDE DEF g
      <4> QED
        BY <4>2, <3>1, <2>2
    <3>2. CASE i # k + 1
      <4>1. i \in 0..k
        BY <3>2, <2>2
      <4>2. f[i] = IF i = 0 THEN <<>>
                   ELSE IF q[i] \in S THEN f[i - 1] ELSE Append(f[i - 1], q[i])
        BY <2>1, <4>1 DEF Prefixes
      <4>3. i # 0 => i - 1 \in 0..(k + 1) /\ i - 1 # k + 1
        BY <4>1, <2>2
      <4>4. g[i] = f[i] /\ (i # 0 => g[i - 1] = f[i - 1])
        BY <4>3, <3>2
      <4> HIDE DEF g
      <4> QED
        BY <4>2, <4>4
    <3> QED
      BY <3>1, <3>2
  <2>4. g = [i \in 0..(k + 1) |-> g[i]]
    OBVIOUS
  <2>5. Prefixes(q, S, k + 1, g)
    <3> HIDE DEF g
    <3> QED
      BY <2>3, <2>4 DEF Prefixes
  <2> QED
    BY <2>5, <2>2
<1>3. N \in SUBSET Nat
  OBVIOUS
<1>4. N = Nat
  <2> HIDE DEF N
  <2> QED
    BY <1>1, <1>2, <1>3, SetInduction
<1> QED
  BY <1>4

\* h lists, in their order, the places below i whose elements stay.
Keeps(q, S, i, f, h) ==
  /\ h \in [1..Len(f) -> 1..i]
  /\ \A a, b \in 1..Len(f) : a < b => h[a] < h[b]
  /\ \A a \in 1..Len(f) : q[h[a]] \notin S /\ f[a] = q[h[a]]
  /\ \A j \in 1..i : q[j] \notin S => \E a \in 1..Len(f) : h[a] = j

\* Without keeps, in their order, the elements of q that are not in S.
LEMMA WithoutKeeps ==
  ASSUME NEW T, NEW q \in Seq(T), NEW S
  PROVE  /\ Without(q, S) \in Seq(T)
         /\ \E h : Keeps(q, S, Len(q), Without(q, S), h)
<1> DEFINE kept == CHOOSE k : Prefixes(q, S, Len(q), k)
           N == {n \in Nat : n <= Len(q) => /\ kept[n] \in Seq(T)
                                            /\ \E h : Keeps(q, S, n, kept[n], h)}
<1>1. Len(q) \in Nat /\ \A i \in 1..Len(q) : q[i] \in T
  OBVIOUS
<1>2. Without(q, S) = kept[Len(q)]
  BY DEF Without, Prefixes
<1>3. Prefixes(q, S, Len(q), kept)
  BY <1>1, PrefixesExist
<1> HIDE DEF kept
<1>4. kept[0] = <<>>
  BY <1>1, <1>3 DEF Prefixes
<1>5. \A i \in 1..Len(q) : kept[i] = IF q[i] \in S THEN kept[i - 1] ELSE Append(kept[i - 1], q[i])
  <2> TAKE i \in 1..Len(q)
  <2>1. i \in 0..Len(q) /\ i # 0
    BY <1>1
  <2> QED
    BY <1>3, <2>1 DEF Prefixes
<1>6. 0 \in N
  <2>1. kept[0] \in Seq(T) /\ Len(kept[0]) = 0
    BY <1>4
  <2> DEFINE h == [a \in 1..0 |-> 0]
  <2>2. Keeps(q, S, 0, kept[0], h)
    BY <2>1 DEF Keeps
  <2> QED
    BY <2>1, <2>2
<1>7. ASSUME NEW n \in N PROVE n + 1 \in N
  <2>1. SUFFICES ASSUME n + 1 <= Len(q)
                 PROVE  /\ kept[n + 1] \in Seq(T)
                        /\ \E h : Keeps(q, S, n + 1, kept[n + 1], h)
    OBVIOUS
  <2>2. n \in Nat /\ n + 1 \in 1..Len(q) /\ (n + 1) - 1 = n /\ n <= Len(q)
    BY <1>1, <1>7, <2>1
  <2>3. kept[n] \in Seq(T)
    BY <1>7, <2>2
  <2>4. PICK h : Keeps(q, S, n, kept[n], h)
    BY <1>7, <2>2
  <2>5. kept[n + 1] = IF q[n + 1] \in S THEN kept[n] ELSE Append(kept[n], q[n + 1])
    BY <1>5, <2>2
  <2>6. CASE q[n + 1] \in S
    <3>1. kept[n + 1] = kept[n]
      BY <2>5, <2>6
    <3>2. Keeps(q, S, n + 1, kept[n], h)
      <4>1. \A a \in 1..Len(kept[n]) : h[a] \in 1..(n + 1)
        <5>1. \A a \in 1..Len(kept[n]) : h[a] \in 1..n
          BY <2>4 DEF Keeps
        <5>2. 1..n \subseteq 1..(n + 1)
          BY <2>2
        <5> QED
          BY <5>1, <5>2
      <4>2. h \in [1..Len(kept[n]) -> 1..(n + 1)]
        BY <4>1, <2>4 DEF Keeps
      <4>3. \A j \in 1..(n + 1) : q[j] \notin S => j \in 1..n
        BY <2>2, <2>6
      <4> QED
        BY <2>4, <4>2, <4>3 DEF Keeps
    <3> QED
      BY <3>1, <3>2, <2>3
  <2>7. CASE q[n + 1] \notin S
    <3> DEFINE f == kept[n]
               e == Append(f, q[n + 1])
               g == [a \in 1..(Len(f) + 1) |-> IF a = Len(f) + 1 THEN n + 1 ELSE h[a]]
    <3>1. kept[n + 1] = e
      BY <2>5, <2>7
    <3>2. q[n + 1] \in T
      BY <1>1, <2>2
    <3>3. /\ f \in Seq(T) /\ Len(f) \in Nat /\ e \in Seq(T) /\ Len(e) = Len(f) + 1
          /\ e[Len(f) + 1] = q[n + 1]
          /\ \A a \in 1..Len(f) : e[a] = f[a]
      BY <2>3, <3>2
    <3>4. /\ h \in [1..Len(f) -> 1..n]
          /\ \A a, b \in 1..Len(f) : a < b => h[a] < h[b]
          /\ \A a \in 1..Len(f) : q[h[a]] \notin S /\ f[a] = q[h[a]]
          /\ \A j \in 1..n : q[j] \notin S => \E a \in 1..Len(f) : h[a] = j
      BY <2>4 DEF Keeps
    <3> HIDE DEF e, f
    <3>5. /\ \A a \in 1..Len(f) : g[a] = h[a] /\ h[a] \in 1..n
          /\ g[Len(f) + 1] = n + 1
      <4>1. Len(f) + 1 \in 1..(Len(f) + 1)
        BY <3>3
      <4>2. \A a \in 1..Len(f) : a \in 1..(Len(f) + 1) /\ a # Len(f) + 1
        BY <3>3
      <4> QED
        BY <3>4, <4>1, <4>2
    <3>6. \A a \in 1..(Len(f) + 1) : g[a] \in 1..(n + 1)
      <4> HIDE DEF g
      <4> QED
        BY <3>3, <3>5, <2>2
    <3>7. g \in [1..(Len(f) + 1) -> 1..(n + 1)]
      BY <3>6
    <3> HIDE DEF g
    <3>8. \A a, b \in 1..(Len(f) + 1) : a < b => g[a] < g[b]
      <4> TAKE a, b \in 1..(Len(f) + 1)
      <4> HAVE a < b
      <4>1. a \in 1..Len(f) /\ (b \in 1..Len(f) \/ b = Len(f) + 1)
        <5>1. Len(f) \in Nat /\ a \in Nat /\ b \in Nat
          BY <3>3
        <5> QED
          BY <5>1
      <4> QED
        BY <4>1, <3>4, <3>5, <2>2
    <3>9. \A a \in 1..(Len(f) + 1) : q[g[a]] \notin S /\ e[a] = q[g[a]]
      <4> TAKE a \in 1..(Len(f) + 1)
      <4>1. a \in 1..Len(f) \/ a = Len(f) + 1
        BY <3>3
      <4> QED
        BY <4>1, <3>3, <3>4, <3>5, <2>7
    <3>10. \A j \in 1..(n + 1) : q[j] \notin S => \E a \in 1..(Len(f) + 1) : g[a] = j
      <4> TAKE j \in 1..(n + 1)
      <4> HAVE q[j] \notin S
      <4>1. CASE j = n + 1
        BY <4>1, <3>3, <3>5
      <4>2. CASE j # n + 1
        <5>1. j \in 1..n
          BY <4>2, <2>2
        <5>2. PICK a \in 1..Len(f) : h[a] = j
          BY <5>1, <3>4
        <5>3. a \in 1..(Len(f) + 1) /\ g[a] = j
          BY <5>2, <3>3, <3>5
        <5> QED
          BY <5>3
      <4> QED
        BY <4>1, <4>2
    <3>11. Keeps(q, S, n + 1, e, g)
      BY <3>3, <3>7, <3>8, <3>9, <3>10 DEF Keeps
    <3> QED
      BY <3>1, <3>3, <3>11
  <2> QED
    BY <2>6, <2>7
<1>8. N \in SUBSET Nat
  OBVIOUS
<1>9. N = Nat
  <2> HIDE DEF N
  <2> QED
    BY <1>6, <1>7, <1>8, SetInduction
<1>10. kept[Len(q)] \in Seq(T) /\ \E h : Keeps(q, S, Len(q), kept[Len(q)], h)
  BY <1>1, <1>9
<1> QED
  BY <1>2, <1>10

-----------------------------------------------------------------------------
(* The types *)

Kinds == {"acquire", "ensure", "stop", "cleanup", "release", "reclaim", "exact"}
Phases == {"wait", "opening", "connecting", "opened", "removing", "removed"}
JobType == [k : Kinds, r : Requests \cup {"health", "timer", "call"}, gen : Nat, call : Nat,
            reused : BOOLEAN, s : Nat, drop : SUBSET Nat, pc : Phases]
LeaseType == [gen : Nat, call : 0 .. MaxCalls, owner : Owners \cup {"mcp_client", "none"}]
ScoType == [st : {"disconnected", "connecting", "ready", "failed"}, stream : Nat,
            attached : BOOLEAN, active : BOOLEAN]
MediaType == [lease : LeaseType, last : Nat, aliases : SUBSET (Nat \X Nat),
              tokens : SUBSET Nat, attached : SUBSET Nat, timers : SUBSET Nat,
              lock : Seq(JobType), sco : ScoType]
PostType == [k : HealthStates \cup {"resume", "attached", "detached", "cleanup"}, gen : Nat,
             ok : BOOLEAN]

-----------------------------------------------------------------------------
(* The invariant, of a media state x, sessions S and posted callbacks R.  The
   coroutines compute m' from m in several steps, and each keeps it. *)

\* How far a start has come, g being the lease in force: the session it opened is
\* the lease's, as long as the lease it was asked for is in force; when it has to
\* give up, that session is the one that it closes.
StartOK(job, g) ==
  /\ job.k = "acquire" => job.gen # 0
  /\ job.pc \in {"opening", "connecting", "opened"} =>
       (job.k = "acquire" /\ g = job.gen => job.s = job.gen)
  /\ job.pc \in {"removing", "removed"} =>
       /\ job.s \in {0} \cup job.drop
       /\ (job.k = "acquire" /\ g = job.gen) => job.gen \in job.drop

\* How far a removal has come: what it was to close is closed when it is done.
RemovalOK(job, S) ==
  /\ job.pc \in {"opening", "connecting", "opened"} =>
       job.k \in {"acquire", "ensure"} /\ job.drop = {}
  /\ job.pc \in {"removing", "removed"} =>
       /\ job.k = "exact" => job.gen \in job.drop
       /\ job.k = "cleanup" => S \subseteq job.drop
  /\ job.pc = "removed" => S \cap job.drop = {}

\* A job that waits for the lock has not begun.
Waits(job) == job.pc = "wait" /\ job.s = 0 /\ job.drop = {}

JobOK(job, g, n, S) ==
  /\ job.gen \in 0..n /\ job.s \in 0..n
  /\ job.k = "ensure" => job.gen = 0
  /\ job.pc = "wait" => Waits(job)
  /\ StartOK(job, g) /\ RemovalOK(job, S)

\* The job was made together with lease g, which it takes back when it fails; the job
\* may open a session for lease g.
Creates(job, g) == job.k = "acquire" /\ ~job.reused /\ job.gen = g
Names(job, g)   == (job.k = "acquire" /\ job.gen = g) \/ job.s = g

\* Only the holder of the lock is at work, and nobody who may open a session for the
\* lease goes before the job that was made with it.
LockOK(q, g, n, S) ==
  /\ \A i \in DOMAIN q : JobOK(q[i], g, n, S)
  /\ \A i \in DOMAIN q : i # 1 => Waits(q[i])
  /\ \A i, j \in DOMAIN q : j < i /\ Creates(q[i], g) => ~Names(q[j], g)

\* Nothing names a generation that was not given, and tokens and clients are those
\* of the lease in force, which is the one given last.
GensOK(x, S, R) ==
  /\ x.lease.gen \in {0, x.last}
  /\ x.aliases \subseteq (0 .. x.last) \X (0 .. x.last)
  /\ x.timers \subseteq 0 .. x.last
  /\ x.tokens \cup x.attached \subseteq {x.lease.gen} \ {0}
  /\ x.sco.stream \in 0 .. x.last
  /\ S \subseteq 1 .. x.last
  /\ \A i \in DOMAIN R : R[i].gen \in 0 .. x.last

\* A lease that its job may still take back has granted nothing.
NewOK(x) ==
  \A i \in DOMAIN x.lock : Creates(x.lock[i], x.lease.gen) =>
     x.tokens \cup x.attached = {} /\ \A a \in x.aliases : a[2] # x.lease.gen

\* The job closes session s and is not cancelled before it has.
Closes(job, s) ==
  \/ s \in job.drop
  \/ job.k = "exact" /\ job.gen = s
  \/ job.k = "cleanup"
  \/ job.s = s /\ job.pc # "removed"

\* A session without its lease is named by such a job, or by a posted cleanup.
Scheduled(q, R, s) ==
  \/ \E i \in DOMAIN q : Closes(q[i], s)
  \/ \E i \in DOMAIN R : R[i].k = "cleanup" /\ R[i].gen = s

OrphansOK(x, S, R) == \A s \in S : s = x.lease.gen \/ Scheduled(x.lock, R, s)

MediaOK(x, S, R) ==
  /\ x \in MediaType /\ S \in SUBSET Nat /\ R \in Seq(PostType)
  /\ GensOK(x, S, R)
  /\ LockOK(x.lock, x.lease.gen, x.last, S)
  /\ NewOK(x)
  /\ OrphansOK(x, S, R)

LeaseInv ==
  /\ call \in [st : {"idle", "active", "ending"}, id : 0 .. MaxCalls]
  /\ link \in [st : {"stopped", "connecting", "up", "failed"}, users : SUBSET (0 .. m.last)]
  /\ MediaOK(m, sessions, ready)
  /\ LeaseOfCall

-----------------------------------------------------------------------------
(* Queues of jobs *)

\* What one queue closes, the other does too.
Covers(q, p) ==
  \A s \in Nat : (s # 0 /\ \E i \in DOMAIN q : Closes(q[i], s))
                    => \E i \in DOMAIN p : Closes(p[i], s)

\* The jobs of p are in q, those behind the first one behind the first one.
From(p, q) == \A i \in DOMAIN p : \E j \in DOMAIN q : q[j] = p[i] /\ (i # 1 => j # 1)

\* A job that joins the queue.
LEMMA AppendedJob ==
  ASSUME NEW q \in Seq(JobType), NEW job \in JobType, NEW g, NEW n, NEW S,
         LockOK(q, g, n, S), JobOK(job, g, n, S), Waits(job),
         Creates(job, g) => \A j \in DOMAIN q : ~Names(q[j], g)
  PROVE  /\ Append(q, job) \in Seq(JobType)
         /\ LockOK(Append(q, job), g, n, S)
         /\ Covers(q, Append(q, job))
         /\ \E i \in DOMAIN Append(q, job) : Append(q, job)[i] = job
         /\ \A i \in DOMAIN Append(q, job) :
               Append(q, job)[i] = job \/ \E j \in DOMAIN q : q[j] = Append(q, job)[i]
<1> DEFINE p == Append(q, job)
<1>1. /\ p \in Seq(JobType) /\ Len(q) \in Nat
      /\ DOMAIN q = 1..Len(q) /\ DOMAIN p = 1..(Len(q) + 1)
      /\ \A i \in 1..Len(q) : p[i] = q[i]
      /\ p[Len(q) + 1] = job
  OBVIOUS
<1> HIDE DEF p
<1>2. \A i \in DOMAIN p : i \in DOMAIN q \/ i = Len(q) + 1
  BY <1>1
<1>3. LockOK(p, g, n, S)
  <2>1. ASSUME NEW i \in DOMAIN p, NEW j \in DOMAIN p, j < i, Creates(p[i], g)
        PROVE  ~Names(p[j], g)
    <3>1. j \in DOMAIN q /\ p[j] = q[j]
      <4>1. j \in 1..Len(q)
        BY <1>1, <2>1
      <4> QED
        BY <1>1, <4>1
    <3> QED
      BY <1>1, <1>2, <2>1, <3>1 DEF LockOK
  <2> QED
    BY <1>1, <1>2, <2>1 DEF LockOK
<1>4. \A i \in DOMAIN q : i \in DOMAIN p /\ p[i] = q[i]
  BY <1>1
<1>5. Covers(q, p)
  BY <1>4 DEF Covers
<1>6. Len(q) + 1 \in DOMAIN p
  BY <1>1
<1> QED
  BY <1>1, <1>3, <1>5, <1>6 DEF p

\* The holder gives the lock to the next job.
LEMMA NextJob ==
  ASSUME NEW q \in Seq(JobType), q # <<>>, NEW g, NEW n, NEW S, LockOK(q, g, n, S)
  PROVE  /\ Tail(q) \in Seq(JobType)
         /\ LockOK(Tail(q), g, n, S)
         /\ \A i \in DOMAIN q : q[i] = Head(q) \/ \E j \in DOMAIN Tail(q) : Tail(q)[j] = q[i]
         /\ \A j \in DOMAIN Tail(q) : \E i \in DOMAIN q : i # 1 /\ Tail(q)[j] = q[i]
         /\ Head(q) \in JobType /\ JobOK(Head(q), g, n, S)
<1> DEFINE p == Tail(q)
<1>1. /\ p \in Seq(JobType) /\ Len(q) \in Nat /\ Len(q) # 0
      /\ DOMAIN q = 1..Len(q) /\ DOMAIN p = 1..(Len(q) - 1)
      /\ \A i \in DOMAIN p : p[i] = q[i + 1]
      /\ Head(q) = q[1] /\ q[1] \in JobType
  OBVIOUS
<1> HIDE DEF p
<1>2. \A i \in DOMAIN p : i + 1 \in DOMAIN q /\ i + 1 # 1
  BY <1>1
<1>3. LockOK(p, g, n, S)
  <2>1. \A i, j \in DOMAIN p : j < i => j + 1 < i + 1
    BY <1>1
  <2> QED
    BY <1>1, <1>2, <2>1 DEF LockOK
<1>4. \A i \in DOMAIN q : i = 1 \/ (i - 1 \in DOMAIN p /\ p[i - 1] = q[i])
  <2> TAKE i \in DOMAIN q
  <2>1. i = 1 \/ (i - 1 \in DOMAIN p /\ (i - 1) + 1 = i)
    BY <1>1
  <2> QED
    BY <1>1, <2>1
<1>5. 1 \in DOMAIN q
  BY <1>1
<1>6. \A j \in DOMAIN p : \E i \in DOMAIN q : i # 1 /\ p[j] = q[i]
  BY <1>1, <1>2
<1> QED
  BY <1>1, <1>3, <1>4, <1>5, <1>6 DEF p, LockOK

\* The holder goes on with its work.
LEMMA HolderChanged ==
  ASSUME NEW q \in Seq(JobType), q # <<>>, NEW job \in JobType, NEW g, NEW n, NEW S,
         LockOK(q, g, n, S), JobOK(job, g, n, S),
         Names(job, g) => Names(Head(q), g) \/ \A i \in DOMAIN q : i # 1 => ~Creates(q[i], g)
  PROVE  /\ <<job>> \o Tail(q) \in Seq(JobType)
         /\ LockOK(<<job>> \o Tail(q), g, n, S)
         /\ <<job>> \o Tail(q) # <<>> /\ Head(<<job>> \o Tail(q)) = job
         /\ Tail(<<job>> \o Tail(q)) = Tail(q)
         /\ \E i \in DOMAIN (<<job>> \o Tail(q)) : (<<job>> \o Tail(q))[i] = job
         /\ (\A s \in Nat : s # 0 /\ Closes(Head(q), s) => Closes(job, s))
               => Covers(q, <<job>> \o Tail(q))
<1> DEFINE p == <<job>> \o Tail(q)
<1>1. /\ p \in Seq(JobType) /\ Len(q) \in Nat /\ Len(q) # 0
      /\ DOMAIN q = 1..Len(q) /\ DOMAIN p = 1..Len(q)
      /\ p[1] = job /\ Head(q) = q[1]
      /\ \A i \in 2..Len(q) : p[i] = q[i]
  <2>1. /\ Tail(q) \in Seq(JobType) /\ Len(Tail(q)) = Len(q) - 1 /\ Len(q) \in Nat /\ Len(q) # 0
        /\ \A i \in 1..(Len(q) - 1) : Tail(q)[i] = q[i + 1]
    OBVIOUS
  <2>2. /\ <<job>> \in Seq(JobType) /\ Len(<<job>>) = 1 /\ <<job>>[1] = job
    OBVIOUS
  <2> DEFINE t == Tail(q)
             u == <<job>>
  <2>3. u \o t \in Seq(JobType) /\ Len(u \o t) = Len(u) + Len(t)
        /\ \A i \in 1..(Len(u) + Len(t)) : (u \o t)[i] = IF i <= Len(u) THEN u[i] ELSE t[i - Len(u)]
    <3> HIDE DEF t, u
    <3> QED
      BY <2>1, <2>2 DEF t, u
  <2>4. \A i \in 2..Len(q) : i - 1 \in 1..(Len(q) - 1) /\ (i - 1) + 1 = i /\ ~(i <= 1)
    BY <2>1
  <2>5. \A i \in 2..Len(q) : p[i] = q[i]
    BY <2>1, <2>2, <2>3, <2>4
  <2>6. p[1] = job
    BY <2>1, <2>2, <2>3
  <2> QED
    BY <2>1, <2>2, <2>3, <2>5, <2>6
<1>2. Tail(p) = Tail(q) /\ p # <<>> /\ Head(p) = job
  OBVIOUS
<1> HIDE DEF p
<1>3. \A i \in DOMAIN p : (i = 1 /\ p[i] = job) \/ (i # 1 /\ i \in DOMAIN q /\ p[i] = q[i])
  BY <1>1
<1>4. LockOK(p, g, n, S)
  <2>1. ASSUME NEW i \in DOMAIN p, NEW j \in DOMAIN p, j < i, Creates(p[i], g)
        PROVE  ~Names(p[j], g)
    <3>1. i # 1 /\ i \in DOMAIN q /\ p[i] = q[i] /\ 1 \in DOMAIN q /\ (j = 1 => 1 < i)
      BY <1>1, <1>3, <2>1
    <3>2. CASE j = 1
      BY <1>1, <1>3, <2>1, <3>1, <3>2 DEF LockOK
    <3>3. CASE j # 1
      BY <1>3, <2>1, <3>1, <3>3 DEF LockOK
    <3> QED
      BY <3>2, <3>3
  <2> QED
    BY <1>3, <2>1 DEF LockOK
<1>5. ASSUME \A s \in Nat : s # 0 /\ Closes(Head(q), s) => Closes(job, s)
      PROVE  Covers(q, p)
  <2>1. 1 \in DOMAIN p
    BY <1>1
  <2>2. \A i \in DOMAIN q : q[i] = Head(q) \/ (i \in DOMAIN p /\ p[i] = q[i])
    BY <1>1
  <2> QED
    BY <1>1, <1>5, <2>1, <2>2 DEF Covers
<1>6. 1 \in DOMAIN p
  BY <1>1
<1> QED
  BY <1>1, <1>2, <1>4, <1>5, <1>6 DEF p

\* Reclaims that wait for the lock are cancelled: they close nothing yet.
LEMMA ReclaimsCancelled ==
  ASSUME NEW q \in Seq(JobType), NEW C,
         \A job \in C : Waits(job) /\ job.k = "reclaim"
  PROVE  /\ Without(q, C) \in Seq(JobType)
         /\ \A g, n, S : LockOK(q, g, n, S) => LockOK(Without(q, C), g, n, S)
         /\ Covers(q, Without(q, C))
         /\ From(Without(q, C), q)
         /\ q # <<>> /\ Head(q) \notin C => /\ Without(q, C) # <<>>
                                            /\ Head(Without(q, C)) = Head(q)
<1> DEFINE p == Without(q, C)
<1>1. p \in Seq(JobType)
  BY WithoutKeeps
<1>2. PICK h : Keeps(q, C, Len(q), p, h)
  BY WithoutKeeps
<1> HIDE DEF p
<1>3. /\ Len(p) \in Nat /\ Len(q) \in Nat /\ DOMAIN p = 1..Len(p) /\ DOMAIN q = 1..Len(q)
  BY <1>1
<1>4. /\ h \in [1..Len(p) -> 1..Len(q)]
      /\ \A a, b \in 1..Len(p) : a < b => h[a] < h[b]
      /\ \A a \in 1..Len(p) : q[h[a]] \notin C /\ p[a] = q[h[a]]
      /\ \A j \in 1..Len(q) : q[j] \notin C => \E a \in 1..Len(p) : h[a] = j
  BY <1>2 DEF Keeps
<1>5. \A a \in DOMAIN p : a # 1 => h[a] # 1
  <2> TAKE a \in DOMAIN p
  <2> HAVE a # 1
  <2>1. 1 \in 1..Len(p) /\ a \in 1..Len(p) /\ 1 < a
    BY <1>3
  <2>2. h[1] \in 1..Len(q) /\ h[1] < h[a]
    BY <1>4, <2>1
  <2> QED
    BY <2>2
<1>6. \A g, n, S : LockOK(q, g, n, S) => LockOK(p, g, n, S)
  <2>1. \A i \in DOMAIN p : h[i] \in DOMAIN q /\ p[i] = q[h[i]]
    BY <1>3, <1>4
  <2>2. \A i, j \in DOMAIN p : j < i => h[j] < h[i]
    BY <1>3, <1>4
  <2> QED
    BY <1>5, <2>1, <2>2 DEF LockOK
<1>7. \A s \in Nat : \A job \in C : s # 0 => ~Closes(job, s)
  BY DEF Closes, Waits
<1>8. Covers(q, p)
  BY <1>3, <1>4, <1>7 DEF Covers
<1>9. ASSUME q # <<>>, Head(q) \notin C
      PROVE  p # <<>> /\ Head(p) = Head(q)
  <2>1. 1 \in 1..Len(q) /\ Head(q) = q[1]
    BY <1>9, <1>3
  <2>2. PICK a \in 1..Len(p) : h[a] = 1
    BY <1>4, <1>9, <2>1
  <2>3. a = 1
    BY <1>3, <1>5, <2>2
  <2>4. p # <<>> /\ Head(p) = p[1]
    BY <1>1, <1>3, <2>2
  <2> QED
    BY <1>4, <2>1, <2>2, <2>3, <2>4
<1>10. From(p, q)
  BY <1>3, <1>4, <1>5 DEF From
<1> QED
  BY <1>1, <1>6, <1>8, <1>9, <1>10 DEF p

-----------------------------------------------------------------------------
(* The media state *)

\* A step that leaves the lease alone.
LEMMA Moves ==
  ASSUME NEW x, NEW S, NEW R, MediaOK(x, S, R),
         NEW y \in MediaType, y.lease = x.lease, y.last = x.last,
         y.aliases \subseteq x.aliases, y.timers \subseteq 0 .. x.last,
         y.tokens \cup y.attached \subseteq {x.lease.gen} \ {0},
         y.sco.stream \in 0 .. x.last,
         LockOK(y.lock, x.lease.gen, x.last, S),
         \A i \in DOMAIN y.lock : Creates(y.lock[i], x.lease.gen) =>
            \/ /\ \E j \in DOMAIN x.lock : Creates(x.lock[j], x.lease.gen)
               /\ y.tokens \cup y.attached \subseteq x.tokens \cup x.attached
            \/ y.tokens \cup y.attached = {} /\ \A a \in y.aliases : a[2] # x.lease.gen,
         \A s \in S : s # x.lease.gen => \/ \E i \in DOMAIN y.lock : Closes(y.lock[i], s)
                                         \/ ~\E i \in DOMAIN x.lock : Closes(x.lock[i], s)
  PROVE  MediaOK(y, S, R)
<1>1. GensOK(y, S, R)
  BY DEF MediaOK, GensOK
<1>2. OrphansOK(y, S, R)
  BY DEF MediaOK, OrphansOK, Scheduled
<1>3. NewOK(y)
  BY DEF MediaOK, NewOK
<1> QED
  BY <1>1, <1>2, <1>3 DEF MediaOK

\* A step that leaves lease and lock alone.
LEMMA Aside ==
  ASSUME NEW x, NEW S, NEW R, MediaOK(x, S, R),
         NEW y \in MediaType, y.lease = x.lease, y.last = x.last, y.lock = x.lock,
         y.aliases \subseteq x.aliases, y.timers \subseteq 0 .. x.last,
         y.tokens \cup y.attached \subseteq {x.lease.gen} \ {0},
         y.sco.stream \in 0 .. x.last,
         \/ y.tokens \cup y.attached \subseteq x.tokens \cup x.attached
         \/ \A i \in DOMAIN x.lock : ~Creates(x.lock[i], x.lease.gen)
  PROVE  MediaOK(y, S, R)
<1>1. LockOK(y.lock, x.lease.gen, x.last, S)
  BY DEF MediaOK
<1> QED
  BY <1>1, Moves

\* A step of the lock.
LEMMA LockMoves ==
  ASSUME NEW x, NEW S, NEW R, MediaOK(x, S, R),
         NEW q \in Seq(JobType), LockOK(q, x.lease.gen, x.last, S),
         \A i \in DOMAIN q : Creates(q[i], x.lease.gen) =>
            \/ \E j \in DOMAIN x.lock : Creates(x.lock[j], x.lease.gen)
            \/ x.tokens \cup x.attached = {} /\ \A a \in x.aliases : a[2] # x.lease.gen,
         \A s \in S : s # x.lease.gen => \/ \E i \in DOMAIN q : Closes(q[i], s)
                                         \/ ~\E i \in DOMAIN x.lock : Closes(x.lock[i], s)
  PROVE  MediaOK([x EXCEPT !.lock = q], S, R)
<1> DEFINE y == [x EXCEPT !.lock = q]
<1>1. y \in MediaType
  BY DEF MediaOK, MediaType
<1>2. /\ y.lease = x.lease /\ y.last = x.last /\ y.aliases = x.aliases /\ y.timers = x.timers
      /\ y.tokens = x.tokens /\ y.attached = x.attached /\ y.sco = x.sco /\ y.lock = q
  BY DEF MediaOK, MediaType
<1> HIDE DEF y
<1>3. /\ y.timers \subseteq 0 .. x.last /\ y.sco.stream \in 0 .. x.last
      /\ y.tokens \cup y.attached \subseteq {x.lease.gen} \ {0}
  BY <1>2 DEF MediaOK, GensOK
<1>4. MediaOK(y, S, R)
  BY <1>1, <1>2, <1>3, Moves
<1> QED
  BY <1>4 DEF y

\* HFPState.set_sco_state touches nothing else, and names g or no new stream.
LEMMA SetScoFields ==
  ASSUME NEW x \in MediaType, NEW st \in {"disconnected", "connecting", "ready", "failed"},
         NEW g \in Nat
  PROVE  /\ SetSco(x, st, g) \in MediaType
         /\ SetSco(x, st, g).lease = x.lease /\ SetSco(x, st, g).last = x.last
         /\ SetSco(x, st, g).aliases = x.aliases /\ SetSco(x, st, g).timers = x.timers
         /\ SetSco(x, st, g).tokens = x.tokens /\ SetSco(x, st, g).attached = x.attached
         /\ SetSco(x, st, g).lock = x.lock
         /\ SetSco(x, st, g).sco.stream \in {0, g, x.sco.stream}
<1> DEFINE y == SetSco(x, st, g)
           c == IF st = "ready"
                THEN [x.sco EXCEPT !.st = st, !.stream = IF g = 0 THEN x.sco.stream ELSE g,
                                   !.attached = x.sco.attached /\ g \in {0, x.sco.stream}]
                ELSE [x.sco EXCEPT !.st = st, !.stream = 0, !.attached = FALSE]
<1>1. x \in MediaType /\ x.sco \in ScoType /\ x.last \in Nat
  BY DEF MediaType
<1>2. c \in ScoType /\ c.stream \in {0, g, x.sco.stream}
  <2>1. CASE st = "ready"
    <3> DEFINE b == x.sco.attached /\ g \in {0, x.sco.stream}
    <3>1. b \in BOOLEAN
      OBVIOUS
    <3> HIDE DEF b
    <3>2. [x.sco EXCEPT !.st = st, !.stream = IF g = 0 THEN x.sco.stream ELSE g,
                        !.attached = b] \in ScoType
      BY <1>1, <3>1, <2>1 DEF ScoType
    <3>3. [x.sco EXCEPT !.st = st, !.stream = IF g = 0 THEN x.sco.stream ELSE g,
                        !.attached = b].stream \in {0, g, x.sco.stream}
      BY <1>1 DEF ScoType
    <3> QED
      BY <2>1, <3>2, <3>3 DEF b
  <2>2. CASE st # "ready"
    BY <1>1, <2>2 DEF ScoType
  <2> QED
    BY <2>1, <2>2
<1>3. y = [x EXCEPT !.sco = c]
  <2>1. CASE st = "ready"
    <3>1. y = [x EXCEPT !.sco = [x.sco EXCEPT !.st = st,
                                   !.stream = IF g = 0 THEN x.sco.stream ELSE g,
                                   !.attached = x.sco.attached /\ g \in {0, x.sco.stream}]]
      BY <1>1, <2>1 DEF SetSco, ScoType, MediaType
    <3> QED
      BY <3>1, <2>1
  <2>2. CASE st # "ready"
    <3>1. y = [x EXCEPT !.sco = [x.sco EXCEPT !.st = st, !.stream = 0, !.attached = FALSE]]
      BY <1>1, <2>2 DEF SetSco, ScoType, MediaType
    <3> QED
      BY <3>1, <2>2
  <2> QED
    BY <2>1, <2>2
<1> HIDE DEF c
<1>4. y \in MediaType
  BY <1>1, <1>2, <1>3 DEF MediaType
<1>5. /\ y.lease = x.lease /\ y.last = x.last /\ y.aliases = x.aliases /\ y.timers = x.timers
      /\ y.tokens = x.tokens /\ y.attached = x.attached /\ y.lock = x.lock /\ y.sco = c
  BY <1>1, <1>3 DEF MediaType
<1> HIDE DEF y
<1> QED
  BY <1>2, <1>4, <1>5 DEF y

LEMMA SetScoOK ==
  ASSUME NEW x, NEW S, NEW R, MediaOK(x, S, R),
         NEW st \in {"disconnected", "connecting", "ready", "failed"},
         NEW g \in {0, x.lease.gen}
  PROVE  /\ MediaOK(SetSco(x, st, g), S, R)
         /\ SetSco(x, st, g).lease = x.lease /\ SetSco(x, st, g).last = x.last
         /\ SetSco(x, st, g).lock = x.lock
         /\ SetSco(x, st, g).tokens = x.tokens /\ SetSco(x, st, g).attached = x.attached
         /\ SetSco(x, st, g).aliases = x.aliases
<1> DEFINE y == SetSco(x, st, g)
<1>1. x \in MediaType /\ x.lease.gen \in Nat /\ g \in Nat
  BY DEF MediaOK, MediaType, LeaseType
<1>2. /\ y \in MediaType /\ y.lease = x.lease /\ y.last = x.last /\ y.lock = x.lock
      /\ y.aliases = x.aliases /\ y.timers = x.timers
      /\ y.tokens = x.tokens /\ y.attached = x.attached
      /\ y.sco.stream \in {0, g, x.sco.stream}
  BY <1>1, SetScoFields
<1> HIDE DEF y
<1>3. /\ x.sco.stream \in 0 .. x.last /\ x.lease.gen \in 0 .. x.last /\ 0 \in 0 .. x.last
      /\ x.timers \subseteq 0 .. x.last
      /\ x.tokens \cup x.attached \subseteq {x.lease.gen} \ {0}
  BY <1>1 DEF MediaOK, MediaType, GensOK
<1>4. y.sco.stream \in 0 .. x.last
  BY <1>2, <1>3
<1>5. MediaOK(y, S, R)
  BY <1>2, <1>3, <1>4, Aside
<1> QED
  BY <1>2, <1>5 DEF y

LEMMA SetActiveOK ==
  ASSUME NEW x, NEW S, NEW R, MediaOK(x, S, R), NEW b \in BOOLEAN
  PROVE  /\ MediaOK(SetActive(x, b), S, R)
         /\ SetActive(x, b).lease = x.lease /\ SetActive(x, b).last = x.last
         /\ SetActive(x, b).lock = x.lock
         /\ SetActive(x, b).tokens = x.tokens /\ SetActive(x, b).attached = x.attached
         /\ SetActive(x, b).aliases = x.aliases
<1> DEFINE y == SetActive(x, b)
           c == [st |-> x.sco.st, stream |-> x.sco.stream, attached |-> x.sco.attached,
                 active |-> b]
<1>1. x \in MediaType /\ x.sco \in ScoType
  BY DEF MediaOK, MediaType
<1>2. c \in ScoType /\ c.stream = x.sco.stream
  BY <1>1 DEF ScoType
<1>3. y = [x EXCEPT !.sco = c]
  BY <1>1 DEF SetActive, ScoType, MediaType
<1> HIDE DEF c
<1>4. y \in MediaType
  BY <1>1, <1>2, <1>3 DEF MediaType
<1>5. /\ y.lease = x.lease /\ y.last = x.last /\ y.aliases = x.aliases /\ y.timers = x.timers
      /\ y.tokens = x.tokens /\ y.attached = x.attached /\ y.lock = x.lock /\ y.sco = c
  BY <1>1, <1>3 DEF MediaType
<1>6. /\ x.sco.stream \in 0 .. x.last /\ x.timers \subseteq 0 .. x.last
      /\ x.tokens \cup x.attached \subseteq {x.lease.gen} \ {0}
  BY DEF MediaOK, GensOK
<1> HIDE DEF y
<1>7. MediaOK(y, S, R)
  BY <1>2, <1>4, <1>5, <1>6, Aside
<1> QED
  BY <1>5, <1>7 DEF y

LEMMA EnqueueOK ==
  ASSUME NEW x, NEW S, NEW R, MediaOK(x, S, R), NEW job \in JobType,
         JobOK(job, x.lease.gen, x.last, S), Waits(job),
         Creates(job, x.lease.gen) =>
            /\ x.tokens \cup x.attached = {} /\ \A a \in x.aliases : a[2] # x.lease.gen
            /\ \A j \in DOMAIN x.lock : ~Names(x.lock[j], x.lease.gen)
  PROVE  /\ MediaOK(Enqueue(x, job), S, R)
         /\ Enqueue(x, job).lease = x.lease /\ Enqueue(x, job).last = x.last
         /\ Covers(x.lock, Enqueue(x, job).lock)
         /\ \E i \in DOMAIN Enqueue(x, job).lock : Enqueue(x, job).lock[i] = job
<1> DEFINE q == Append(x.lock, job)
<1>1. x \in MediaType /\ x.lock \in Seq(JobType) /\ LockOK(x.lock, x.lease.gen, x.last, S)
  BY DEF MediaOK, MediaType
<1>2. /\ q \in Seq(JobType) /\ LockOK(q, x.lease.gen, x.last, S) /\ Covers(x.lock, q)
      /\ \E i \in DOMAIN q : q[i] = job
      /\ \A i \in DOMAIN q : q[i] = job \/ \E j \in DOMAIN x.lock : x.lock[j] = q[i]
  BY <1>1, AppendedJob
<1>3. Enqueue(x, job) = [x EXCEPT !.lock = q]
  BY DEF Enqueue
<1>4. \A s \in S : s \in Nat /\ s # 0
  BY DEF MediaOK, GensOK
<1> HIDE DEF q
<1>5. MediaOK([x EXCEPT !.lock = q], S, R)
  BY <1>2, <1>4, LockMoves DEF Covers
<1>6. [x EXCEPT !.lock = q].lease = x.lease /\ [x EXCEPT !.lock = q].last = x.last
      /\ [x EXCEPT !.lock = q].lock = q
  BY <1>1 DEF MediaType
<1> QED
  BY <1>2, <1>3, <1>5, <1>6

\* The holder releases the lock when it has closed what it was to close.
LEMMA UnlockOK ==
  ASSUME NEW x, NEW S, NEW R, MediaOK(x, S, R), x.lock # <<>>,
         \A s \in S : s # x.lease.gen => ~Closes(Head(x.lock), s)
  PROVE  /\ MediaOK(Unlock(x), S, R)
         /\ Unlock(x).lease = x.lease /\ Unlock(x).last = x.last
<1> DEFINE q == Tail(x.lock)
<1>1. x \in MediaType /\ x.lock \in Seq(JobType) /\ LockOK(x.lock, x.lease.gen, x.last, S)
  BY DEF MediaOK, MediaType
<1>2. /\ q \in Seq(JobType) /\ LockOK(q, x.lease.gen, x.last, S)
      /\ \A i \in DOMAIN x.lock : x.lock[i] = Head(x.lock) \/ \E j \in DOMAIN q : q[j] = x.lock[i]
      /\ \A j \in DOMAIN q : \E i \in DOMAIN x.lock : i # 1 /\ q[j] = x.lock[i]
  BY <1>1, NextJob
<1>3. Unlock(x) = [x EXCEPT !.lock = q]
  BY DEF Unlock
<1> HIDE DEF q
<1>4. MediaOK([x EXCEPT !.lock = q], S, R)
  BY <1>2, LockMoves
<1>5. [x EXCEPT !.lock = q].lease = x.lease /\ [x EXCEPT !.lock = q].last = x.last
  BY <1>1 DEF MediaType
<1> QED
  BY <1>3, <1>4, <1>5

LEMMA SetHeadOK ==
  ASSUME NEW x, NEW S, NEW R, MediaOK(x, S, R), x.lock # <<>>, NEW job \in JobType,
         JobOK(job, x.lease.gen, x.last, S),
         Creates(job, x.lease.gen) => Creates(Head(x.lock), x.lease.gen),
         Names(job, x.lease.gen) => \/ Names(Head(x.lock), x.lease.gen)
                                    \/ \A i \in DOMAIN x.lock : i # 1 => ~Creates(x.lock[i], x.lease.gen),
         \A s \in S : s # x.lease.gen /\ Closes(Head(x.lock), s) => Closes(job, s)
  PROVE  /\ MediaOK(SetHead(x, job), S, R)
         /\ SetHead(x, job).lease = x.lease /\ SetHead(x, job).last = x.last
         /\ SetHead(x, job).lock # <<>> /\ Head(SetHead(x, job).lock) = job
         /\ \E i \in DOMAIN SetHead(x, job).lock : SetHead(x, job).lock[i] = job
<1> DEFINE q == <<job>> \o Tail(x.lock)
<1>1. x \in MediaType /\ x.lock \in Seq(JobType) /\ LockOK(x.lock, x.lease.gen, x.last, S)
  BY DEF MediaOK, MediaType
<1>2. /\ q \in Seq(JobType) /\ LockOK(q, x.lease.gen, x.last, S)
      /\ q # <<>> /\ Head(q) = job /\ Tail(q) = Tail(x.lock)
      /\ \E i \in DOMAIN q : q[i] = job
  BY <1>1, HolderChanged
<1>3. /\ \A i \in DOMAIN x.lock :
            x.lock[i] = Head(x.lock) \/ \E j \in DOMAIN Tail(x.lock) : Tail(x.lock)[j] = x.lock[i]
  BY <1>1, NextJob
<1>4. \A j \in DOMAIN Tail(x.lock) : \E i \in DOMAIN q : q[i] = Tail(x.lock)[j]
  <2>1. \A j \in DOMAIN Tail(q) : j + 1 \in DOMAIN q /\ q[j + 1] = Tail(q)[j]
    <3> HIDE DEF q
    <3> QED
      BY <1>2
  <2> QED
    BY <1>2, <2>1
<1>8. \A i \in DOMAIN q : q[i] = job \/ \E j \in DOMAIN x.lock : x.lock[j] = q[i]
  <2>1. \A i \in DOMAIN q : i = 1 \/ (i - 1 \in DOMAIN Tail(q) /\ Tail(q)[i - 1] = q[i])
    <3> HIDE DEF q
    <3> TAKE i \in DOMAIN q
    <3>1. i = 1 \/ (i - 1 \in 1..(Len(q) - 1) /\ (i - 1) + 1 = i)
      BY <1>2
    <3>2. \A j \in 1..(Len(q) - 1) : j \in DOMAIN Tail(q) /\ Tail(q)[j] = q[j + 1]
      BY <1>2
    <3> QED
      BY <3>1, <3>2
  <2>2. \A j \in DOMAIN Tail(x.lock) : \E i \in DOMAIN x.lock : Tail(x.lock)[j] = x.lock[i]
    BY <1>1, NextJob
  <2>3. q[1] = job
    BY <1>1
  <2> QED
    BY <1>2, <2>1, <2>2, <2>3
<1>5. SetHead(x, job) = [x EXCEPT !.lock = q]
  BY <1>1 DEF SetHead, MediaType
<1> HIDE DEF q
<1>6. MediaOK([x EXCEPT !.lock = q], S, R)
  <2>1. ASSUME NEW s \in S, s # x.lease.gen, NEW i \in DOMAIN x.lock, Closes(x.lock[i], s)
        PROVE  \E j \in DOMAIN q : Closes(q[j], s)
    <3>1. CASE x.lock[i] = Head(x.lock)
      BY <2>1, <3>1, <1>2
    <3>2. CASE x.lock[i] # Head(x.lock)
      BY <2>1, <3>2, <1>3, <1>4
    <3> QED
      BY <3>1, <3>2
  <2>2. \A i \in DOMAIN q : q[i] = job \/ \E j \in DOMAIN x.lock : x.lock[j] = q[i]
    BY <1>1, <1>2, <1>3, <1>8
  <2>3. 1 \in DOMAIN x.lock /\ x.lock[1] = Head(x.lock)
    BY <1>1
  <2> QED
    BY <1>2, <2>1, <2>2, <2>3, LockMoves
<1>7. [x EXCEPT !.lock = q].lease = x.lease /\ [x EXCEPT !.lock = q].last = x.last
      /\ [x EXCEPT !.lock = q].lock = q
  BY <1>1 DEF MediaType
<1> QED
  BY <1>2, <1>5, <1>6, <1>7

\* Timers and waiting reclaims of g are cancelled.
LEMMA CancelReclaimFields ==
  ASSUME NEW x \in MediaType, NEW g
  PROVE  /\ CancelReclaim(x, g) \in MediaType
         /\ CancelReclaim(x, g).lease = x.lease /\ CancelReclaim(x, g).last = x.last
         /\ CancelReclaim(x, g).tokens = x.tokens /\ CancelReclaim(x, g).attached = x.attached
         /\ CancelReclaim(x, g).aliases = x.aliases
         /\ CancelReclaim(x, g).sco = x.sco
         /\ CancelReclaim(x, g).timers = x.timers \ {g}
         /\ CancelReclaim(x, g).lock = Without(x.lock, {Job("reclaim", "timer", g)})
         /\ \A h, n, S : LockOK(x.lock, h, n, S) => LockOK(CancelReclaim(x, g).lock, h, n, S)
         /\ Covers(x.lock, CancelReclaim(x, g).lock)
         /\ From(CancelReclaim(x, g).lock, x.lock)
         /\ (x.lock # <<>> /\ (Head(x.lock).pc # "wait" \/ Head(x.lock).k # "reclaim")) =>
              /\ CancelReclaim(x, g).lock # <<>>
              /\ Head(CancelReclaim(x, g).lock) = Head(x.lock)
<1> DEFINE C == {Job("reclaim", "timer", g)}
           q == Without(x.lock, C)
           y == CancelReclaim(x, g)
<1>1. x.lock \in Seq(JobType) /\ x.timers \in SUBSET Nat
  BY DEF MediaType
<1>2. \A job \in C : Waits(job) /\ job.k = "reclaim"
  BY DEF Job, Waits
<1>3. y = [x EXCEPT !.timers = x.timers \ {g}, !.lock = q]
  BY DEF CancelReclaim, MediaType
<1> HIDE DEF C
<1>4. /\ q \in Seq(JobType) /\ Covers(x.lock, q)
      /\ \A h, n, S : LockOK(x.lock, h, n, S) => LockOK(q, h, n, S)
      /\ From(q, x.lock)
      /\ x.lock # <<>> /\ Head(x.lock) \notin C => q # <<>> /\ Head(q) = Head(x.lock)
  BY <1>1, <1>2, ReclaimsCancelled
<1> HIDE DEF q, y
<1>5. /\ y \in MediaType /\ y.lock = q /\ y.lease = x.lease /\ y.last = x.last /\ y.sco = x.sco
      /\ y.tokens = x.tokens /\ y.attached = x.attached /\ y.aliases = x.aliases
      /\ y.timers = x.timers \ {g}
  BY <1>1, <1>3, <1>4 DEF MediaType
<1>6. (x.lock # <<>> /\ (Head(x.lock).pc # "wait" \/ Head(x.lock).k # "reclaim")) =>
        q # <<>> /\ Head(q) = Head(x.lock)
  BY <1>2, <1>4 DEF Waits
<1>7. y.lock = Without(x.lock, {Job("reclaim", "timer", g)})
  BY <1>5 DEF q, C
<1>8. /\ \A h, n, S : LockOK(x.lock, h, n, S) => LockOK(y.lock, h, n, S)
      /\ Covers(x.lock, y.lock)
      /\ From(y.lock, x.lock)
      /\ (x.lock # <<>> /\ (Head(x.lock).pc # "wait" \/ Head(x.lock).k # "reclaim")) =>
           y.lock # <<>> /\ Head(y.lock) = Head(x.lock)
  BY <1>4, <1>5, <1>6
<1> QED
  BY <1>5, <1>7, <1>8 DEF y

LEMMA CancelReclaimOK ==
  ASSUME NEW x, NEW S, NEW R, MediaOK(x, S, R), NEW g
  PROVE  MediaOK(CancelReclaim(x, g), S, R)
<1> DEFINE y == CancelReclaim(x, g)
<1>1. x \in MediaType /\ LockOK(x.lock, x.lease.gen, x.last, S)
  BY DEF MediaOK
<1>2. /\ y \in MediaType
      /\ y.lease = x.lease /\ y.last = x.last
      /\ y.tokens = x.tokens /\ y.attached = x.attached
      /\ y.aliases = x.aliases
      /\ y.sco = x.sco
      /\ y.timers = x.timers \ {g}
      /\ LockOK(y.lock, x.lease.gen, x.last, S)
      /\ Covers(x.lock, y.lock)
      /\ From(y.lock, x.lock)
  BY <1>1, CancelReclaimFields
<1> HIDE DEF y
<1>3. \A i \in DOMAIN y.lock : \E j \in DOMAIN x.lock : x.lock[j] = y.lock[i]
  BY <1>2 DEF From
<1>4. /\ x.sco.stream \in 0 .. x.last /\ x.timers \subseteq 0 .. x.last
      /\ x.tokens \cup x.attached \subseteq {x.lease.gen} \ {0}
      /\ \A s \in S : s \in Nat /\ s # 0
  BY DEF MediaOK, GensOK
<1>5. \A s \in S : \/ \E i \in DOMAIN y.lock : Closes(y.lock[i], s)
                  \/ ~\E i \in DOMAIN x.lock : Closes(x.lock[i], s)
  BY <1>2, <1>4 DEF Covers
<1>6. MediaOK(y, S, R)
  BY <1>2, <1>3, <1>4, <1>5, Moves
<1> QED
  BY <1>6 DEF y

LEMMA ArmReclaimOK ==
  ASSUME NEW x, NEW S, NEW R, MediaOK(x, S, R)
  PROVE  /\ MediaOK(ArmReclaim(x), S, R)
         /\ ArmReclaim(x).lease = x.lease /\ ArmReclaim(x).last = x.last
         /\ ArmReclaim(x).tokens = x.tokens /\ ArmReclaim(x).attached = x.attached
         /\ ArmReclaim(x).aliases = x.aliases
<1> DEFINE g == x.lease.gen
           z == CancelReclaim(x, g)
           y == ArmReclaim(x)
<1>1. /\ MediaOK(z, S, R)
      /\ z.lease = x.lease /\ z.last = x.last
      /\ z.tokens = x.tokens /\ z.attached = x.attached
      /\ z.aliases = x.aliases /\ z.sco = x.sco
      /\ z.timers = x.timers \ {g}
  <2>1. x \in MediaType /\ LockOK(x.lock, x.lease.gen, x.last, S)
    BY DEF MediaOK
  <2>2. MediaOK(z, S, R)
    BY CancelReclaimOK
  <2>3. /\ z.lease = x.lease /\ z.last = x.last
        /\ z.tokens = x.tokens /\ z.attached = x.attached
        /\ z.aliases = x.aliases /\ z.sco = x.sco
        /\ z.timers = x.timers \ {g}
    BY <2>1, CancelReclaimFields
  <2> QED
    BY <2>2, <2>3
<1>2. y = [z EXCEPT !.timers = z.timers \cup {g}]
  BY DEF ArmReclaim
<1> HIDE DEF z, y
<1>3. /\ x.sco.stream \in 0 .. x.last /\ x.timers \subseteq 0 .. x.last /\ g \in 0 .. x.last
      /\ x.tokens \cup x.attached \subseteq {x.lease.gen} \ {0} /\ g \in Nat
  BY DEF MediaOK, GensOK, MediaType, LeaseType
<1>4. z \in MediaType
  BY <1>1 DEF MediaOK
<1>5. y \in MediaType
  BY <1>2, <1>3, <1>4 DEF MediaType
<1>6. /\ y.lease = z.lease /\ y.last = z.last /\ y.lock = z.lock /\ y.sco = z.sco
      /\ y.tokens = z.tokens /\ y.attached = z.attached /\ y.aliases = z.aliases
      /\ y.timers = z.timers \cup {g}
  BY <1>2, <1>4 DEF MediaType
<1>7. MediaOK(y, S, R)
  BY <1>1, <1>3, <1>5, <1>6, Aside
<1> QED
  BY <1>1, <1>6, <1>7 DEF y

\* A lease ends: its session must be named by work.
LEMMA LeaseEnds ==
  ASSUME NEW x, NEW S, NEW R, MediaOK(x, S, R),
         NEW y \in MediaType, y.lease = NoLease, y.last = x.last, y.lock = x.lock,
         y.aliases \subseteq x.aliases, y.timers \subseteq 0 .. x.last,
         y.tokens \cup y.attached = {}, y.sco.stream \in 0 .. x.last,
         x.lease.gen \in S => Scheduled(x.lock, R, x.lease.gen)
  PROVE  MediaOK(y, S, R)
<1>1. y.lease.gen = 0
  BY DEF NoLease
<1>2. \A i \in DOMAIN x.lock : JobOK(x.lock[i], x.lease.gen, x.last, S)
  BY DEF MediaOK, LockOK
<1>3. \A i \in DOMAIN x.lock : JobOK(x.lock[i], 0, x.last, S)
  BY <1>2 DEF JobOK, StartOK
<1>4. \A i \in DOMAIN x.lock : ~Creates(x.lock[i], 0)
  BY <1>2 DEF JobOK, StartOK, Creates
<1>5. LockOK(x.lock, 0, x.last, S)
  BY <1>3, <1>4 DEF MediaOK, LockOK
<1>6. NewOK(y)
  BY <1>1, <1>4 DEF NewOK
<1>7. OrphansOK(y, S, R)
  BY DEF MediaOK, OrphansOK
<1>8. GensOK(y, S, R)
  BY <1>1 DEF MediaOK, GensOK
<1> QED
  BY <1>1, <1>5, <1>6, <1>7, <1>8 DEF MediaOK

LEMMA RefreshOK ==
  ASSUME NEW x, NEW S, NEW R, MediaOK(x, S, R), NEW up
  PROVE  /\ MediaOK(Refresh(x, up), S, R)
         /\ Refresh(x, up).lease = x.lease /\ Refresh(x, up).last = x.last
         /\ Refresh(x, up).lock = x.lock
<1>1. CASE x.lease.gen # 0 /\ up
  BY <1>1, SetScoOK DEF Refresh
<1>2. CASE ~(x.lease.gen # 0 /\ up)
  BY <1>2, SetScoOK DEF Refresh
<1> QED
  BY <1>1, <1>2

\* The lease ends, with its grants, its client and its reclaim.
LEMMA DetachLeaseOK ==
  ASSUME NEW x, NEW S, NEW R, MediaOK(x, S, R),
         x.lease.gen \in S => Scheduled(x.lock, R, x.lease.gen)
  PROVE  /\ MediaOK(DetachLease(x), S, R)
         /\ DetachLease(x).lease = NoLease /\ DetachLease(x).last = x.last
         /\ (x.lock # <<>> /\ (Head(x.lock).pc # "wait" \/ Head(x.lock).k # "reclaim")) =>
              DetachLease(x).lock # <<>> /\ Head(DetachLease(x).lock) = Head(x.lock)
<1> DEFINE g == x.lease.gen
           z == CancelReclaim(x, g)
           y == DetachLease(x)
           A == {a \in x.aliases : a[2] # g}
<1>1. /\ x \in MediaType /\ LockOK(x.lock, x.lease.gen, x.last, S) /\ x.lease.gen \in Nat
      /\ x.aliases \in SUBSET (Nat \X Nat)
  BY DEF MediaOK, MediaType, LeaseType
<1>2. MediaOK(z, S, R)
  BY CancelReclaimOK
<1>3. /\ z \in MediaType
      /\ z.lease = x.lease /\ z.last = x.last
      /\ z.tokens = x.tokens /\ z.attached = x.attached
      /\ z.aliases = x.aliases /\ z.sco = x.sco
      /\ z.timers = x.timers \ {g}
      /\ Covers(x.lock, z.lock)
      /\ (x.lock # <<>> /\ (Head(x.lock).pc # "wait" \/ Head(x.lock).k # "reclaim")) =>
           z.lock # <<>> /\ Head(z.lock) = Head(x.lock)
  BY <1>1, CancelReclaimFields
<1>4. y = [z EXCEPT !.lease = NoLease, !.aliases = A,
                    !.tokens = x.tokens \ {g}, !.attached = x.attached \ {g}]
  BY <1>1 DEF DetachLease, DetachSession, CancelReclaim, MediaType
<1>5. NoLease \in LeaseType /\ A \in SUBSET (Nat \X Nat) /\ A \subseteq x.aliases
  BY <1>1, CallsAssumption DEF NoLease, LeaseType
<1> HIDE DEF A, z
<1>6. /\ y \in MediaType
      /\ y.lease = NoLease /\ y.last = z.last /\ y.lock = z.lock /\ y.sco = z.sco
      /\ y.tokens = z.tokens \ {g} /\ y.attached = z.attached \ {g} /\ y.aliases = A
      /\ y.timers = z.timers
  <2> HIDE DEF y
  <2> QED
    BY <1>3, <1>4, <1>5 DEF MediaType
<1> HIDE DEF y
<1>7. /\ z.sco.stream \in 0 .. z.last /\ z.timers \subseteq 0 .. z.last
      /\ z.tokens \cup z.attached \subseteq {g} /\ (\A s \in S : s \in Nat /\ s # 0)
  BY <1>2, <1>3 DEF MediaOK, GensOK
<1>8. z.lease.gen \in S => Scheduled(z.lock, R, z.lease.gen)
  BY <1>3, <1>7 DEF Scheduled, Covers
<1>9. y.tokens \cup y.attached = {}
  BY <1>6, <1>7
<1>10. MediaOK(y, S, R)
  BY <1>2, <1>3, <1>5, <1>6, <1>7, <1>8, <1>9, LeaseEnds
<1> QED
  BY <1>3, <1>6, <1>10 DEF y

\* A new lease, which nobody has heard of.
LEMMA NewLeaseOK ==
  ASSUME NEW x, NEW S, NEW R, MediaOK(x, S, R), x.lease.gen = 0,
         NEW owner \in Owners \cup {"mcp_client"}, call.id \in 0 .. MaxCalls
  PROVE  /\ MediaOK(NewLease(x, owner), S, R)
         /\ NewLease(x, owner).lease.gen = x.last + 1
         /\ NewLease(x, owner).lease.call = call.id
         /\ NewLease(x, owner).last = x.last + 1
         /\ NewLease(x, owner).lock = x.lock
         /\ NewLease(x, owner).aliases = x.aliases
         /\ NewLease(x, owner).tokens \cup NewLease(x, owner).attached = {}
         /\ \A i \in DOMAIN x.lock : /\ ~Names(x.lock[i], x.last + 1)
                                     /\ ~Creates(x.lock[i], x.last + 1)
         /\ \A a \in x.aliases : a[2] # x.last + 1
<1> DEFINE n == x.last
           l == [gen |-> n + 1, call |-> call.id, owner |-> owner]
           y == NewLease(x, owner)
<1>1. x \in MediaType /\ n \in Nat /\ n + 1 \in Nat
  BY DEF MediaOK, MediaType
<1>2. l \in LeaseType
  BY <1>1 DEF LeaseType
<1>3. y = [x EXCEPT !.last = n + 1, !.lease = l]
  BY <1>1 DEF NewLease, MediaType
<1> HIDE DEF y
<1>4. /\ y \in MediaType
      /\ y.lease = l /\ y.last = n + 1 /\ y.lock = x.lock /\ y.sco = x.sco
      /\ y.tokens = x.tokens /\ y.attached = x.attached /\ y.aliases = x.aliases
      /\ y.timers = x.timers
  <2> HIDE DEF l
  <2> QED
    BY <1>1, <1>2, <1>3 DEF MediaType
<1>5. l.gen = n + 1 /\ l.call = call.id
  OBVIOUS
<1> HIDE DEF l
<1>6. 0..n \subseteq 0..(n + 1) /\ n + 1 \notin 0..n /\ n + 1 # 0 /\ n + 1 \in 0..(n + 1)
      /\ 1..n \subseteq 1..(n + 1)
  BY <1>1
<1>7. GensOK(x, S, R)
  BY DEF MediaOK
<1>8. y.tokens \cup y.attached = {}
  BY <1>4, <1>7 DEF GensOK
<1>9. GensOK(y, S, R)
  BY <1>4, <1>5, <1>6, <1>7, <1>8 DEF GensOK
<1>10. \A i \in DOMAIN x.lock : JobOK(x.lock[i], 0, n, S)
  BY DEF MediaOK, LockOK
<1>11. \A i \in DOMAIN x.lock : ~Names(x.lock[i], n + 1) /\ ~Creates(x.lock[i], n + 1)
  BY <1>6, <1>10 DEF JobOK, Names, Creates
<1>12. \A i \in DOMAIN x.lock : JobOK(x.lock[i], n + 1, n + 1, S)
  BY <1>6, <1>10 DEF JobOK, StartOK
<1>13. LockOK(x.lock, n + 1, n + 1, S)
  BY <1>11, <1>12 DEF MediaOK, LockOK
<1>14. \A a \in x.aliases : a[2] # n + 1
  BY <1>6, <1>7 DEF GensOK
<1>15. NewOK(y)
  BY <1>4, <1>5, <1>11 DEF NewOK
<1>16. OrphansOK(y, S, R)
  <2>1. \A s \in S : s # 0
    BY <1>7 DEF GensOK
  <2> QED
    BY <2>1, <1>4 DEF MediaOK, OrphansOK
<1>17. MediaOK(y, S, R)
  BY <1>4, <1>5, <1>9, <1>13, <1>15, <1>16 DEF MediaOK
<1> QED
  BY <1>4, <1>5, <1>8, <1>11, <1>14, <1>17 DEF y

\* A job that begins to wait.
LEMMA NewJob ==
  ASSUME NEW k \in Kinds, NEW r \in Requests \cup {"health", "timer", "call"}, NEW n \in Nat,
         NEW g \in 0..n, k = "ensure" => g = 0, k = "acquire" => g # 0
  PROVE  /\ Job(k, r, g) \in JobType /\ Waits(Job(k, r, g))
         /\ \A h, S : JobOK(Job(k, r, g), h, n, S)
<1>1. /\ Job(k, r, g) \in JobType
      /\ Job(k, r, g).k = k /\ Job(k, r, g).gen = g /\ Job(k, r, g).pc = "wait"
      /\ Job(k, r, g).s = 0 /\ Job(k, r, g).drop = {}
  BY DEF Job, JobType, Phases
<1> QED
  BY <1>1 DEF JobOK, StartOK, RemovalOK, Waits

\* A start that fails: what it opened is closed, and a lease made for it ends.
LEMMA AbortOK ==
  ASSUME NEW x, NEW S, NEW R, MediaOK(x, S, R), x.lock # <<>>, NEW job, job = Head(x.lock),
         \A s \in S : s # x.lease.gen => ~Closes(job, s),
         job.k = "acquire" /\ x.lease.gen = job.gen => x.lease.gen \notin S
  PROVE  /\ MediaOK(Abort(x, job), S, R)
         /\ Abort(x, job).lease \in {x.lease, NoLease} /\ Abort(x, job).last = x.last
<1> DEFINE y == [x EXCEPT !.lease = NoLease]
<1>1. CASE Creates(job, x.lease.gen)
  <2>1. Abort(x, job) = Unlock(y)
    BY <1>1 DEF Abort, Creates
  <2>2. x \in MediaType /\ x.lock \in Seq(JobType) /\ x.lease.gen \notin S
    BY <1>1 DEF MediaOK, MediaType, Creates
  <2>3. NoLease \in LeaseType /\ NoLease.gen = 0
    BY CallsAssumption DEF NoLease, LeaseType
  <2>4. /\ y \in MediaType
        /\ y.lease = NoLease /\ y.last = x.last /\ y.lock = x.lock /\ y.sco = x.sco
        /\ y.tokens = x.tokens /\ y.attached = x.attached /\ y.aliases = x.aliases
        /\ y.timers = x.timers
    BY <2>2, <2>3 DEF MediaType
  <2> HIDE DEF y
  <2>5. x.tokens \cup x.attached = {}
    <3>1. 1 \in DOMAIN x.lock /\ x.lock[1] = job
      BY <2>2
    <3> QED
      BY <1>1, <3>1 DEF MediaOK, NewOK
  <2>6. x.timers \subseteq 0 .. x.last /\ x.sco.stream \in 0 .. x.last
    BY DEF MediaOK, GensOK
  <2>7. MediaOK(y, S, R)
    BY <2>2, <2>4, <2>5, <2>6, LeaseEnds
  <2>8. \A s \in S : s # y.lease.gen => ~Closes(Head(y.lock), s)
    BY <2>2, <2>4
  <2> QED
    BY <2>1, <2>4, <2>7, <2>8, UnlockOK
<1>2. CASE ~Creates(job, x.lease.gen)
  <2>1. Abort(x, job) = Unlock(x)
    BY <1>2 DEF Abort, Creates
  <2> QED
    BY <2>1, UnlockOK
<1> QED
  BY <1>1, <1>2

\* A start that succeeds: a token for the lease in force, and its reclaim.
LEMMA GrantOK ==
  ASSUME NEW x, NEW S, NEW R, MediaOK(x, S, R), x.lock # <<>>, NEW job, job = Head(x.lock),
         job.k \in {"acquire", "ensure"}, x.lease.gen # 0,
         \A s \in S : s # x.lease.gen => ~Closes(job, s),
         \A i \in DOMAIN x.lock : i # 1 => ~Creates(x.lock[i], x.lease.gen)
  PROVE  /\ MediaOK(Grant(x, job), S, R)
         /\ Grant(x, job).lease = x.lease /\ Grant(x, job).last = x.last
<1> DEFINE g == x.lease.gen
           t == [x EXCEPT !.tokens = x.tokens \cup {g}]
           y == SetSco(t, "ready", g)
           c == CancelReclaim(y, g)
           w == IF g \in y.attached THEN CancelReclaim(y, g) ELSE ArmReclaim(y)
           z == Unlock(w)
<1>1. /\ x \in MediaType /\ x.lock \in Seq(JobType) /\ LockOK(x.lock, g, x.last, S)
      /\ g \in Nat /\ x.last \in Nat /\ x.tokens \in SUBSET Nat
      /\ g \in 0..x.last /\ x.timers \subseteq 0..x.last /\ x.sco.stream \in 0..x.last
      /\ x.tokens \cup x.attached \subseteq {g} /\ 0 \notin x.tokens \cup x.attached
  BY DEF MediaOK, MediaType, LeaseType, GensOK
<1>2. /\ t \in MediaType
      /\ t.lease = x.lease /\ t.last = x.last /\ t.aliases = x.aliases /\ t.timers = x.timers
      /\ t.tokens = x.tokens \cup {g} /\ t.attached = x.attached /\ t.sco = x.sco
      /\ t.lock = x.lock
  BY <1>1 DEF MediaType
<1> HIDE DEF t
<1>3. /\ y \in MediaType
      /\ y.lease = t.lease /\ y.last = t.last /\ y.aliases = t.aliases /\ y.timers = t.timers
      /\ y.tokens = t.tokens /\ y.attached = t.attached /\ y.lock = t.lock
      /\ y.sco.stream \in {0, g, t.sco.stream}
  BY <1>1, <1>2, SetScoFields
<1> HIDE DEF y
<1>4. /\ c \in MediaType
      /\ c.lease = y.lease /\ c.last = y.last /\ c.tokens = y.tokens /\ c.attached = y.attached
      /\ c.aliases = y.aliases /\ c.sco = y.sco /\ c.timers = y.timers \ {g}
      /\ \A h, n, T : LockOK(y.lock, h, n, T) => LockOK(c.lock, h, n, T)
      /\ Covers(y.lock, c.lock)
      /\ From(c.lock, y.lock)
      /\ (y.lock # <<>> /\ (Head(y.lock).pc # "wait" \/ Head(y.lock).k # "reclaim")) =>
           c.lock # <<>> /\ Head(c.lock) = Head(y.lock)
  BY <1>3, CancelReclaimFields
<1>5. y.lease.gen = g
  BY <1>2, <1>3
<1>6. w = c \/ w = [c EXCEPT !.timers = c.timers \cup {g}]
  BY <1>5 DEF ArmReclaim
<1> HIDE DEF c, w
<1>7. c.timers \in SUBSET Nat
  BY <1>4 DEF MediaType
<1>8. /\ w \in MediaType
      /\ w.lease = c.lease /\ w.last = c.last /\ w.tokens = c.tokens /\ w.attached = c.attached
      /\ w.aliases = c.aliases /\ w.sco = c.sco /\ w.timers \subseteq c.timers \cup {g}
      /\ w.lock = c.lock
  BY <1>1, <1>4, <1>6, <1>7 DEF MediaType
<1>9. /\ c.lock \in Seq(JobType) /\ LockOK(c.lock, g, x.last, S)
      /\ c.lock # <<>> /\ Head(c.lock) = job
  BY <1>1, <1>2, <1>3, <1>4 DEF MediaType
<1>10. /\ Tail(c.lock) \in Seq(JobType) /\ LockOK(Tail(c.lock), g, x.last, S)
       /\ \A i \in DOMAIN c.lock : c.lock[i] = job \/ \E j \in DOMAIN Tail(c.lock) : Tail(c.lock)[j] = c.lock[i]
       /\ \A j \in DOMAIN Tail(c.lock) : \E i \in DOMAIN c.lock : i # 1 /\ Tail(c.lock)[j] = c.lock[i]
  BY <1>9, NextJob
<1>11. z = [w EXCEPT !.lock = Tail(c.lock)]
  BY <1>8 DEF Unlock
<1> HIDE DEF z
<1>12. /\ z \in MediaType
       /\ z.lease = x.lease /\ z.last = x.last /\ z.tokens = x.tokens \cup {g}
       /\ z.attached = x.attached /\ z.aliases = x.aliases /\ z.sco = y.sco
       /\ z.timers \subseteq 0..x.last /\ z.lock = Tail(c.lock)
  <2>1. /\ z \in MediaType
        /\ z.lease = w.lease /\ z.last = w.last /\ z.tokens = w.tokens
        /\ z.attached = w.attached /\ z.aliases = w.aliases /\ z.sco = w.sco
        /\ z.timers = w.timers /\ z.lock = Tail(c.lock)
    BY <1>8, <1>10, <1>11 DEF MediaType
  <2>2. w.timers \subseteq 0..x.last
    BY <1>1, <1>2, <1>3, <1>4, <1>8
  <2> QED
    BY <1>2, <1>3, <1>4, <1>8, <2>1, <2>2
<1>13. ASSUME NEW i \in DOMAIN z.lock PROVE ~Creates(z.lock[i], g)
  <2>1. PICK j \in DOMAIN c.lock : j # 1 /\ z.lock[i] = c.lock[j]
    BY <1>10, <1>12
  <2>2. PICK k \in DOMAIN x.lock : k # 1 /\ c.lock[j] = x.lock[k]
    BY <1>2, <1>3, <1>4, <2>1 DEF From
  <2> QED
    BY <2>1, <2>2
<1>14. ASSUME NEW s \in S, s # g, NEW i \in DOMAIN x.lock, Closes(x.lock[i], s)
       PROVE  \E j \in DOMAIN z.lock : Closes(z.lock[j], s)
  <2>1. s \in Nat /\ s # 0
    BY DEF MediaOK, GensOK
  <2>2. PICK k \in DOMAIN c.lock : Closes(c.lock[k], s)
    BY <1>2, <1>3, <1>4, <1>14, <2>1 DEF Covers
  <2>3. c.lock[k] # job
    BY <1>14, <2>2
  <2> QED
    BY <1>10, <1>12, <2>2, <2>3
<1>15. /\ z.tokens \cup z.attached \subseteq {g} \ {0}
       /\ z.sco.stream \in 0 .. x.last
  BY <1>1, <1>2, <1>3, <1>12
<1>16. MediaOK(z, S, R)
  BY <1>10, <1>12, <1>13, <1>14, <1>15, Moves
<1>17. CASE ~(job.k = "acquire" /\ job.gen # g)
  <2>1. Grant(x, job) = z
    BY <1>17 DEF Grant, z, w, y, t
  <2> QED
    BY <2>1, <1>12, <1>16
<1>18. CASE job.k = "acquire" /\ job.gen # g
  <2> DEFINE e == Job("exact", job.r, job.gen)
  <2>1. Grant(x, job) = Enqueue(z, e)
    BY <1>18 DEF Grant, z, w, y, t
  <2>2. job \in JobType /\ job.gen \in 0 .. x.last
    BY <1>1, NextJob DEF JobOK
  <2>3. e \in JobType /\ JobOK(e, g, x.last, S) /\ Waits(e) /\ e.k = "exact"
    <3>1. job.r \in Requests \cup {"health", "timer", "call"}
      BY <2>2 DEF JobType
    <3>2. "exact" \in Kinds /\ "exact" # "ensure" /\ "exact" # "acquire"
      BY DEF Kinds
    <3>3. /\ e \in JobType /\ Waits(e)
          /\ \A h, T : JobOK(e, h, x.last, T)
      <4>1. x.last \in Nat /\ job.gen \in 0..x.last
        BY <1>1, <2>2
      <4> QED
        BY <3>1, <3>2, <4>1, NewJob
    <3> QED
      BY <3>3 DEF Job
  <2> HIDE DEF e
  <2>4. ~Creates(e, g)
    BY <2>3 DEF Creates
  <2> QED
    BY <2>1, <2>3, <2>4, <1>12, <1>16, EnqueueOK
<1> QED
  BY <1>17, <1>18

-----------------------------------------------------------------------------
(* Posted callbacks and sessions *)

LEMMA Posts ==
  ASSUME NEW x, NEW S, NEW R, MediaOK(x, S, R), NEW Q \in Seq(PostType),
         \A i \in DOMAIN Q : Q[i].gen \in 0 .. x.last,
         \A i \in DOMAIN R : R[i].k = "cleanup" /\ R[i].gen \in S => Scheduled(x.lock, Q, R[i].gen)
  PROVE  MediaOK(x, S, Q)
<1>1. GensOK(x, S, Q)
  BY DEF MediaOK, GensOK
<1>2. OrphansOK(x, S, Q)
  BY DEF MediaOK, OrphansOK, Scheduled
<1> QED
  BY <1>1, <1>2 DEF MediaOK

\* A callback is posted.
LEMMA PostedOK ==
  ASSUME NEW x, NEW S, NEW R, MediaOK(x, S, R), NEW p \in PostType, p.gen \in 0 .. x.last
  PROVE  /\ MediaOK(x, S, Append(R, p))
         /\ \E i \in DOMAIN Append(R, p) : Append(R, p)[i] = p
<1> DEFINE Q == Append(R, p)
<1>1. R \in Seq(PostType) /\ \A i \in DOMAIN R : R[i].gen \in 0 .. x.last
  BY DEF MediaOK, GensOK
<1>2. /\ Q \in Seq(PostType) /\ Len(R) \in Nat
      /\ DOMAIN R = 1..Len(R) /\ DOMAIN Q = 1..(Len(R) + 1)
      /\ \A i \in 1..Len(R) : Q[i] = R[i]
      /\ Q[Len(R) + 1] = p
  BY <1>1
<1> HIDE DEF Q
<1>3. \A i \in DOMAIN Q : i \in DOMAIN R \/ i = Len(R) + 1
  BY <1>2
<1>4. \A i \in DOMAIN R : i \in DOMAIN Q /\ Q[i] = R[i]
  BY <1>2
<1>5. MediaOK(x, S, Q)
  <2>1. \A i \in DOMAIN Q : Q[i].gen \in 0 .. x.last
    BY <1>1, <1>2, <1>3, <1>4
  <2>2. \A i \in DOMAIN R : R[i].k = "cleanup" /\ R[i].gen \in S => Scheduled(x.lock, Q, R[i].gen)
    BY <1>4 DEF Scheduled
  <2> QED
    BY <1>2, <2>1, <2>2, Posts
<1>6. Len(R) + 1 \in DOMAIN Q
  BY <1>2
<1> QED
  BY <1>2, <1>5, <1>6 DEF Q

\* A callback runs: a posted cleanup has become a job.
LEMMA CallbackOK ==
  ASSUME NEW x, NEW S, NEW R, MediaOK(x, S, R), R # <<>>,
         Head(R).k = "cleanup" => \E i \in DOMAIN x.lock : Closes(x.lock[i], Head(R).gen)
  PROVE  MediaOK(x, S, Tail(R))
<1> DEFINE Q == Tail(R)
<1>1. R \in Seq(PostType) /\ \A i \in DOMAIN R : R[i].gen \in 0 .. x.last
  BY DEF MediaOK, GensOK
<1>2. /\ Q \in Seq(PostType) /\ Len(R) \in Nat
      /\ DOMAIN R = 1..Len(R) /\ DOMAIN Q = 1..(Len(R) - 1)
      /\ \A i \in DOMAIN Q : Q[i] = R[i + 1]
      /\ Head(R) = R[1]
  BY <1>1
<1> HIDE DEF Q
<1>3. \A i \in DOMAIN Q : i + 1 \in DOMAIN R
  BY <1>2
<1>4. \A i \in DOMAIN R : i = 1 \/ (i - 1 \in DOMAIN Q /\ Q[i - 1] = R[i])
  <2> TAKE i \in DOMAIN R
  <2>1. i = 1 \/ (i - 1 \in DOMAIN Q /\ (i - 1) + 1 = i)
    BY <1>2
  <2> QED
    BY <1>2, <2>1
<1>5. \A i \in DOMAIN R : R[i].k = "cleanup" => Scheduled(x.lock, Q, R[i].gen)
  BY <1>2, <1>4 DEF Scheduled
<1>6. \A i \in DOMAIN Q : Q[i].gen \in 0 .. x.last
  BY <1>1, <1>2, <1>3
<1>7. MediaOK(x, S, Q)
  BY <1>2, <1>5, <1>6, Posts
<1> QED
  BY <1>7 DEF Q

LEMMA NextCallback ==
  ASSUME NEW x, NEW S, NEW R, MediaOK(x, S, R), R # <<>>
  PROVE  Head(R) \in PostType /\ Head(R).gen \in 0 .. x.last
<1>1. R \in Seq(PostType) /\ \A i \in DOMAIN R : R[i].gen \in 0 .. x.last
  BY DEF MediaOK, GensOK
<1>2. 1 \in DOMAIN R /\ Head(R) = R[1] /\ R[1] \in PostType
  BY <1>1
<1> QED
  BY <1>1, <1>2

\* Sessions are closed, or opened for the lease in force.
LEMMA FewerSessions ==
  ASSUME NEW x, NEW S, NEW R, MediaOK(x, S, R), NEW D
  PROVE  MediaOK(x, S \ D, R)
<1>1. \A i \in DOMAIN x.lock : JobOK(x.lock[i], x.lease.gen, x.last, S)
  BY DEF MediaOK, LockOK
<1>2. \A i \in DOMAIN x.lock : JobOK(x.lock[i], x.lease.gen, x.last, S \ D)
  BY <1>1 DEF JobOK, RemovalOK
<1>3. LockOK(x.lock, x.lease.gen, x.last, S \ D)
  BY <1>2 DEF MediaOK, LockOK
<1>4. GensOK(x, S \ D, R) /\ OrphansOK(x, S \ D, R)
  BY DEF MediaOK, GensOK, OrphansOK
<1> QED
  BY <1>3, <1>4 DEF MediaOK

LEMMA MoreSessions ==
  ASSUME NEW x, NEW S, NEW R, MediaOK(x, S, R), x.lease.gen # 0,
         \A i \in DOMAIN x.lock : x.lock[i].pc = "wait"
  PROVE  MediaOK(x, S \cup {x.lease.gen}, R)
<1> DEFINE T == S \cup {x.lease.gen}
<1>1. \A i \in DOMAIN x.lock : JobOK(x.lock[i], x.lease.gen, x.last, S)
  BY DEF MediaOK, LockOK
<1>2. \A i \in DOMAIN x.lock : JobOK(x.lock[i], x.lease.gen, x.last, T)
  BY <1>1 DEF JobOK, RemovalOK
<1>3. LockOK(x.lock, x.lease.gen, x.last, T)
  BY <1>2 DEF MediaOK, LockOK
<1>4. x.last \in Nat /\ x.lease.gen \in Nat /\ x.lease.gen \in 1..x.last
  BY DEF MediaOK, GensOK, MediaType, LeaseType
<1>5. GensOK(x, T, R) /\ OrphansOK(x, T, R) /\ T \in SUBSET Nat
  BY <1>4 DEF MediaOK, GensOK, OrphansOK
<1> QED
  BY <1>3, <1>5 DEF MediaOK

\* Nobody behind the holder was made with a lease that the holder may open.
LEMMA NoRival ==
  ASSUME NEW x, NEW S, NEW R, MediaOK(x, S, R), x.lock # <<>>,
         \/ Names(Head(x.lock), x.lease.gen)
         \/ \E a \in x.aliases : a[2] = x.lease.gen
  PROVE  \A i \in DOMAIN x.lock : i # 1 => ~Creates(x.lock[i], x.lease.gen)
<1>1. /\ x.lock \in Seq(JobType) /\ 1 \in DOMAIN x.lock /\ x.lock[1] = Head(x.lock)
      /\ \A i \in DOMAIN x.lock : i # 1 => 1 < i
  BY DEF MediaOK, MediaType
<1> QED
  BY <1>1 DEF MediaOK, LockOK, NewOK

\* The session of a start is open, and lease and call are compared again.
LEMMA ConcludeOK ==
  ASSUME NEW x, NEW S, NEW R, MediaOK(x, S, R), x.lock # <<>>, NEW job, job = Head(x.lock),
         job.k \in {"acquire", "ensure"}, job.pc \in {"wait", "opened"},
         NEW s \in Nat, job.s \in {0, s},
         job.k = "acquire" /\ x.lease.gen = job.gen => job.gen = s,
         x.lease.gen = s => \A i \in DOMAIN x.lock : i # 1 => ~Creates(x.lock[i], x.lease.gen),
         Conclude(x, job, s)
  PROVE  MediaOK(m', S, R) /\ m'.lease = x.lease /\ m'.last = x.last
<1>1. job \in JobType /\ JobOK(job, x.lease.gen, x.last, S) /\ job.drop = {}
  <2>1. job \in JobType /\ JobOK(job, x.lease.gen, x.last, S)
    BY NextJob DEF MediaOK, MediaType
  <2> QED
    BY <2>1 DEF JobOK, Waits, RemovalOK
<1>2. CASE OfActiveCall(x) /\ x.lease.gen = s
  <2>1. \A t \in S : t # x.lease.gen => ~Closes(job, t)
    BY <1>1, <1>2 DEF Closes, MediaOK, GensOK
  <2>2. m' = Grant(x, job)
    BY <1>2 DEF Conclude
  <2> QED
    BY <1>2, <2>1, <2>2, GrantOK DEF OfActiveCall
<1>3. CASE ~(OfActiveCall(x) /\ x.lease.gen = s)
  <2> DEFINE new == [job EXCEPT !.drop = {s}, !.pc = "removing"]
  <2>1. m' = SetHead(x, new)
    BY <1>3 DEF Conclude
  <2>2. /\ new \in JobType /\ new.k = job.k /\ new.gen = job.gen /\ new.s = job.s
        /\ new.reused = job.reused /\ new.drop = {s} /\ new.pc = "removing"
    BY <1>1 DEF JobType, Phases
  <2> HIDE DEF new
  <2>3. JobOK(new, x.lease.gen, x.last, S)
    BY <1>1, <2>2 DEF JobOK, StartOK, RemovalOK
  <2>4. /\ Creates(new, x.lease.gen) => Creates(Head(x.lock), x.lease.gen)
        /\ Names(new, x.lease.gen) => Names(Head(x.lock), x.lease.gen)
    BY <2>2 DEF Creates, Names
  <2>5. \A t \in S : t # x.lease.gen /\ Closes(Head(x.lock), t) => Closes(new, t)
    BY <1>1, <2>2 DEF Closes
  <2> QED
    BY <2>1, <2>2, <2>3, <2>4, <2>5, SetHeadOK
<1> QED
  BY <1>2, <1>3

-----------------------------------------------------------------------------
(* The actions *)

LinkType == [st : {"stopped", "connecting", "up", "failed"}, users : SUBSET (0 .. m.last)]

\* A step that gives no lease, and leaves the call alone.
LEMMA Kept ==
  ASSUME LeaseInv, UNCHANGED call, MediaOK(m', sessions', ready'),
         m'.lease \in {m.lease, NoLease}, m'.last = m.last, link' \in LinkType
  PROVE  LeaseInv'
<1>1. LeaseOfCall'
  BY DEF LeaseInv, LeaseOfCall, NoLease
<1>2. link' \in LinkType'
  BY DEF LinkType
<1> QED
  BY <1>1, <1>2 DEF LeaseInv, LinkType

LEMMA HolderFacts ==
  ASSUME LeaseInv, m.lock # <<>>
  PROVE  /\ Holder \in JobType /\ JobOK(Holder, m.lease.gen, m.last, sessions)
         /\ Holder.pc = "wait" => Holder.drop = {} /\ Holder.s = 0
         /\ 1 \in DOMAIN m.lock /\ m.lock[1] = Holder
         /\ Holder.pc = "wait" => \A i \in DOMAIN m.lock : m.lock[i].pc = "wait"
<1>1. /\ m.lock \in Seq(JobType) /\ LockOK(m.lock, m.lease.gen, m.last, sessions)
  BY DEF LeaseInv, MediaOK, MediaType
<1>2. Holder \in JobType /\ JobOK(Holder, m.lease.gen, m.last, sessions)
  BY <1>1, NextJob DEF Holder
<1>3. 1 \in DOMAIN m.lock /\ m.lock[1] = Holder
  BY <1>1 DEF Holder
<1> QED
  BY <1>1, <1>2, <1>3 DEF JobOK, Waits, LockOK

LEMMA MediaFacts ==
  ASSUME LeaseInv
  PROVE  /\ MediaOK(m, sessions, ready) /\ m \in MediaType /\ link \in LinkType
         /\ m.last \in Nat /\ m.lease.gen \in Nat /\ m.lease.gen \in 0 .. m.last
         /\ 0 \in 0 .. m.last
         /\ \A s \in sessions : s \in Nat /\ s # 0
         /\ call.id \in 0 .. MaxCalls /\ call.st \in {"idle", "active", "ending"}
  BY DEF LeaseInv, MediaOK, MediaType, LeaseType, GensOK, LinkType

LEMMA AcquireStep ==
  ASSUME LeaseInv, NEW r \in Requests, NEW owner \in Owners, Acquire(r, owner)
  PROVE  LeaseInv'
<1>1. /\ call.st = "active" /\ UNCHANGED <<call, sessions, link, ready>>
  BY DEF Acquire
<1>2. /\ MediaOK(m, sessions, ready) /\ m \in MediaType /\ link \in LinkType
      /\ m.last \in Nat /\ m.lease.gen \in Nat /\ m.lease.gen \in 0 .. m.last
      /\ call.id \in 0 .. MaxCalls
  BY MediaFacts
<1>3. CASE m' = m
  BY <1>1, <1>2, <1>3, Kept
<1> DEFINE x == IF m.lease.gen = 0 THEN NewLease(m, owner) ELSE m
           job == [Job("acquire", r, x.lease.gen)
                     EXCEPT !.call = call.id, !.reused = ~(m.lease.gen = 0)]
<1>4. CASE m' = Enqueue(x, job)
  <2>1. /\ MediaOK(x, sessions, ready) /\ x.lease.gen # 0
        /\ m.lease.gen = 0 =>
             /\ x.lease.gen = m.last + 1 /\ x.lease.call = call.id /\ x.last = m.last + 1
             /\ x.tokens \cup x.attached = {} /\ \A a \in x.aliases : a[2] # x.lease.gen
             /\ \A i \in DOMAIN x.lock : ~Names(x.lock[i], x.lease.gen)
        /\ m.lease.gen # 0 => x = m
    <3>1. CASE m.lease.gen = 0
      BY <1>2, <3>1, NewLeaseOK
    <3>2. CASE m.lease.gen # 0
      BY <1>2, <3>2
    <3> QED
      BY <3>1, <3>2
  <2> HIDE DEF x
  <2>2. x.lease.gen \in Nat /\ x.lease.gen \in 0 .. x.last /\ 0 \in 0 .. x.last
    BY <2>1 DEF MediaOK, MediaType, LeaseType, GensOK
  <2>3. /\ job \in JobType /\ job.k = "acquire" /\ job.gen = x.lease.gen /\ job.pc = "wait"
        /\ job.s = 0 /\ job.drop = {} /\ (job.reused <=> m.lease.gen # 0)
    <3> DEFINE base == Job("acquire", r, x.lease.gen)
               b == ~(m.lease.gen = 0)
    <3>1. /\ base \in JobType /\ base.k = "acquire" /\ base.gen = x.lease.gen
          /\ base.pc = "wait" /\ base.s = 0 /\ base.drop = {}
      BY <2>2 DEF Job, JobType, Kinds, Phases
    <3>2. b \in BOOLEAN /\ (b <=> m.lease.gen # 0) /\ call.id \in Nat
      BY <1>2, CallsAssumption
    <3>3. job = [base EXCEPT !.call = call.id, !.reused = b]
      OBVIOUS
    <3> HIDE DEF base, b, job
    <3> QED
      BY <3>1, <3>2, <3>3 DEF JobType
  <2> HIDE DEF job
  <2>4. JobOK(job, x.lease.gen, x.last, sessions) /\ Waits(job)
    BY <2>1, <2>2, <2>3 DEF JobOK, Waits, StartOK, RemovalOK
  <2>5. Creates(job, x.lease.gen) =>
            /\ x.tokens \cup x.attached = {} /\ \A a \in x.aliases : a[2] # x.lease.gen
            /\ \A j \in DOMAIN x.lock : ~Names(x.lock[j], x.lease.gen)
    BY <2>1, <2>3 DEF Creates
  <2>6. MediaOK(m', sessions, ready) /\ m'.lease = x.lease /\ m'.last = x.last
    BY <1>4, <2>1, <2>3, <2>4, <2>5, EnqueueOK
  <2>7. CASE m.lease.gen # 0
    BY <1>1, <1>2, <2>1, <2>6, <2>7, Kept
  <2>8. CASE m.lease.gen = 0
    <3>1. LeaseOfCall'
      BY <1>1, <2>1, <2>6, <2>8 DEF LeaseOfCall
    <3>2. 0 .. m.last \subseteq 0 .. m'.last
      BY <1>2, <2>1, <2>6, <2>8
    <3> QED
      BY <1>1, <1>2, <2>6, <3>1, <3>2 DEF LeaseInv, LinkType
  <2> QED
    BY <2>7, <2>8
<1> QED
  BY <1>3, <1>4 DEF Acquire

\* A request or a task asks for the lock.
LEMMA JobJoins ==
  ASSUME LeaseInv, NEW k \in Kinds \ {"acquire"},
         NEW r \in Requests \cup {"health", "timer", "call"}, NEW g \in 0 .. m.last,
         k = "ensure" => g = 0, NEW x, MediaOK(x, sessions, ready),
         x.lease = m.lease, x.last = m.last
  PROVE  /\ MediaOK(Enqueue(x, Job(k, r, g)), sessions, ready)
         /\ Enqueue(x, Job(k, r, g)).lease = m.lease
         /\ Enqueue(x, Job(k, r, g)).last = m.last
         /\ \E i \in DOMAIN Enqueue(x, Job(k, r, g)).lock :
               Enqueue(x, Job(k, r, g)).lock[i] = Job(k, r, g)
<1>1. m.last \in Nat
  BY MediaFacts
<1> DEFINE e == Job(k, r, g)
<1>2. e \in JobType /\ Waits(e) /\ \A h, S : JobOK(e, h, m.last, S)
  BY <1>1, NewJob
<1>3. e.k # "acquire"
  BY DEF Job
<1> HIDE DEF e
<1>4. ~Creates(e, x.lease.gen) /\ JobOK(e, x.lease.gen, x.last, sessions)
  BY <1>2, <1>3 DEF Creates
<1>5. /\ MediaOK(Enqueue(x, e), sessions, ready)
      /\ Enqueue(x, e).lease = x.lease /\ Enqueue(x, e).last = x.last
      /\ \E i \in DOMAIN Enqueue(x, e).lock : Enqueue(x, e).lock[i] = e
  BY <1>2, <1>4, EnqueueOK
<1> QED
  BY <1>5 DEF e

LEMMA AskStep ==
  ASSUME LeaseInv, NEW r \in Requests, NEW tool \in {"ensure", "stop", "cleanup"}, Ask(r, tool)
  PROVE  LeaseInv'
<1>1. m' = Enqueue(m, Job(tool, r, 0)) /\ UNCHANGED <<call, sessions, link, ready>>
  BY DEF Ask
<1>2. MediaOK(m, sessions, ready) /\ link \in LinkType /\ 0 \in 0 .. m.last
  BY MediaFacts
<1>3. tool \in Kinds \ {"acquire"}
  BY DEF Kinds
<1>4. MediaOK(m', sessions, ready) /\ m'.lease = m.lease /\ m'.last = m.last
  BY <1>1, <1>2, <1>3, JobJoins
<1> QED
  BY <1>1, <1>2, <1>4, Kept

LEMMA ReleaseStep ==
  ASSUME LeaseInv, NEW r \in Requests, Release(r)
  PROVE  LeaseInv'
<1>1. m' = Enqueue(m, Job("release", r, m.lease.gen)) /\ UNCHANGED <<call, sessions, link, ready>>
  BY DEF Release
<1>2. MediaOK(m, sessions, ready) /\ link \in LinkType /\ m.lease.gen \in 0 .. m.last
  BY MediaFacts
<1>3. "release" \in Kinds \ {"acquire"} /\ "release" # "ensure"
  BY DEF Kinds
<1>4. MediaOK(m', sessions, ready) /\ m'.lease = m.lease /\ m'.last = m.last
  BY <1>1, <1>2, <1>3, JobJoins
<1> QED
  BY <1>1, <1>2, <1>4, Kept

\* A start that waits names the lease in force only if nobody behind it was made with it.
LEMMA NamedAlone ==
  ASSUME LeaseInv, Starting, Named(m, Holder.gen)
  PROVE  /\ \A i \in DOMAIN m.lock : i # 1 => ~Creates(m.lock[i], m.lease.gen)
         /\ Holder.k = "acquire" \/ Holder.gen = 0
<1>1. /\ m.lock # <<>> /\ Holder.k \in {"acquire", "ensure"} /\ Holder.pc = "wait"
      /\ JobOK(Holder, m.lease.gen, m.last, sessions)
  BY HolderFacts DEF Starting, Holds
<1>2. Holder.k = "acquire" \/ Holder.gen = 0
  BY <1>1 DEF JobOK
<1>3. \/ Names(Head(m.lock), m.lease.gen)
      \/ \E a \in m.aliases : a[2] = m.lease.gen
  BY <1>2 DEF Named, Names, Holder
<1> QED
  BY <1>1, <1>2, <1>3, NoRival, MediaFacts

LEMMA StartReusesStep ==
  ASSUME LeaseInv, StartReuses
  PROVE  LeaseInv'
<1>1. /\ Starting /\ Named(m, Holder.gen) /\ m.lease.gen \in sessions
      /\ Conclude(m, Holder, m.lease.gen) /\ UNCHANGED <<call, sessions, link, ready>>
  BY DEF StartReuses
<1>2. /\ m.lock # <<>> /\ Holder = Head(m.lock) /\ Holder.pc = "wait" /\ Holder.s = 0
      /\ Holder.k \in {"acquire", "ensure"}
  BY <1>1, HolderFacts DEF Starting, Holds, Holder
<1>3. m.lease.gen \in Nat /\ m.lease.gen # 0 /\ MediaOK(m, sessions, ready) /\ link \in LinkType
  BY <1>1, MediaFacts
<1>4. MediaOK(m', sessions, ready) /\ m'.lease = m.lease /\ m'.last = m.last
  BY <1>1, <1>2, <1>3, NamedAlone, ConcludeOK
<1> QED
  BY <1>1, <1>3, <1>4, Kept

LEMMA StartOpensStep ==
  ASSUME LeaseInv, StartOpens
  PROVE  LeaseInv'
<1> DEFINE y == NewLease(m, "mcp_client")
           x == IF m.lease.gen # 0 THEN m
                ELSE [y EXCEPT !.aliases = y.aliases \cup {<<Holder.gen, y.lease.gen>>}]
           s == x.lease.gen
           c == SetSco(x, "connecting", 0)
           new == [Holder EXCEPT !.s = s, !.pc = "opening"]
<1>1. /\ Starting /\ call.st = "active" /\ UNCHANGED <<call, link, ready>>
      /\ m.lease.gen # 0 => Named(m, Holder.gen)
      /\ sessions' = sessions \cup {s} /\ m' = SetHead(c, new)
  BY DEF StartOpens
<1>2. /\ m.lock # <<>> /\ Holder \in JobType /\ JobOK(Holder, m.lease.gen, m.last, sessions)
      /\ Holder.pc = "wait" /\ Holder.s = 0 /\ Holder.drop = {}
      /\ Holder.k \in {"acquire", "ensure"}
      /\ \A i \in DOMAIN m.lock : m.lock[i].pc = "wait"
  BY <1>1, HolderFacts DEF Starting, Holds
<1>3. /\ MediaOK(m, sessions, ready) /\ m.last \in Nat /\ link \in LinkType
      /\ call.id \in 0 .. MaxCalls /\ m.lease.gen \in Nat /\ m.lease.gen \in 0 .. m.last
      /\ \A t \in sessions : t \in Nat /\ t # 0
  BY MediaFacts
<1>4. Holder.gen \in 0 .. m.last
  BY <1>2 DEF JobOK
<1>5. ASSUME m.lease.gen = 0
      PROVE  /\ MediaOK(x, sessions, ready) /\ x.lock = m.lock /\ s \in Nat /\ s # 0
             /\ x.lease.call = call.id /\ 0 .. m.last \subseteq 0 .. x.last
             /\ \A i \in DOMAIN m.lock : i # 1 => ~Creates(m.lock[i], s)
  <2>1. /\ MediaOK(y, sessions, ready)
        /\ y.lease.gen = m.last + 1 /\ y.lease.call = call.id /\ y.last = m.last + 1
        /\ y.lock = m.lock /\ y.aliases = m.aliases
        /\ \A i \in DOMAIN m.lock : /\ ~Names(m.lock[i], m.last + 1)
                                    /\ ~Creates(m.lock[i], m.last + 1)
    BY <1>3, <1>5, NewLeaseOK
  <2> DEFINE A == y.aliases \cup {<<Holder.gen, y.lease.gen>>}
  <2>2. x = [y EXCEPT !.aliases = A]
    BY <1>5
  <2> HIDE DEF x, y
  <2>3. y \in MediaType /\ A \in SUBSET (Nat \X Nat) /\ y.lease.gen \in 0 .. y.last
        /\ A \subseteq (0 .. y.last) \X (0 .. y.last)
    <3>1. /\ y \in MediaType /\ y.aliases \in SUBSET (Nat \X Nat)
          /\ y.aliases \subseteq (0 .. y.last) \X (0 .. y.last)
      BY <2>1 DEF MediaOK, MediaType, GensOK
    <3>2. Holder.gen \in 0 .. y.last /\ y.lease.gen \in 0 .. y.last /\ y.last \in Nat
      BY <1>3, <1>4, <2>1
    <3>3. 0 .. y.last \subseteq Nat
      BY <3>2
    <3> QED
      BY <3>1, <3>2, <3>3
  <2> HIDE DEF A
  <2>4. /\ x \in MediaType /\ x.lease = y.lease /\ x.last = y.last /\ x.lock = y.lock
        /\ x.tokens = y.tokens /\ x.attached = y.attached /\ x.timers = y.timers
        /\ x.sco = y.sco /\ x.aliases = A
    BY <2>2, <2>3 DEF MediaType
  <2>5. GensOK(x, sessions, ready)
    BY <2>1, <2>3, <2>4 DEF MediaOK, GensOK
  <2>6. NewOK(x) /\ OrphansOK(x, sessions, ready)
    BY <2>1, <2>4 DEF MediaOK, NewOK, OrphansOK
  <2> QED
    <3>1. /\ MediaOK(x, sessions, ready) /\ x.lock = m.lock
          /\ x.last = m.last + 1 /\ x.lease.call = call.id /\ s = m.last + 1
          /\ \A i \in DOMAIN m.lock : ~Creates(m.lock[i], s)
      BY <2>1, <2>4, <2>5, <2>6 DEF MediaOK
    <3> HIDE DEF s
    <3>2. s \in Nat /\ s # 0 /\ 0 .. m.last \subseteq 0 .. x.last
      BY <1>3, <3>1
    <3> QED
      BY <3>1, <3>2
<1>6. ASSUME m.lease.gen # 0
      PROVE  /\ MediaOK(x, sessions, ready) /\ x.lock = m.lock /\ s \in Nat /\ s # 0
             /\ x.lease.call = call.id /\ 0 .. m.last \subseteq 0 .. x.last
             /\ \A i \in DOMAIN m.lock : i # 1 => ~Creates(m.lock[i], s)
  <2>1. x = m
    BY <1>6
  <2>2. m.lease.call = call.id
    BY <1>6 DEF LeaseInv, LeaseOfCall
  <2>3. \A i \in DOMAIN m.lock : i # 1 => ~Creates(m.lock[i], m.lease.gen)
    BY <1>1, <1>6, NamedAlone
  <2> QED
    BY <1>3, <1>6, <2>1, <2>2, <2>3
<1> HIDE DEF x
<1>7. /\ MediaOK(x, sessions, ready) /\ x.lock = m.lock /\ s \in Nat /\ s # 0
      /\ x.lease.call = call.id /\ 0 .. m.last \subseteq 0 .. x.last
      /\ \A i \in DOMAIN m.lock : i # 1 => ~Creates(m.lock[i], s)
  BY <1>5, <1>6
<1>8. MediaOK(x, sessions', ready)
  BY <1>1, <1>2, <1>7, MoreSessions
<1>9. /\ MediaOK(c, sessions', ready) /\ c.lease = x.lease /\ c.last = x.last /\ c.lock = m.lock
  BY <1>7, <1>8, SetScoOK
<1> HIDE DEF c
<1>10. s \in 0 .. x.last
  BY <1>7 DEF MediaOK, GensOK, MediaType
<1>11. /\ new \in JobType /\ new.k = Holder.k /\ new.gen = Holder.gen /\ new.s = s
       /\ new.reused = Holder.reused /\ new.drop = {} /\ new.pc = "opening"
  <2> HIDE DEF s
  <2> QED
    BY <1>2, <1>7 DEF JobType, Phases
<1> HIDE DEF new
<1>12. JobOK(new, s, c.last, sessions')
  BY <1>2, <1>4, <1>7, <1>9, <1>10, <1>11 DEF JobOK, StartOK, RemovalOK
<1>13. Head(c.lock) = Holder /\ c.lock # <<>>
  BY <1>2, <1>9 DEF Holder
<1>14. Creates(new, s) => Creates(Holder, s)
  BY <1>11 DEF Creates
<1>15. \A t \in sessions' : t # s /\ Closes(Holder, t) => Closes(new, t)
  BY <1>1, <1>2, <1>3, <1>11 DEF Closes
<1>16. MediaOK(m', sessions', ready) /\ m'.lease = x.lease /\ m'.last = x.last
  BY <1>1, <1>7, <1>9, <1>11, <1>12, <1>13, <1>14, <1>15, SetHeadOK
<1>17. LeaseOfCall'
  BY <1>1, <1>7, <1>16 DEF LeaseOfCall
<1> QED
  BY <1>1, <1>3, <1>7, <1>16, <1>17 DEF LeaseInv, LinkType

LEMMA StartRefusedStep ==
  ASSUME LeaseInv, StartRefused
  PROVE  LeaseInv'
<1>1. /\ Starting /\ m' = Abort(m, Holder) /\ UNCHANGED <<call, sessions, link, ready>>
      /\ m.lease.gen # 0 => ~Named(m, Holder.gen) \/ m.lease.gen \notin sessions
  BY DEF StartRefused
<1>2. /\ m.lock # <<>> /\ Holder = Head(m.lock) /\ Holder.pc = "wait" /\ Holder.s = 0
      /\ Holder.drop = {} /\ Holder.k \in {"acquire", "ensure"}
  BY <1>1, HolderFacts DEF Starting, Holds, Holder
<1>3. MediaOK(m, sessions, ready) /\ link \in LinkType /\ \A s \in sessions : s # 0
  BY MediaFacts
<1>4. \A s \in sessions : s # m.lease.gen => ~Closes(Holder, s)
  BY <1>2, <1>3 DEF Closes
<1>5. Holder.k = "acquire" /\ m.lease.gen = Holder.gen => m.lease.gen \notin sessions
  BY <1>1, <1>3 DEF Named
<1>6. MediaOK(m', sessions, ready) /\ m'.lease \in {m.lease, NoLease} /\ m'.last = m.last
  BY <1>1, <1>2, <1>3, <1>4, <1>5, AbortOK
<1> QED
  BY <1>1, <1>3, <1>6, Kept

Removing(job, D) == [job EXCEPT !.drop = D, !.pc = "removing"]

\* The holder begins to close D, its own sessions among them.
LEMMA RemovalBegins ==
  ASSUME LeaseInv, m.lock # <<>>, Holder.pc = "wait", Holder.k \notin {"acquire", "ensure"},
         NEW D \in SUBSET Nat, Holder.k = "exact" => Holder.gen \in D,
         Holder.k = "cleanup" => sessions \subseteq D
  PROVE  /\ MediaOK(SetHead(m, Removing(Holder, D)), sessions, ready)
         /\ SetHead(m, Removing(Holder, D)).lease = m.lease
         /\ SetHead(m, Removing(Holder, D)).last = m.last
         /\ SetHead(m, Removing(Holder, D)).lock # <<>>
         /\ Head(SetHead(m, Removing(Holder, D)).lock) = Removing(Holder, D)
         /\ \E i \in DOMAIN SetHead(m, Removing(Holder, D)).lock :
               SetHead(m, Removing(Holder, D)).lock[i] = Removing(Holder, D)
         /\ Removing(Holder, D).pc = "removing" /\ Removing(Holder, D).k = Holder.k
         /\ Removing(Holder, D).drop = D /\ Removing(Holder, D).gen = Holder.gen
         /\ Removing(Holder, D).s = 0
<1> DEFINE new == Removing(Holder, D)
<1>1. /\ Holder \in JobType /\ JobOK(Holder, m.lease.gen, m.last, sessions)
      /\ Holder.drop = {} /\ Holder.s = 0 /\ MediaOK(m, sessions, ready)
  BY HolderFacts, MediaFacts
<1>2. /\ new \in JobType /\ new.k = Holder.k /\ new.gen = Holder.gen /\ new.s = Holder.s
      /\ new.reused = Holder.reused /\ new.drop = D /\ new.pc = "removing"
  BY <1>1 DEF JobType, Phases, Removing
<1> HIDE DEF new
<1>3. JobOK(new, m.lease.gen, m.last, sessions)
  BY <1>1, <1>2 DEF JobOK, StartOK, RemovalOK
<1>4. /\ Creates(new, m.lease.gen) => Creates(Head(m.lock), m.lease.gen)
      /\ Names(new, m.lease.gen) => Names(Head(m.lock), m.lease.gen)
  BY <1>2 DEF Creates, Names, Holder
<1>5. \A t \in sessions : t # m.lease.gen /\ Closes(Head(m.lock), t) => Closes(new, t)
  BY <1>1, <1>2 DEF Closes, Holder
<1>6. /\ MediaOK(SetHead(m, new), sessions, ready)
      /\ SetHead(m, new).lease = m.lease /\ SetHead(m, new).last = m.last
      /\ SetHead(m, new).lock # <<>> /\ Head(SetHead(m, new).lock) = new
      /\ \E i \in DOMAIN SetHead(m, new).lock : SetHead(m, new).lock[i] = new
  BY <1>1, <1>2, <1>3, <1>4, <1>5, SetHeadOK
<1> QED
  BY <1>1, <1>2, <1>6 DEF new

LEMMA ReleaseStartsStep ==
  ASSUME LeaseInv, ReleaseStarts
  PROVE  LeaseInv'
<1> DEFINE job == Removing(Holder, {Holder.gen})
           x == SetHead(m, job)
<1>1. /\ Holds({"release", "reclaim"}, "wait") /\ UNCHANGED <<call, sessions, link, ready>>
      /\ IF m.lease.gen # Holder.gen THEN m' = Unlock(m)
         ELSE IF Holder.gen \in sessions THEN m' = DetachLease(x)
         ELSE m' = Unlock(Refresh(DetachLease(x), Up))
  <2>1. Holder \in JobType
    BY HolderFacts DEF ReleaseStarts, Holds
  <2>2. job.gen = Holder.gen
    BY <2>1 DEF JobType, Removing
  <2> QED
    BY <2>2 DEF ReleaseStarts, Releases, Removing
<1>2. /\ m.lock # <<>> /\ Holder = Head(m.lock) /\ Holder.pc = "wait" /\ Holder.s = 0
      /\ Holder.drop = {} /\ Holder.k \in {"release", "reclaim"} /\ Holder \in JobType
  BY <1>1, HolderFacts DEF Holds, Holder
<1>3. /\ MediaOK(m, sessions, ready) /\ link \in LinkType
      /\ \A s \in sessions : s # 0
  BY MediaFacts
<1>4. \A s \in sessions : ~Closes(Holder, s)
  BY <1>2, <1>3 DEF Closes
<1>5. CASE m.lease.gen # Holder.gen
  <2>1. MediaOK(m', sessions, ready) /\ m'.lease = m.lease /\ m'.last = m.last
    BY <1>1, <1>2, <1>3, <1>4, <1>5, UnlockOK
  <2> QED
    BY <1>1, <1>3, <2>1, Kept
<1>6. CASE m.lease.gen = Holder.gen
  <2>1. {Holder.gen} \in SUBSET Nat
    BY <1>2 DEF JobType
  <2>2. /\ MediaOK(x, sessions, ready) /\ x.lease = m.lease /\ x.last = m.last
        /\ x.lock # <<>> /\ Head(x.lock) = job
        /\ \E i \in DOMAIN x.lock : x.lock[i] = job
        /\ job.pc = "removing" /\ job.k = Holder.k /\ job.drop = {Holder.gen}
        /\ job.gen = Holder.gen /\ job.s = 0
    <3>1. /\ Holder.k \notin {"acquire", "ensure"} /\ Holder.k # "exact" /\ Holder.k # "cleanup"
      BY <1>2
    <3> DEFINE D == {Holder.gen}
    <3> HIDE DEF D
    <3>2. /\ MediaOK(SetHead(m, Removing(Holder, D)), sessions, ready)
          /\ SetHead(m, Removing(Holder, D)).lease = m.lease
          /\ SetHead(m, Removing(Holder, D)).last = m.last
          /\ SetHead(m, Removing(Holder, D)).lock # <<>>
          /\ Head(SetHead(m, Removing(Holder, D)).lock) = Removing(Holder, D)
          /\ \E i \in DOMAIN SetHead(m, Removing(Holder, D)).lock :
                SetHead(m, Removing(Holder, D)).lock[i] = Removing(Holder, D)
          /\ Removing(Holder, D).pc = "removing" /\ Removing(Holder, D).k = Holder.k
          /\ Removing(Holder, D).drop = D /\ Removing(Holder, D).gen = Holder.gen
          /\ Removing(Holder, D).s = 0
      <4>1. D \in SUBSET Nat
        BY <2>1 DEF D
      <4> QED
        BY <1>2, <3>1, <4>1, RemovalBegins
    <3> QED
      BY <3>2 DEF D
  <2> HIDE DEF x, job
  <2>3. Closes(job, x.lease.gen)
    BY <1>6, <2>2 DEF Closes
  <2>4. Scheduled(x.lock, ready, x.lease.gen)
    BY <2>2, <2>3 DEF Scheduled
  <2> DEFINE d == DetachLease(x)
  <2>5. /\ MediaOK(d, sessions, ready) /\ d.lease = NoLease /\ d.last = x.last
        /\ d.lock # <<>> /\ Head(d.lock) = job
    BY <2>2, <2>4, DetachLeaseOK
  <2>6. CASE Holder.gen \in sessions
    BY <1>1, <1>3, <1>6, <2>2, <2>5, <2>6, Kept
  <2>7. CASE Holder.gen \notin sessions
    <3> DEFINE f == Refresh(d, Up)
    <3>1. m' = Unlock(f)
      BY <1>1, <1>6, <2>7
    <3> HIDE DEF d
    <3>2. MediaOK(f, sessions, ready) /\ f.lease = d.lease /\ f.last = d.last /\ f.lock = d.lock
      BY <2>5, RefreshOK
    <3> HIDE DEF f
    <3>4. \A s \in sessions : ~Closes(job, s)
      BY <1>2, <1>3, <2>2, <2>7 DEF Closes
    <3>3. f.lock # <<>> /\ Head(f.lock) = job /\ f.lease = NoLease /\ f.last = m.last
      BY <2>2, <2>5, <3>2
    <3>5. MediaOK(m', sessions, ready) /\ m'.lease = NoLease /\ m'.last = m.last
      BY <3>1, <3>2, <3>3, <3>4, UnlockOK
    <3> QED
      BY <1>1, <1>3, <3>5, Kept
  <2> QED
    BY <2>6, <2>7
<1> QED
  BY <1>5, <1>6

LEMMA ExactStartsStep ==
  ASSUME LeaseInv, ExactStarts
  PROVE  LeaseInv'
<1> DEFINE D == {Holder.gen}
<1>1. /\ Holds({"exact"}, "wait") /\ UNCHANGED <<call, sessions, link, ready>>
      /\ IF Holder.gen \in sessions THEN m' = SetHead(m, Removing(Holder, D))
         ELSE m' = Unlock(Refresh(m, Up))
  BY DEF ExactStarts, Removing
<1>2. /\ m.lock # <<>> /\ Holder = Head(m.lock) /\ Holder.pc = "wait" /\ Holder.s = 0
      /\ Holder.drop = {} /\ Holder.k = "exact" /\ Holder \in JobType
  BY <1>1, HolderFacts DEF Holds, Holder
<1>3. MediaOK(m, sessions, ready) /\ link \in LinkType /\ \A s \in sessions : s # 0
  BY MediaFacts
<1>4. D \in SUBSET Nat /\ Holder.gen \in D
  BY <1>2 DEF JobType
<1> HIDE DEF D
<1>5. CASE Holder.gen \in sessions
  <2>1. MediaOK(m', sessions, ready) /\ m'.lease = m.lease /\ m'.last = m.last
    BY <1>1, <1>2, <1>4, <1>5, RemovalBegins
  <2> QED
    BY <1>1, <1>3, <2>1, Kept
<1>6. CASE Holder.gen \notin sessions
  <2> DEFINE f == Refresh(m, Up)
  <2>1. MediaOK(f, sessions, ready) /\ f.lease = m.lease /\ f.last = m.last /\ f.lock = m.lock
    BY <1>3, RefreshOK
  <2>2. m' = Unlock(f)
    BY <1>1, <1>6
  <2> HIDE DEF f
  <2>3. \A s \in sessions : ~Closes(Holder, s)
    BY <1>2, <1>3, <1>6 DEF Closes
  <2>4. f.lock # <<>> /\ Head(f.lock) = Holder
    BY <1>2, <2>1
  <2>5. MediaOK(m', sessions, ready) /\ m'.lease = m.lease /\ m'.last = m.last
    BY <2>1, <2>2, <2>3, <2>4, UnlockOK
  <2> QED
    BY <1>1, <1>3, <2>5, Kept
<1> QED
  BY <1>5, <1>6

LEMMA StopStartsStep ==
  ASSUME LeaseInv, StopStarts
  PROVE  LeaseInv'
<1> DEFINE D == {m.lease.gen}
           x == SetHead(m, Removing(Holder, D))
<1>1. /\ Holds({"stop"}, "wait") /\ UNCHANGED <<call, sessions, link, ready>>
      /\ m' = DetachLease(x) \/ m' = Unlock(m)
  BY DEF StopStarts, Removing
<1>2. /\ m.lock # <<>> /\ Holder = Head(m.lock) /\ Holder.pc = "wait" /\ Holder.s = 0
      /\ Holder.drop = {} /\ Holder.k = "stop"
  BY <1>1, HolderFacts DEF Holds, Holder
<1>3. /\ MediaOK(m, sessions, ready) /\ link \in LinkType /\ m.lease.gen \in Nat
      /\ \A s \in sessions : s # 0
  BY MediaFacts
<1>4. CASE m' = DetachLease(x)
  <2>1. D \in SUBSET Nat /\ m.lease.gen \in D
    BY <1>3
  <2> HIDE DEF D
  <2>2. /\ MediaOK(x, sessions, ready) /\ x.lease = m.lease /\ x.last = m.last
        /\ \E i \in DOMAIN x.lock : x.lock[i] = Removing(Holder, D)
        /\ Removing(Holder, D).drop = D
    BY <1>2, <2>1, RemovalBegins
  <2> HIDE DEF x
  <2>3. Closes(Removing(Holder, D), x.lease.gen)
    BY <2>1, <2>2 DEF Closes
  <2>4. Scheduled(x.lock, ready, x.lease.gen)
    BY <2>2, <2>3 DEF Scheduled
  <2>5. MediaOK(m', sessions, ready) /\ m'.lease = NoLease /\ m'.last = m.last
    BY <1>4, <2>2, <2>4, DetachLeaseOK
  <2> QED
    BY <1>1, <1>3, <2>5, Kept
<1>5. CASE m' = Unlock(m)
  <2>1. \A s \in sessions : ~Closes(Holder, s)
    BY <1>2, <1>3 DEF Closes
  <2>2. MediaOK(m', sessions, ready) /\ m'.lease = m.lease /\ m'.last = m.last
    BY <1>2, <1>3, <1>5, <2>1, UnlockOK
  <2> QED
    BY <1>1, <1>3, <2>2, Kept
<1> QED
  BY <1>1, <1>4, <1>5

LEMMA CleanupStartsStep ==
  ASSUME LeaseInv, CleanupStarts
  PROVE  LeaseInv'
<1> DEFINE x == SetHead(m, Removing(Holder, sessions))
           y == [x EXCEPT !.timers = {}, !.tokens = {}, !.attached = {},
                          !.lease = NoLease, !.aliases = {}]
           C == {Job("reclaim", "timer", g) : g \in 1 .. y.last}
           q == Without(y.lock, C)
<1>1. /\ Holds({"cleanup"}, "wait") /\ UNCHANGED <<call, sessions, link, ready>>
      /\ m' = [y EXCEPT !.lock = q]
  BY DEF CleanupStarts, Removing
<1>2. /\ m.lock # <<>> /\ Holder.pc = "wait" /\ Holder.k = "cleanup"
      /\ Holder.k \notin {"acquire", "ensure"}
  BY <1>1 DEF Holds
<1>3. link \in LinkType /\ sessions \in SUBSET Nat
  BY MediaFacts DEF MediaOK
<1>4. /\ MediaOK(x, sessions, ready) /\ x.last = m.last
      /\ \E i \in DOMAIN x.lock : x.lock[i] = Removing(Holder, sessions)
      /\ Removing(Holder, sessions).drop = sessions
  BY <1>2, <1>3, RemovalBegins
<1> HIDE DEF x
<1>5. x \in MediaType /\ x.sco.stream \in 0 .. x.last
  BY <1>4 DEF MediaOK, GensOK
<1>6. NoLease \in LeaseType
  BY CallsAssumption DEF NoLease, LeaseType
<1>7. /\ y \in MediaType
      /\ y.lease = NoLease /\ y.last = x.last /\ y.lock = x.lock /\ y.sco = x.sco
      /\ y.tokens = {} /\ y.attached = {} /\ y.aliases = {} /\ y.timers = {}
  BY <1>5, <1>6 DEF MediaType
<1> HIDE DEF y
<1>8. \A s \in sessions : Closes(Removing(Holder, sessions), s)
  BY <1>4 DEF Closes
<1>9. MediaOK(y, sessions, ready)
  <2>1. x.lease.gen \in sessions => Scheduled(x.lock, ready, x.lease.gen)
    BY <1>4, <1>8 DEF Scheduled
  <2>2. y.aliases \subseteq x.aliases /\ y.timers \subseteq 0 .. x.last
        /\ y.tokens \cup y.attached = {} /\ y.sco.stream \in 0 .. x.last
    BY <1>5, <1>7
  <2> QED
    BY <1>4, <1>7, <2>1, <2>2, LeaseEnds
<1>10. \A job \in C : Waits(job) /\ job.k = "reclaim"
  BY DEF Job, Waits
<1> HIDE DEF C
<1>11. y.lock \in Seq(JobType) /\ LockOK(y.lock, y.lease.gen, y.last, sessions)
  BY <1>7, <1>9 DEF MediaOK, MediaType
<1>12. /\ q \in Seq(JobType) /\ LockOK(q, y.lease.gen, y.last, sessions)
       /\ Covers(y.lock, q) /\ From(q, y.lock)
  BY <1>10, <1>11, ReclaimsCancelled
<1> HIDE DEF q
<1>13. \A s \in sessions : s \in Nat /\ s # 0
  BY MediaFacts
<1>14. MediaOK([y EXCEPT !.lock = q], sessions, ready)
  <2>1. \A i \in DOMAIN q : \E j \in DOMAIN y.lock : y.lock[j] = q[i]
    BY <1>12 DEF From
  <2>2. \A i \in DOMAIN q : Creates(q[i], y.lease.gen) =>
           \E j \in DOMAIN y.lock : Creates(y.lock[j], y.lease.gen)
    BY <2>1
  <2>3. \A s \in sessions : \/ \E i \in DOMAIN q : Closes(q[i], s)
                            \/ ~\E i \in DOMAIN y.lock : Closes(y.lock[i], s)
    BY <1>12, <1>13 DEF Covers
  <2> QED
    BY <1>9, <1>12, <2>2, <2>3, LockMoves
<1>15. [y EXCEPT !.lock = q].lease = NoLease /\ [y EXCEPT !.lock = q].last = m.last
  BY <1>4, <1>7 DEF MediaType
<1> QED
  BY <1>1, <1>3, <1>14, <1>15, Kept

\* One callback after the other.
LEMMA PostedInTurn ==
  ASSUME NEW T, NEW R \in Seq(T), NEW a \in T, NEW b \in T
  PROVE  /\ R \o <<a>> = Append(R, a)
         /\ R \o <<a, b>> = Append(Append(R, a), b)
         /\ R \o <<>> = R
<1> DEFINE s == <<a>>
           t == <<a, b>>
<1>1. /\ s \in Seq(T) /\ Len(s) = 1 /\ s[1] = a
      /\ t \in Seq(T) /\ Len(t) = 2 /\ t[1] = a /\ t[2] = b
  OBVIOUS
<1> HIDE DEF s, t
<1>2. \A u \in Seq(T) : /\ R \o u \in Seq(T) /\ Len(R \o u) = Len(R) + Len(u)
                        /\ \A i \in 1..(Len(R) + Len(u)) :
                              (R \o u)[i] = IF i <= Len(R) THEN R[i] ELSE u[i - Len(R)]
  OBVIOUS
<1>3. \A u, v \in Seq(T) : Len(u) = Len(v) /\ (\A i \in 1..Len(u) : u[i] = v[i]) => u = v
  OBVIOUS
<1>4. Len(R) \in Nat
  OBVIOUS
<1>5. R \o s = Append(R, a)
  <2>1. /\ Append(R, a) \in Seq(T) /\ Len(Append(R, a)) = Len(R) + 1
        /\ \A i \in 1..Len(R) : Append(R, a)[i] = R[i]
        /\ Append(R, a)[Len(R) + 1] = a
    OBVIOUS
  <2> DEFINE p == R \o s
             q == Append(R, a)
  <2>2. /\ p \in Seq(T) /\ Len(p) = Len(R) + 1
        /\ \A i \in 1..Len(R) : p[i] = R[i]
        /\ p[Len(R) + 1] = a
    <3>1. /\ s \in Seq(T) /\ Len(s) = 1 /\ s[1] = a /\ Len(R) \in Nat
          /\ p \in Seq(T) /\ Len(p) = Len(R) + Len(s)
          /\ \A i \in 1..(Len(R) + Len(s)) : p[i] = IF i <= Len(R) THEN R[i] ELSE s[i - Len(R)]
      BY <1>1, <1>2, <1>4
    <3> HIDE DEF p
    <3> QED
      BY <3>1
  <2> HIDE DEF p, q
  <2>3. \A i \in 1..(Len(R) + 1) : i \in 1..Len(R) \/ i = Len(R) + 1
    BY <1>4
  <2>4. p = q
    BY <1>3, <1>4, <2>1, <2>2, <2>3 DEF q
  <2> QED
    BY <2>4 DEF p, q
<1>6. R \o t = Append(Append(R, a), b)
  <2> DEFINE p == R \o t
             q == Append(Append(R, a), b)
  <2>1. /\ q \in Seq(T) /\ Len(q) = Len(R) + 2
        /\ \A i \in 1..Len(R) : q[i] = R[i]
        /\ q[Len(R) + 1] = a /\ q[Len(R) + 2] = b
    OBVIOUS
  <2>2. /\ p \in Seq(T) /\ Len(p) = Len(R) + 2
        /\ \A i \in 1..Len(R) : p[i] = R[i]
        /\ p[Len(R) + 1] = a /\ p[Len(R) + 2] = b
    <3>1. /\ t \in Seq(T) /\ Len(t) = 2 /\ t[1] = a /\ t[2] = b /\ Len(R) \in Nat
          /\ p \in Seq(T) /\ Len(p) = Len(R) + Len(t)
          /\ \A i \in 1..(Len(R) + Len(t)) : p[i] = IF i <= Len(R) THEN R[i] ELSE t[i - Len(R)]
      BY <1>1, <1>2, <1>4
    <3> HIDE DEF p
    <3> QED
      BY <3>1
  <2> HIDE DEF p, q
  <2>3. \A i \in 1..(Len(R) + 2) : i \in 1..Len(R) \/ i = Len(R) + 1 \/ i = Len(R) + 2
    BY <1>4
  <2>4. p = q
    BY <1>3, <1>4, <2>1, <2>2, <2>3
  <2> QED
    BY <2>4 DEF p, q
<1>7. R \o <<>> = R
  OBVIOUS
<1> QED
  BY <1>5, <1>6, <1>7 DEF s, t

LEMMA PostTypes ==
  /\ \A st \in HealthStates : Health(st) \in PostType /\ Health(st).gen = 0
  /\ \A b \in BOOLEAN : Resume(b) \in PostType /\ Resume(b).gen = 0
  /\ \A k \in {"attached", "detached", "cleanup"}, g \in Nat :
        Posted(k, g) \in PostType /\ Posted(k, g).gen = g /\ Posted(k, g).k = k
<1>1. \A st \in HealthStates : Health(st) \in PostType /\ Health(st).gen = 0
  BY DEF Health, PostType
<1>2. \A b \in BOOLEAN : Resume(b) \in PostType /\ Resume(b).gen = 0
  BY DEF Resume, PostType
<1>3. \A k \in {"attached", "detached", "cleanup"}, g \in Nat :
        Posted(k, g) \in PostType /\ Posted(k, g).gen = g /\ Posted(k, g).k = k
  BY DEF Posted, PostType
<1> QED
  BY <1>1, <1>2, <1>3

\* The holder that opens its session goes on.
LEMMA AdvanceOK ==
  ASSUME LeaseInv, m.lock # <<>>, Holder.k \in {"acquire", "ensure"},
         Holder.pc \in {"opening", "connecting"}, NEW pc \in {"connecting", "opened"}, Advance(pc)
  PROVE  MediaOK(m', sessions, ready) /\ m'.lease = m.lease /\ m'.last = m.last
<1> DEFINE new == [Holder EXCEPT !.pc = pc]
<1>1. /\ MediaOK(m, sessions, ready) /\ m' = SetHead(m, new) /\ Holder = Head(m.lock)
      /\ Holder \in JobType /\ JobOK(Holder, m.lease.gen, m.last, sessions)
  BY HolderFacts, MediaFacts DEF Advance, Holder
<1>2. /\ new \in JobType /\ new.k = Holder.k /\ new.gen = Holder.gen /\ new.s = Holder.s
      /\ new.reused = Holder.reused /\ new.drop = Holder.drop /\ new.pc = pc
  BY <1>1 DEF JobType, Phases
<1> HIDE DEF new
<1>3. JobOK(new, m.lease.gen, m.last, sessions)
  BY <1>1, <1>2 DEF JobOK, StartOK, RemovalOK
<1>4. /\ Creates(new, m.lease.gen) => Creates(Holder, m.lease.gen)
      /\ Names(new, m.lease.gen) => Names(Holder, m.lease.gen)
  BY <1>2 DEF Creates, Names
<1>5. \A t \in sessions : t # m.lease.gen /\ Closes(Holder, t) => Closes(new, t)
  BY <1>2 DEF Closes
<1> QED
  BY <1>1, <1>2, <1>3, <1>4, <1>5, SetHeadOK

LEMMA LinkJoinsStep ==
  ASSUME LeaseInv, LinkJoins
  PROVE  LeaseInv'
<1>1. /\ Holds({"acquire", "ensure"}, "opening") /\ UNCHANGED <<call, sessions>>
      /\ link' = [link EXCEPT !.users = link.users \cup {Holder.s}]
      /\ ready' = Append(ready, Resume(TRUE)) /\ Advance("opened")
  BY DEF LinkJoins
<1>2. /\ m.lock # <<>> /\ Holder.pc = "opening" /\ Holder.k \in {"acquire", "ensure"}
      /\ Holder.s \in 0 .. m.last
  BY <1>1, HolderFacts DEF Holds, JobOK
<1>3. MediaOK(m', sessions, ready) /\ m'.lease = m.lease /\ m'.last = m.last
  BY <1>1, <1>2, AdvanceOK
<1>4. link \in LinkType /\ 0 \in 0 .. m.last
  BY MediaFacts
<1>5. link' \in LinkType
  BY <1>1, <1>2, <1>4 DEF LinkType
<1>6. MediaOK(m', sessions, ready')
  <2>1. Resume(TRUE) \in PostType /\ Resume(TRUE).gen \in 0 .. m'.last
    BY <1>3, <1>4, PostTypes
  <2> QED
    BY <1>1, <1>3, <2>1, PostedOK
<1> QED
  BY <1>1, <1>3, <1>5, <1>6, Kept

LEMMA LinkConnectsStep ==
  ASSUME LeaseInv, LinkConnects
  PROVE  LeaseInv'
<1>1. /\ Holds({"acquire", "ensure"}, "opening") /\ UNCHANGED <<call, sessions>>
      /\ link' = [st |-> "connecting", users |-> link.users \cup {Holder.s}]
      /\ ready' = Append(ready, Health("connecting")) /\ Advance("connecting")
  BY DEF LinkConnects
<1>2. /\ m.lock # <<>> /\ Holder.pc = "opening" /\ Holder.k \in {"acquire", "ensure"}
      /\ Holder.s \in 0 .. m.last
  BY <1>1, HolderFacts DEF Holds, JobOK
<1>3. MediaOK(m', sessions, ready) /\ m'.lease = m.lease /\ m'.last = m.last
  BY <1>1, <1>2, AdvanceOK
<1>4. link \in LinkType /\ 0 \in 0 .. m.last /\ "connecting" \in HealthStates
  BY MediaFacts DEF HealthStates
<1>5. link' \in LinkType
  BY <1>1, <1>2, <1>4 DEF LinkType
<1>6. MediaOK(m', sessions, ready')
  BY <1>1, <1>3, <1>4, PostTypes, PostedOK
<1> QED
  BY <1>1, <1>3, <1>5, <1>6, Kept

\* The end of the connection: two callbacks, the health of the link and the holder's.
LEMMA Reports ==
  ASSUME LeaseInv, Holds({"acquire", "ensure"}, "connecting"), UNCHANGED <<call, sessions>>,
         NEW st \in HealthStates, NEW b \in BOOLEAN, link' \in LinkType,
         ready' = ready \o <<Health(st), Resume(b)>>, Advance("opened")
  PROVE  LeaseInv'
<1>1. /\ m.lock # <<>> /\ Holder.pc = "connecting" /\ Holder.k \in {"acquire", "ensure"}
  BY DEF Holds
<1>2. MediaOK(m', sessions, ready) /\ m'.lease = m.lease /\ m'.last = m.last
  BY <1>1, AdvanceOK
<1>3. ready \in Seq(PostType) /\ 0 \in 0 .. m.last
  BY MediaFacts DEF MediaOK
<1>4. /\ Health(st) \in PostType /\ Health(st).gen = 0
      /\ Resume(b) \in PostType /\ Resume(b).gen = 0
  BY PostTypes
<1>5. ready' = Append(Append(ready, Health(st)), Resume(b))
  BY <1>3, <1>4, PostedInTurn
<1>6. MediaOK(m', sessions, Append(ready, Health(st)))
  BY <1>2, <1>3, <1>4, PostedOK
<1>7. MediaOK(m', sessions, ready')
  <2> DEFINE u == Append(ready, Health(st))
             p == Resume(b)
  <2>1. MediaOK(m', sessions, u) /\ ready' = Append(u, p)
    BY <1>5, <1>6
  <2>2. p \in PostType /\ p.gen \in 0 .. m'.last
    BY <1>2, <1>3, <1>4
  <2> HIDE DEF u, p
  <2>3. MediaOK(m', sessions, Append(u, p))
    BY <2>1, <2>2, PostedOK
  <2> QED
    BY <2>1, <2>3
<1> QED
  BY <1>2, <1>7, Kept

LEMMA LinkUpStep ==
  ASSUME LeaseInv, LinkUp
  PROVE  LeaseInv'
<1>1. /\ Holds({"acquire", "ensure"}, "connecting") /\ UNCHANGED <<call, sessions>>
      /\ link' = [link EXCEPT !.st = "up"]
      /\ ready' = ready \o <<Health("connected"), Resume(TRUE)>> /\ Advance("opened")
  BY DEF LinkUp
<1>2. link' \in LinkType
  BY <1>1, MediaFacts DEF LinkType
<1> QED
  BY <1>1, <1>2, Reports DEF HealthStates

LEMMA LinkFailsStep ==
  ASSUME LeaseInv, LinkFails
  PROVE  LeaseInv'
<1>1. /\ Holds({"acquire", "ensure"}, "connecting") /\ UNCHANGED <<call, sessions>>
      /\ link' = [st |-> "failed", users |-> link.users \ {Holder.s}]
      /\ ready' = ready \o <<Health("failed"), Resume(FALSE)>> /\ Advance("opened")
  BY DEF LinkFails
<1>2. link' \in LinkType
  BY <1>1, MediaFacts DEF LinkType
<1> QED
  BY <1>1, <1>2, Reports DEF HealthStates

LEMMA BridgeFailsStep ==
  ASSUME LeaseInv, BridgeFails
  PROVE  LeaseInv'
<1>1. /\ UNCHANGED <<call, m, sessions>> /\ link' = [link EXCEPT !.st = "failed"]
      /\ ready' = Append(ready, Health("failed"))
  BY DEF BridgeFails
<1>2. MediaOK(m, sessions, ready) /\ link \in LinkType /\ 0 \in 0 .. m.last
  BY MediaFacts
<1>3. link' \in LinkType
  BY <1>1, <1>2 DEF LinkType
<1>4. Health("failed") \in PostType /\ Health("failed").gen = 0
  BY PostTypes DEF HealthStates
<1>5. MediaOK(m, sessions, ready')
  BY <1>1, <1>2, <1>4, PostedOK
<1> QED
  BY <1>1, <1>3, <1>5, Kept

LEMMA SessionsRemovedStep ==
  ASSUME LeaseInv, SessionsRemoved
  PROVE  LeaseInv'
<1> DEFINE S == sessions \ Holder.drop
           new == [Holder EXCEPT !.pc = "removed"]
           last == link.users # {} /\ link.users \ Holder.drop = {}
<1>1. /\ m.lock # <<>> /\ Holder.pc = "removing" /\ UNCHANGED call
      /\ sessions' = S /\ m' = SetHead(m, new)
      /\ link' = [st |-> IF last THEN "stopped" ELSE link.st, users |-> link.users \ Holder.drop]
      /\ ready' = ready \o (IF last THEN <<Health("stopped")>> ELSE <<>>) \o <<Resume(TRUE)>>
  BY DEF SessionsRemoved, Advance
<1>2. /\ MediaOK(m, sessions, ready) /\ link \in LinkType /\ Holder = Head(m.lock)
      /\ Holder \in JobType /\ JobOK(Holder, m.lease.gen, m.last, sessions)
      /\ 0 \in 0 .. m.last /\ \A s \in sessions : s # 0
  BY <1>1, HolderFacts, MediaFacts DEF Holder
<1>3. MediaOK(m, S, ready)
  BY <1>2, FewerSessions
<1>4. /\ new \in JobType /\ new.k = Holder.k /\ new.gen = Holder.gen /\ new.s = Holder.s
      /\ new.reused = Holder.reused /\ new.drop = Holder.drop /\ new.pc = "removed"
  BY <1>2 DEF JobType, Phases
<1> HIDE DEF new
<1>5. JobOK(new, m.lease.gen, m.last, S)
  BY <1>1, <1>2, <1>4 DEF JobOK, StartOK, RemovalOK
<1>6. /\ Creates(new, m.lease.gen) => Creates(Holder, m.lease.gen)
      /\ Names(new, m.lease.gen) => Names(Holder, m.lease.gen)
  BY <1>4 DEF Creates, Names
<1>7. \A t \in S : t # m.lease.gen /\ Closes(Holder, t) => Closes(new, t)
  <2>1. Holder.s \in {0} \cup Holder.drop
    BY <1>1, <1>2 DEF JobOK, StartOK
  <2> QED
    BY <1>2, <1>4, <2>1 DEF Closes
<1>8. MediaOK(m', S, ready) /\ m'.lease = m.lease /\ m'.last = m.last
  BY <1>1, <1>2, <1>3, <1>4, <1>5, <1>6, <1>7, SetHeadOK
<1>9. link' \in LinkType
  BY <1>1, <1>2 DEF LinkType
<1>10. /\ Health("stopped") \in PostType /\ Health("stopped").gen = 0
       /\ Resume(TRUE) \in PostType /\ Resume(TRUE).gen = 0
  BY PostTypes DEF HealthStates
<1> HIDE DEF S
<1>11. MediaOK(m', S, ready')
  <2>1. ready \in Seq(PostType)
    BY <1>2 DEF MediaOK
  <2> DEFINE u == IF last THEN Append(ready, Health("stopped")) ELSE ready
  <2>2. ready \o (IF last THEN <<Health("stopped")>> ELSE <<>>) = u
    <3>1. CASE last
      BY <1>10, <2>1, <3>1, PostedInTurn
    <3>2. CASE ~last
      BY <1>10, <2>1, <3>2, PostedInTurn
    <3> QED
      BY <3>1, <3>2
  <2>3. MediaOK(m', S, u)
    <3>1. CASE last
      BY <1>2, <1>8, <1>10, <3>1, PostedOK
    <3>2. CASE ~last
      BY <1>8, <3>2
    <3> QED
      BY <3>1, <3>2
  <2>4. u \in Seq(PostType)
    BY <2>3 DEF MediaOK
  <2>5. ready' = u \o <<Resume(TRUE)>>
    BY <1>1, <2>2
  <2> HIDE DEF u
  <2>6. ready' = Append(u, Resume(TRUE))
    BY <1>10, <2>4, <2>5, PostedInTurn
  <2> QED
    BY <1>2, <1>8, <1>10, <2>3, <2>6, PostedOK
<1> QED
  BY <1>1, <1>8, <1>9, <1>11, Kept DEF S

\* A callback that is no cleanup, and leaves the lease alone.
LEMMA CallbackStep ==
  ASSUME LeaseInv, NEW K, "cleanup" \notin K, Callback(K), UNCHANGED <<call, sessions, link>>,
         MediaOK(m', sessions, ready), m'.lease \in {m.lease, NoLease}, m'.last = m.last
  PROVE  LeaseInv'
<1>1. ready # <<>> /\ Head(ready).k # "cleanup" /\ ready' = Tail(ready)
  BY DEF Callback
<1>2. MediaOK(m', sessions, ready')
  BY <1>1, CallbackOK
<1> QED
  BY <1>2, MediaFacts, Kept

LEMMA ApplyHealthOK ==
  ASSUME LeaseInv, NEW st \in HealthStates
  PROVE  /\ MediaOK(ApplyHealth(m, st), sessions, ready)
         /\ ApplyHealth(m, st).lease = m.lease /\ ApplyHealth(m, st).last = m.last
<1> DEFINE carried == Up /\ OfActiveCall(m)
           up      == SetSco(m, "ready", m.lease.gen)
           off     == SetSco(m, IF st = "failed" THEN "failed" ELSE "disconnected", 0)
           down    == SetActive(off, FALSE)
           bare    == [down EXCEPT !.tokens = {}, !.attached = {}]
<1>1. MediaOK(m, sessions, ready) /\ 0 \in 0 .. m.last
  BY MediaFacts
<1>2. MediaOK(up, sessions, ready) /\ up.lease = m.lease /\ up.last = m.last
  BY <1>1, SetScoOK
<1>3. /\ MediaOK(SetActive(up, TRUE), sessions, ready)
      /\ SetActive(up, TRUE).lease = m.lease /\ SetActive(up, TRUE).last = m.last
  <2> HIDE DEF up
  <2> QED
    BY <1>2, SetActiveOK
<1>4. MediaOK(off, sessions, ready) /\ off.lease = m.lease /\ off.last = m.last
  <2>1. (IF st = "failed" THEN "failed" ELSE "disconnected") \in
           {"disconnected", "connecting", "ready", "failed"}
    OBVIOUS
  <2> QED
    BY <1>1, <2>1, SetScoOK
<1>5. MediaOK(down, sessions, ready) /\ down.lease = m.lease /\ down.last = m.last
  <2> HIDE DEF off
  <2> QED
    BY <1>4, SetActiveOK
<1> HIDE DEF down
<1>6. MediaOK(bare, sessions, ready) /\ bare.lease = m.lease /\ bare.last = m.last
  <2>1. /\ down \in MediaType /\ down.sco.stream \in 0 .. down.last
        /\ down.timers \subseteq 0 .. down.last
    BY <1>5 DEF MediaOK, GensOK
  <2>2. /\ bare \in MediaType
        /\ bare.lease = down.lease /\ bare.last = down.last /\ bare.lock = down.lock
        /\ bare.sco = down.sco /\ bare.aliases = down.aliases /\ bare.timers = down.timers
        /\ bare.tokens = {} /\ bare.attached = {}
    BY <2>1 DEF MediaType
  <2> HIDE DEF bare
  <2>3. MediaOK(bare, sessions, ready)
    <3>1. /\ bare.aliases \subseteq down.aliases /\ bare.timers \subseteq 0 .. down.last
          /\ bare.tokens \cup bare.attached \subseteq {down.lease.gen} \ {0}
          /\ bare.sco.stream \in 0 .. down.last
          /\ bare.tokens \cup bare.attached \subseteq down.tokens \cup down.attached
      BY <2>1, <2>2
    <3> QED
      BY <1>5, <2>2, <3>1, Aside
  <2> QED
    BY <1>5, <2>2, <2>3
<1> HIDE DEF bare
<1> DEFINE e == Enqueue(bare, Job("cleanup", "health", 0))
<1>7. MediaOK(e, sessions, ready) /\ e.lease = m.lease /\ e.last = m.last
  <2>1. "cleanup" \in Kinds \ {"acquire"} /\ "cleanup" # "ensure"
    BY DEF Kinds
  <2> QED
    BY <1>1, <1>6, <2>1, JobJoins
<1>8. ApplyHealth(m, st) \in {m, up, SetActive(up, TRUE), down, e}
  BY DEF ApplyHealth, down, bare
<1> HIDE DEF e, up
<1> QED
  BY <1>1, <1>2, <1>3, <1>5, <1>7, <1>8

LEMMA LinkHealthStep ==
  ASSUME LeaseInv, LinkHealth
  PROVE  LeaseInv'
<1>1. /\ Callback(HealthStates) /\ UNCHANGED <<call, sessions, link>>
      /\ m' = ApplyHealth(m, Head(ready).k)
  BY DEF LinkHealth
<1>2. Head(ready).k \in HealthStates
  BY <1>1 DEF Callback
<1>3. MediaOK(m', sessions, ready) /\ m'.lease = m.lease /\ m'.last = m.last
  BY <1>1, <1>2, ApplyHealthOK
<1>4. "cleanup" \notin HealthStates
  BY DEF HealthStates
<1> QED
  BY <1>1, <1>3, <1>4, CallbackStep

\* HFPState's note that the stream's client is, or is not, there.
LEMMA NotedOK ==
  ASSUME LeaseInv, NEW b \in BOOLEAN
  PROVE  /\ MediaOK([m EXCEPT !.sco.attached = b], sessions, ready)
         /\ [m EXCEPT !.sco.attached = b].lease = m.lease
         /\ [m EXCEPT !.sco.attached = b].last = m.last
<1> DEFINE c == [st |-> m.sco.st, stream |-> m.sco.stream, attached |-> b,
                 active |-> m.sco.active]
           y == [m EXCEPT !.sco.attached = b]
<1>1. /\ MediaOK(m, sessions, ready) /\ m \in MediaType /\ m.sco \in ScoType
  BY MediaFacts DEF MediaType
<1>2. c \in ScoType /\ c.stream = m.sco.stream
  BY <1>1 DEF ScoType
<1>3. y = [m EXCEPT !.sco = c]
  BY <1>1 DEF ScoType, MediaType
<1> HIDE DEF c, y
<1>4. /\ y \in MediaType
      /\ y.lease = m.lease /\ y.last = m.last /\ y.aliases = m.aliases /\ y.timers = m.timers
      /\ y.tokens = m.tokens /\ y.attached = m.attached /\ y.lock = m.lock /\ y.sco = c
  BY <1>1, <1>2, <1>3 DEF MediaType
<1>5. /\ m.sco.stream \in 0 .. m.last /\ m.timers \subseteq 0 .. m.last
      /\ m.tokens \cup m.attached \subseteq {m.lease.gen} \ {0}
  BY <1>1 DEF MediaOK, GensOK
<1>6. MediaOK(y, sessions, ready)
  BY <1>1, <1>2, <1>4, <1>5, Aside
<1> QED
  BY <1>4, <1>6 DEF y

LEMMA ClientConnectedStep ==
  ASSUME LeaseInv, ClientConnected
  PROVE  LeaseInv'
<1> DEFINE g == Head(ready).gen
           x == IF g = m.sco.stream THEN [m EXCEPT !.sco.attached = TRUE] ELSE m
<1>1. /\ Callback({"attached"}) /\ UNCHANGED <<call, sessions, link>>
      /\ m' \in {CancelReclaim(x, g), m}
  BY DEF ClientConnected
<1>2. MediaOK(m, sessions, ready)
  BY MediaFacts
<1>3. MediaOK(x, sessions, ready) /\ x.lease = m.lease /\ x.last = m.last
  BY <1>2, NotedOK
<1> HIDE DEF x, g
<1>4. x \in MediaType
  BY <1>3 DEF MediaOK
<1>5. MediaOK(m', sessions, ready) /\ m'.lease = m.lease /\ m'.last = m.last
  <2>1. MediaOK(CancelReclaim(x, g), sessions, ready)
    BY <1>3, CancelReclaimOK
  <2>2. CancelReclaim(x, g).lease = x.lease /\ CancelReclaim(x, g).last = x.last
    BY <1>4, CancelReclaimFields
  <2> QED
    BY <1>1, <1>2, <1>3, <2>1, <2>2
<1>6. "cleanup" \notin {"attached"}
  OBVIOUS
<1> QED
  BY <1>1, <1>5, <1>6, CallbackStep

LEMMA ClientDisconnectedStep ==
  ASSUME LeaseInv, ClientDisconnected
  PROVE  LeaseInv'
<1> DEFINE g == Head(ready).gen
           x == IF g = m.sco.stream THEN [m EXCEPT !.sco.attached = FALSE] ELSE m
<1>1. /\ Callback({"detached"}) /\ UNCHANGED <<call, sessions, link>>
      /\ m' \in {ArmReclaim(x), m}
  BY DEF ClientDisconnected
<1>2. MediaOK(m, sessions, ready)
  BY MediaFacts
<1>3. MediaOK(x, sessions, ready) /\ x.lease = m.lease /\ x.last = m.last
  BY <1>2, NotedOK
<1> HIDE DEF x, g
<1>4. MediaOK(m', sessions, ready) /\ m'.lease = m.lease /\ m'.last = m.last
  BY <1>1, <1>2, <1>3, ArmReclaimOK
<1>5. "cleanup" \notin {"detached"}
  OBVIOUS
<1> QED
  BY <1>1, <1>4, <1>5, CallbackStep

LEMMA CleanupTaskStep ==
  ASSUME LeaseInv, CleanupTask
  PROVE  LeaseInv'
<1> DEFINE g == Head(ready).gen
           e == Job("exact", "call", g)
<1>1. /\ ready # <<>> /\ ready' = Tail(ready) /\ UNCHANGED <<call, sessions, link>>
      /\ m' = Enqueue(m, e)
  BY DEF CleanupTask, Callback
<1>2. MediaOK(m, sessions, ready) /\ link \in LinkType
  BY MediaFacts
<1>3. g \in 0 .. m.last
  BY <1>1, <1>2, NextCallback
<1>4. "exact" \in Kinds \ {"acquire"} /\ "exact" # "ensure"
  BY DEF Kinds
<1>5. e.k = "exact" /\ e.gen = g
  BY DEF Job
<1> HIDE DEF g
<1>6. /\ MediaOK(m', sessions, ready) /\ m'.lease = m.lease /\ m'.last = m.last
      /\ \E i \in DOMAIN m'.lock : m'.lock[i] = e
  BY <1>1, <1>2, <1>3, <1>4, JobJoins
<1>7. Closes(e, g)
  BY <1>5 DEF Closes
<1>8. MediaOK(m', sessions, ready')
  BY <1>1, <1>6, <1>7, CallbackOK DEF g
<1> QED
  BY <1>1, <1>2, <1>6, <1>8, Kept

LEMMA OpenedStep ==
  ASSUME LeaseInv, Opened
  PROVE  LeaseInv'
<1> DEFINE a == SetSco(m, "ready", 0)
           x == SetActive(a, TRUE)
           f == SetSco(m, "failed", 0)
           S == sessions \ {Holder.s}
<1>1. /\ Holds({"acquire", "ensure"}, "opened") /\ Callback({"resume"})
      /\ UNCHANGED <<call, link>>
      /\ \/ Conclude(x, Holder, Holder.s) /\ UNCHANGED sessions
         \/ m' = Abort(f, Holder) /\ sessions' = S
  BY DEF Opened
<1>2. /\ m.lock # <<>> /\ Holder = Head(m.lock) /\ Holder \in JobType
      /\ Holder.k \in {"acquire", "ensure"} /\ Holder.pc = "opened"
      /\ JobOK(Holder, m.lease.gen, m.last, sessions)
  BY <1>1, HolderFacts DEF Holds, Holder
<1>3. /\ Holder.s \in Nat /\ Holder.drop = {}
      /\ Holder.k = "acquire" /\ m.lease.gen = Holder.gen => Holder.gen = Holder.s
  BY <1>2 DEF JobOK, StartOK, RemovalOK, JobType
<1>4. MediaOK(m, sessions, ready) /\ link \in LinkType
  BY MediaFacts
<1>5. ready # <<>> /\ Head(ready).k # "cleanup" /\ ready' = Tail(ready)
  BY <1>1 DEF Callback
<1>6. CASE Conclude(x, Holder, Holder.s) /\ UNCHANGED sessions
  <2>1. MediaOK(a, sessions, ready) /\ a.lease = m.lease /\ a.last = m.last /\ a.lock = m.lock
    BY <1>4, SetScoOK
  <2> HIDE DEF a
  <2>2. MediaOK(x, sessions, ready) /\ x.lease = m.lease /\ x.last = m.last /\ x.lock = m.lock
    BY <2>1, SetActiveOK
  <2> HIDE DEF x
  <2>3. /\ x.lock # <<>> /\ Holder = Head(x.lock) /\ Holder.pc \in {"wait", "opened"}
        /\ Holder.s \in {0, Holder.s}
        /\ Holder.k = "acquire" /\ x.lease.gen = Holder.gen => Holder.gen = Holder.s
    BY <1>2, <1>3, <2>2
  <2>4. x.lease.gen = Holder.s => \A i \in DOMAIN x.lock : i # 1 => ~Creates(x.lock[i], x.lease.gen)
    <3>1. x.lease.gen = Holder.s => Names(Head(x.lock), x.lease.gen)
      BY <2>3 DEF Names
    <3> QED
      BY <2>2, <2>3, <3>1, NoRival
  <2>5. MediaOK(m', sessions, ready) /\ m'.lease = x.lease /\ m'.last = x.last
    BY <1>2, <1>3, <1>6, <2>2, <2>3, <2>4, ConcludeOK
  <2> QED
    BY <1>1, <1>4, <1>5, <1>6, <2>2, <2>5, CallbackOK, Kept
<1>7. CASE m' = Abort(f, Holder) /\ sessions' = S
  <2>1. MediaOK(f, sessions, ready) /\ f.lease = m.lease /\ f.last = m.last /\ f.lock = m.lock
    BY <1>4, SetScoOK
  <2> HIDE DEF f
  <2>2. MediaOK(f, S, ready)
    BY <2>1, FewerSessions
  <2>3. \A s \in S : s # f.lease.gen => ~Closes(Holder, s)
    BY <1>2, <1>3 DEF Closes
  <2>4. Holder.k = "acquire" /\ f.lease.gen = Holder.gen => f.lease.gen \notin S
    BY <1>3, <2>1
  <2> HIDE DEF S
  <2>5. f.lock # <<>> /\ Holder = Head(f.lock)
    BY <1>2, <2>1
  <2>6. MediaOK(m', S, ready) /\ m'.lease \in {f.lease, NoLease} /\ m'.last = f.last
    BY <1>7, <2>2, <2>3, <2>4, <2>5, AbortOK
  <2>7. MediaOK(m', sessions', ready')
    BY <1>5, <1>7, <2>6, CallbackOK
  <2> QED
    BY <1>1, <1>4, <2>1, <2>6, <2>7, Kept
<1> QED
  BY <1>1, <1>6, <1>7

LEMMA ClosedStep ==
  ASSUME LeaseInv, Closed
  PROVE  LeaseInv'
<1> DEFINE c == SetSco(m, IF Up THEN "ready" ELSE "disconnected", 0)
           f == Refresh(m, Up)
<1>1. /\ m.lock # <<>> /\ Holder.pc = "removed" /\ Callback({"resume"})
      /\ UNCHANGED <<call, sessions, link>>
      /\ \/ Holder.k \in {"acquire", "ensure"} /\ m' = Abort(m, Holder)
         \/ m' \in {Unlock(c), Unlock(f)}
  BY DEF Closed
<1>2. /\ Holder = Head(m.lock) /\ JobOK(Holder, m.lease.gen, m.last, sessions)
  BY <1>1, HolderFacts DEF Holder
<1>3. MediaOK(m, sessions, ready) /\ link \in LinkType
  BY MediaFacts
<1>4. \A s \in sessions : ~Closes(Holder, s)
  BY <1>1, <1>2 DEF JobOK, RemovalOK, Closes
<1>5. Holder.k = "acquire" /\ m.lease.gen = Holder.gen => m.lease.gen \notin sessions
  BY <1>1, <1>2 DEF JobOK, StartOK, RemovalOK
<1>6. MediaOK(m', sessions, ready) /\ m'.lease \in {m.lease, NoLease} /\ m'.last = m.last
  <2>1. CASE m' = Abort(m, Holder)
    BY <1>1, <1>2, <1>3, <1>4, <1>5, <2>1, AbortOK
  <2>2. CASE m' = Unlock(c)
    <3>1. MediaOK(c, sessions, ready) /\ c.lease = m.lease /\ c.last = m.last /\ c.lock = m.lock
      <4>1. (IF Up THEN "ready" ELSE "disconnected") \in
               {"disconnected", "connecting", "ready", "failed"}
        OBVIOUS
      <4> QED
        BY <1>3, <4>1, SetScoOK
    <3> HIDE DEF c
    <3>2. c.lock # <<>> /\ Head(c.lock) = Holder
      BY <1>1, <1>2, <3>1
    <3> QED
      BY <1>4, <2>2, <3>1, <3>2, UnlockOK
  <2>3. CASE m' = Unlock(f)
    <3>1. MediaOK(f, sessions, ready) /\ f.lease = m.lease /\ f.last = m.last /\ f.lock = m.lock
      BY <1>3, RefreshOK
    <3> HIDE DEF f
    <3>2. f.lock # <<>> /\ Head(f.lock) = Holder
      BY <1>1, <1>2, <3>1
    <3> QED
      BY <1>4, <2>3, <3>1, <3>2, UnlockOK
  <2> QED
    BY <1>1, <2>1, <2>2, <2>3
<1>7. "cleanup" \notin {"resume"}
  OBVIOUS
<1> QED
  BY <1>1, <1>6, <1>7, CallbackStep

LEMMA ReclaimFiresStep ==
  ASSUME LeaseInv, ReclaimFires
  PROVE  LeaseInv'
<1>1. PICK g \in m.timers :
        /\ m' \in {Enqueue([m EXCEPT !.timers = m.timers \ {g}], Job("reclaim", "timer", g)),
                   [m EXCEPT !.timers = m.timers \ {g}]}
        /\ UNCHANGED <<call, sessions, link, ready>>
  BY DEF ReclaimFires
<1> DEFINE x == [m EXCEPT !.timers = m.timers \ {g}]
<1>2. /\ MediaOK(m, sessions, ready) /\ m \in MediaType /\ link \in LinkType
      /\ m.timers \subseteq 0 .. m.last /\ m.sco.stream \in 0 .. m.last
      /\ m.tokens \cup m.attached \subseteq {m.lease.gen} \ {0}
  BY MediaFacts DEF MediaOK, GensOK
<1>3. /\ x \in MediaType
      /\ x.lease = m.lease /\ x.last = m.last /\ x.lock = m.lock /\ x.sco = m.sco
      /\ x.tokens = m.tokens /\ x.attached = m.attached /\ x.aliases = m.aliases
      /\ x.timers = m.timers \ {g}
  BY <1>2 DEF MediaType
<1> HIDE DEF x
<1>4. MediaOK(x, sessions, ready)
  BY <1>2, <1>3, Aside
<1>5. "reclaim" \in Kinds \ {"acquire"} /\ "reclaim" # "ensure" /\ g \in 0 .. m.last
  BY <1>1, <1>2 DEF Kinds
<1> DEFINE e == Enqueue(x, Job("reclaim", "timer", g))
<1>6. MediaOK(e, sessions, ready) /\ e.lease = m.lease /\ e.last = m.last
  BY <1>3, <1>4, <1>5, JobJoins
<1>7. MediaOK(m', sessions, ready) /\ m'.lease = m.lease /\ m'.last = m.last
  BY <1>1, <1>3, <1>4, <1>6 DEF x
<1> QED
  BY <1>1, <1>2, <1>7, Kept

\* The sidecar's grants and clients change, and a callback may be posted.
LEMMA ClientsChange ==
  ASSUME LeaseInv, NEW T, NEW A, T \subseteq m.tokens, A \subseteq m.attached \cup m.tokens,
         m' = [m EXCEPT !.tokens = T, !.attached = A], UNCHANGED <<call, sessions, link>>,
         \/ ready' = ready
         \/ \E k \in {"attached", "detached"}, g \in 0 .. m.last :
               ready' = Append(ready, Posted(k, g))
  PROVE  LeaseInv'
<1>1. /\ MediaOK(m, sessions, ready) /\ m \in MediaType /\ link \in LinkType /\ m.last \in Nat
      /\ m.timers \subseteq 0 .. m.last /\ m.sco.stream \in 0 .. m.last
      /\ m.tokens \cup m.attached \subseteq {m.lease.gen} \ {0}
  BY MediaFacts DEF MediaOK, GensOK
<1>2. /\ m' \in MediaType
      /\ m'.lease = m.lease /\ m'.last = m.last /\ m'.lock = m.lock /\ m'.sco = m.sco
      /\ m'.tokens = T /\ m'.attached = A /\ m'.aliases = m.aliases /\ m'.timers = m.timers
  BY <1>1 DEF MediaType
<1>3. MediaOK(m', sessions, ready)
  BY <1>1, <1>2, Aside
<1>4. MediaOK(m', sessions, ready')
  <2>1. CASE ready' = ready
    BY <1>3, <2>1
  <2>2. ASSUME NEW k \in {"attached", "detached"}, NEW g \in 0 .. m.last,
               ready' = Append(ready, Posted(k, g))
        PROVE  MediaOK(m', sessions, ready')
    <3>1. Posted(k, g) \in PostType /\ Posted(k, g).gen \in 0 .. m'.last
      BY <1>1, <1>2, PostTypes
    <3>2. MediaOK(m', sessions, Append(ready, Posted(k, g)))
      BY <1>3, <3>1, PostedOK
    <3> QED
      BY <2>2, <3>2
  <2> QED
    BY <2>1, <2>2
<1> QED
  BY <1>1, <1>2, <1>4, Kept

LEMMA ClientConnectsStep ==
  ASSUME LeaseInv, ClientConnects
  PROVE  LeaseInv'
<1>1. PICK g \in m.tokens :
        /\ m' = [m EXCEPT !.tokens = m.tokens \ {g},
                          !.attached = IF Admits(g) THEN m.attached \cup {g} ELSE m.attached]
        /\ ready' = IF Admits(g) THEN Append(ready, Posted("attached", g)) ELSE ready
        /\ UNCHANGED <<call, sessions, link>>
  BY DEF ClientConnects
<1>2. g \in 0 .. m.last
  BY MediaFacts DEF MediaOK, GensOK
<1> DEFINE A == IF Admits(g) THEN m.attached \cup {g} ELSE m.attached
           T == m.tokens \ {g}
<1>3. A \subseteq m.attached \cup m.tokens /\ T \subseteq m.tokens
  OBVIOUS
<1>4. m' = [m EXCEPT !.tokens = T, !.attached = A]
  BY <1>1
<1> HIDE DEF A, T
<1>5. \/ ready' = ready
      \/ \E k \in {"attached", "detached"}, h \in 0 .. m.last :
            ready' = Append(ready, Posted(k, h))
  BY <1>1, <1>2
<1> QED
  BY <1>1, <1>3, <1>4, <1>5, ClientsChange

LEMMA LeavesStep ==
  ASSUME LeaseInv, NEW g \in m.attached, Leaves(g)
  PROVE  LeaseInv'
<1> DEFINE A == m.attached \ {g}
<1>1. /\ m' = [m EXCEPT !.tokens = m.tokens, !.attached = A]
      /\ ready' = Append(ready, Posted("detached", g)) /\ UNCHANGED <<call, sessions, link>>
  BY MediaFacts DEF Leaves, MediaType
<1>2. g \in 0 .. m.last /\ A \subseteq m.attached
  BY MediaFacts DEF MediaOK, GensOK
<1> HIDE DEF A
<1> QED
  BY <1>1, <1>2, ClientsChange

LEMMA TokenExpiresStep ==
  ASSUME LeaseInv, TokenExpires
  PROVE  LeaseInv'
<1>1. PICK g \in m.tokens : /\ m' = [m EXCEPT !.tokens = m.tokens \ {g}]
                            /\ UNCHANGED <<call, sessions, link, ready>>
  BY DEF TokenExpires
<1> DEFINE T == m.tokens \ {g}
<1>2. m' = [m EXCEPT !.tokens = T, !.attached = m.attached] /\ T \subseteq m.tokens
  BY <1>1, MediaFacts DEF MediaType
<1> HIDE DEF T
<1> QED
  BY <1>1, <1>2, ClientsChange

LEMMA CallStartsStep ==
  ASSUME LeaseInv, CallStarts \/ CallEnding
  PROVE  LeaseInv'
<1>1. UNCHANGED <<m, sessions, link, ready>>
  BY DEF CallStarts, CallEnding
<1>2. call' \in [st : {"idle", "active", "ending"}, id : 0 .. MaxCalls]
  BY CallsAssumption DEF CallStarts, CallEnding, LeaseInv
<1>3. LeaseOfCall'
  BY <1>1 DEF CallStarts, CallEnding, LeaseInv, LeaseOfCall
<1> QED
  BY <1>1, <1>2, <1>3 DEF LeaseInv

LEMMA CallEndsStep ==
  ASSUME LeaseInv, CallEnds
  PROVE  LeaseInv'
<1> DEFINE a == SetActive(m, FALSE)
           g == m.lease.gen
<1>1. /\ UNCHANGED <<sessions, link>> /\ m' = EndsNow(a)
      /\ call' = [call EXCEPT !.st = "idle"]
      /\ ready' = IF g = 0 THEN ready ELSE Append(ready, Posted("cleanup", g))
  BY DEF CallEnds
<1>2. /\ MediaOK(m, sessions, ready) /\ g \in 0 .. m.last /\ g \in Nat /\ link \in LinkType
  BY MediaFacts
<1>3. MediaOK(a, sessions, ready) /\ a.lease = m.lease /\ a.last = m.last
  BY <1>2, SetActiveOK
<1> HIDE DEF a
<1>4. MediaOK(m', sessions, ready') /\ m'.lease.gen = 0 /\ m'.last = m.last
  <2>1. CASE g = 0
    BY <1>1, <1>3, <2>1 DEF EndsNow
  <2>2. CASE g # 0
    <3> DEFINE p == Posted("cleanup", g)
    <3>1. p \in PostType /\ p.gen = g /\ p.k = "cleanup"
      BY <1>2, PostTypes
    <3> HIDE DEF p
    <3>2. /\ MediaOK(a, sessions, Append(ready, p))
          /\ \E i \in DOMAIN Append(ready, p) : Append(ready, p)[i] = p
      BY <1>2, <1>3, <3>1, PostedOK
    <3> DEFINE Q == Append(ready, p)
    <3>3. MediaOK(a, sessions, Q) /\ \E i \in DOMAIN Q : Q[i] = p
      BY <3>2
    <3>4. ready' = Q /\ m' = DetachLease(a)
      BY <1>1, <1>3, <2>2 DEF EndsNow, p
    <3> HIDE DEF Q
    <3>5. Scheduled(a.lock, Q, a.lease.gen)
      BY <1>3, <3>1, <3>3 DEF Scheduled
    <3>6. MediaOK(m', sessions, Q) /\ m'.lease = NoLease /\ m'.last = a.last
      BY <3>3, <3>4, <3>5, DetachLeaseOK
    <3> QED
      BY <1>3, <3>4, <3>6 DEF NoLease
  <2> QED
    BY <2>1, <2>2
<1>5. call' \in [st : {"idle", "active", "ending"}, id : 0 .. MaxCalls]
  BY <1>1 DEF LeaseInv
<1>6. LeaseOfCall'
  BY <1>4 DEF LeaseOfCall
<1> QED
  BY <1>1, <1>2, <1>4, <1>5, <1>6 DEF LeaseInv, LinkType

-----------------------------------------------------------------------------
(* The theorem *)

LEMMA InitialState == Init => LeaseInv
<1> SUFFICES ASSUME Init PROVE LeaseInv
  OBVIOUS
<1> DEFINE sco == [st |-> "disconnected", stream |-> 0, attached |-> FALSE, active |-> FALSE]
<1>1. NoLease \in LeaseType /\ NoLease.gen = 0
  BY CallsAssumption DEF NoLease, LeaseType
<1>2. sco \in ScoType /\ sco.stream = 0
  BY DEF ScoType
<1>3. m = [lease |-> NoLease, last |-> 0, aliases |-> {}, tokens |-> {}, attached |-> {},
           timers |-> {}, lock |-> <<>>, sco |-> sco]
  BY DEF Init
<1> HIDE DEF sco
<1>4. /\ m \in MediaType /\ m.lease = NoLease /\ m.last = 0 /\ m.lock = <<>> /\ m.sco = sco
      /\ m.aliases = {} /\ m.tokens = {} /\ m.attached = {} /\ m.timers = {}
  <2>1. <<>> \in Seq(JobType)
    OBVIOUS
  <2> QED
    BY <1>1, <1>2, <1>3, <2>1 DEF MediaType
<1>5. /\ sessions = {} /\ ready = <<>> /\ link = [st |-> "stopped", users |-> {}]
      /\ call = [st |-> "idle", id |-> 0]
  BY DEF Init
<1>6. GensOK(m, sessions, ready)
  BY <1>1, <1>2, <1>4, <1>5 DEF GensOK
<1>7. LockOK(m.lock, m.lease.gen, m.last, sessions) /\ NewOK(m)
  BY <1>4 DEF LockOK, NewOK
<1>8. MediaOK(m, sessions, ready)
  BY <1>4, <1>5, <1>6, <1>7 DEF MediaOK, OrphansOK
<1>9. LeaseOfCall
  BY <1>1, <1>4 DEF LeaseOfCall
<1> QED
  BY <1>5, <1>8, <1>9, CallsAssumption DEF LeaseInv

LEMMA NextKeeps == LeaseInv /\ [Next]_vars => LeaseInv'
<1> SUFFICES ASSUME LeaseInv, [Next]_vars PROVE LeaseInv'
  OBVIOUS
<1>1. CASE Loop
  BY <1>1, StartReusesStep, StartOpensStep, StartRefusedStep, ReleaseStartsStep, ExactStartsStep,
     StopStartsStep, CleanupStartsStep, LinkHealthStep, ClientConnectedStep,
     ClientDisconnectedStep, CleanupTaskStep, OpenedStep, ClosedStep DEF Loop
<1>2. CASE Threads
  BY <1>2, LinkJoinsStep, LinkConnectsStep, LinkUpStep, LinkFailsStep, SessionsRemovedStep
     DEF Threads
<1>3. CASE Environment
  <2>1. ASSUME NEW r \in Requests, \E owner \in Owners : Acquire(r, owner) PROVE LeaseInv'
    BY <2>1, AcquireStep
  <2>2. ASSUME NEW r \in Requests, \E tool \in {"ensure", "stop", "cleanup"} : Ask(r, tool)
        PROVE  LeaseInv'
    BY <2>2, AskStep
  <2>3. ASSUME NEW r \in Requests, Release(r) PROVE LeaseInv'
    BY <2>3, ReleaseStep
  <2>4. ASSUME ClientLeaves PROVE LeaseInv'
    BY <2>4, LeavesStep DEF ClientLeaves
  <2> QED
    BY <1>3, <2>1, <2>2, <2>3, <2>4, BridgeFailsStep, ClientConnectsStep, TokenExpiresStep,
       CallStartsStep, CallEndsStep DEF Environment
<1>4. CASE ReclaimFires
  BY <1>4, ReclaimFiresStep
<1>5. CASE SenderCloses
  BY <1>5, LeavesStep DEF SenderCloses
<1>6. CASE UNCHANGED vars
  BY <1>6 DEF vars, LeaseInv, LeaseOfCall
<1> QED
  BY <1>1, <1>2, <1>3, <1>4, <1>5, <1>6 DEF Next

\* What LeaseInv says of the run's invariant.
LEMMA InvFollows == LeaseInv => Inv
<1> SUFFICES ASSUME LeaseInv PROVE Inv
  OBVIOUS
<1>1. /\ MediaOK(m, sessions, ready) /\ m \in MediaType /\ link \in LinkType
      /\ GensOK(m, sessions, ready)
      /\ m.last \in Nat /\ m.lease \in LeaseType /\ m.sco \in ScoType /\ m.lock \in Seq(JobType)
      /\ LockOK(m.lock, m.lease.gen, m.last, sessions)
  BY MediaFacts DEF MediaOK, MediaType
<1>2. TypeOK
  <2>1. m.lease \in [gen : {0, m.last}, call : 0 .. MaxCalls,
                     owner : Owners \cup {"mcp_client", "none"}]
    BY <1>1 DEF LeaseType, GensOK
  <2>2. m.aliases \subseteq Given \X Given /\ m.timers \subseteq Given
        /\ m.tokens \cup m.attached \subseteq Given
    BY <1>1, MediaFacts DEF GensOK, Given
  <2>3. m.sco \in [st : {"disconnected", "connecting", "ready", "failed"}, stream : Given,
                   attached : BOOLEAN, active : BOOLEAN]
    BY <1>1 DEF ScoType, GensOK, Given
  <2>4. sessions \subseteq Given \ {0}
    BY <1>1 DEF GensOK, Given
  <2>5. link.users \subseteq Given /\ link.st \in {"stopped", "connecting", "up", "failed"}
    BY <1>1 DEF LinkType, Given
  <2>6. \A i \in 2 .. Len(m.lock) : m.lock[i].pc = "wait"
    <3>1. \A i \in 2 .. Len(m.lock) : i \in DOMAIN m.lock /\ i # 1
      BY <1>1
    <3> QED
      BY <1>1, <3>1 DEF LockOK, Waits
  <2> QED
    BY <1>1, <2>1, <2>2, <2>3, <2>4, <2>5, <2>6 DEF TypeOK, LeaseInv
<1>3. GrantsCurrent
  BY <1>1 DEF GensOK, GrantsCurrent
<1>4. NoOrphanSession
  <2>1. \A job, s : Closes(job, s) => Removes(job, s)
    BY DEF Closes, Removes
  <2> QED
    BY <1>1, <2>1 DEF MediaOK, OrphansOK, Scheduled, NoOrphanSession
<1> QED
  BY <1>2, <1>3, <1>4 DEF Inv, LeaseInv

\* The inductive invariant holds in every state.
THEOREM LeaseInvariant == Spec => []LeaseInv
<1> QED
  BY InitialState, NextKeeps, PTL DEF Spec

\* The audio of a call is never left to nobody: in every state the tokens and the
\* attached client are of the lease in force, that lease is of the call that is up,
\* and a session without its lease is named by work that closes it.
THEOREM AudioAccountedFor == Spec => []Inv
<1> QED
  BY LeaseInvariant, InvFollows, PTL

-----------------------------------------------------------------------------
(* What the state shows of the link *)

\* What the holder of the lock is at; nobody, or a job that has not begun, is at nothing.
Pc(q)      == IF q = <<>> THEN "wait" ELSE q[1].pc
Ses(q)     == IF q = <<>> THEN 0 ELSE q[1].s
Drop(q)    == IF q = <<>> THEN {} ELSE q[1].drop
Opening(q) == Pc(q) \in {"opening", "connecting", "opened"}

\* Jobs that are in the queue.
Cleaning(q)    == \E i \in DOMAIN q : q[i].k = "cleanup"
Created(q, g)  == \E i \in DOMAIN q : Creates(q[i], g)
Deferred(q, g) == \E i \in DOMAIN q : q[i].k = "exact" /\ q[i].gen = g

\* The holder is at the same point, and the jobs that matter are still there.
Remains(q, p) == /\ Cleaning(q) => Cleaning(p)
                 /\ \A g : Created(q, g) => Created(p, g)
                 /\ \A g : Deferred(p, g) => Deferred(q, g)
Stands(q, p)  == Pc(p) = Pc(q) /\ Ses(p) = Ses(q) /\ Drop(p) = Drop(q) /\ Remains(q, p)

\* Callbacks that are posted.
Down(e)    == e.k \in {"connecting", "failed", "stopped"}
Falling(R) == \E i \in DOMAIN R : Down(R[i])
Failing(R) == \E i \in DOMAIN R : R[i].k = "failed"
ClientPost(e, g)   == e.k \in {"attached", "detached"} /\ e.gen = g
Noted(R, g)        == \E i \in DOMAIN R : ClientPost(R[i], g)
LastNote(R, g, k)  == \E i \in DOMAIN R : /\ ClientPost(R[i], g) /\ R[i].k = k
                                          /\ \A j \in DOMAIN R : j > i => ~ClientPost(R[j], g)
Swept(R, g)        == \E i \in DOMAIN R : R[i].k = "cleanup" /\ R[i].gen = g

\* One callback at most resumes the holder, who waits for it.
ResumeOK(q, R) ==
  /\ \A i, j \in DOMAIN R : R[i].k = "resume" /\ R[j].k = "resume" => i = j
  /\ \A i \in DOMAIN R : R[i].k = "resume" => Pc(q) \in {"opened", "removed"}

\* The users of the link l are the sessions, but for one that is being opened.  Who
\* is told that it was opened has a link, or will hear that it failed.
UsersOK(q, S, l, R) ==
  /\ l.users \subseteq S
  /\ l.st = "up" => l.users # {}
  /\ Opening(q) => Ses(q) \in S
  /\ Pc(q) = "connecting" => Ses(q) \in l.users
  /\ \A s \in S : s \in l.users \/ (Opening(q) /\ s = Ses(q))
  /\ \A i \in DOMAIN R : R[i].k = "resume" /\ Pc(q) = "opened" =>
       IF R[i].ok THEN /\ Ses(q) \in l.users
                       /\ l.st = "up" \/ \E j \in DOMAIN R : j > i /\ R[j].k = "failed"
       ELSE Ses(q) \notin l.users /\ l.st # "up"

\* Sessions without a link are told so, or cleaned up.  Old news of a link that was
\* down is heard before the one who brought it up again is told.
NewsOK(q, S, l, R) ==
  /\ l.st # "up" => \A s \in S : (Opening(q) /\ s = Ses(q)) \/ Failing(R) \/ Cleaning(q)
  /\ l.st = "up" => \A i \in DOMAIN R : Down(R[i]) =>
        Pc(q) = "opened" /\ \E j \in DOMAIN R : j > i /\ R[j].k = "resume" /\ R[j].ok

\* What the state c shows of the link is so, or is going to be put right.
ShownOK(c, q, l, R) ==
  /\ l.st # "up" /\ c.active => Falling(R)
  /\ l.st # "up" /\ c.st = "ready" => Falling(R) \/ Cleaning(q)
  /\ l.st = "up" /\ c.st # "ready" => Opening(q)

LinkOK(c, q, S, l, R) ==
  ResumeOK(q, R) /\ UsersOK(q, S, l, R) /\ NewsOK(q, S, l, R) /\ ShownOK(c, q, l, R)

\* The stream shown is the lease's, unless that has yet to be started.
StreamOK(x) ==
  /\ x.sco.st # "ready" => x.sco.stream = 0 /\ ~x.sco.attached
  /\ x.lease.gen # 0 => x.sco.stream \in {0, x.lease.gen} \/ Created(x.lock, x.lease.gen)

\* Nobody closes the session of the lease in force by number, unless the call, which is
\* at st, is ending.
RevokedOK(x, R, st) ==
  /\ Drop(x.lock) \subseteq 0 .. x.last
  /\ x.lease.gen # 0 =>
       /\ ~Deferred(x.lock, x.lease.gen) /\ ~Swept(R, x.lease.gen)
       /\ x.lease.gen \in Drop(x.lock) => st # "active"

\* The lease has had no client.
Unused(x, R) == x.tokens \cup x.attached = {} /\ ~Noted(R, x.lease.gen)

\* The session of the lease is going to be closed.
Leaving(x, R) == Failing(R) \/ Cleaning(x.lock) \/ x.lease.gen \in Drop(x.lock)

\* The last that was posted of the lease's client, or else what is shown of it, is so.
ClientShown(x, R) ==
  /\ ~Noted(R, x.lease.gen) => (x.sco.attached <=> x.lease.gen \in x.attached)
  /\ LastNote(R, x.lease.gen, "attached") => x.lease.gen \in x.attached
  /\ LastNote(R, x.lease.gen, "detached") => x.lease.gen \notin x.attached
  /\ ~Unused(x, R) => x.sco.stream = x.lease.gen

ClientsOK(x, S, R, st) ==
  x.lease.gen # 0 =>
    /\ x.lease.gen \notin S /\ st = "active" => Unused(x, R)
    /\ Opening(x.lock) /\ x.lease.gen \in S =>
         x.lease.gen = Ses(x.lock) /\ Unused(x, R) /\ ~x.sco.attached
    /\ x.lease.gen \in S /\ ~Opening(x.lock) => Leaving(x, R) \/ ClientShown(x, R)

ShowOK(x, S, l, R, st) ==
  /\ LinkOK(x.sco, x.lock, S, l, R)
  /\ StreamOK(x) /\ RevokedOK(x, R, st) /\ ClientsOK(x, S, R, st)

ShowInv == ShowOK(m, sessions, link, ready, call.st)

-----------------------------------------------------------------------------
(* The queue of jobs, as seen by who it is that works *)

LEMMA JoinView ==
  ASSUME NEW q \in Seq(JobType), NEW job \in JobType, Waits(job)
  PROVE  /\ Stands(q, Append(q, job)) \/ job.k = "exact"
         /\ Pc(Append(q, job)) = Pc(q) /\ Ses(Append(q, job)) = Ses(q)
         /\ Drop(Append(q, job)) = Drop(q)
         /\ Cleaning(q) \/ job.k = "cleanup" => Cleaning(Append(q, job))
         /\ \A g : Created(q, g) \/ Creates(job, g) => Created(Append(q, job), g)
         /\ \A g : Deferred(Append(q, job), g)
                      => Deferred(q, g) \/ (job.k = "exact" /\ job.gen = g)
<1> DEFINE p == Append(q, job)
<1>1. /\ p \in Seq(JobType) /\ Len(q) \in Nat /\ p # <<>>
      /\ DOMAIN q = 1..Len(q) /\ DOMAIN p = 1..(Len(q) + 1)
      /\ \A i \in 1..Len(q) : p[i] = q[i]
      /\ p[Len(q) + 1] = job
  OBVIOUS
<1>2. q = <<>> <=> Len(q) = 0
  OBVIOUS
<1> HIDE DEF p
<1>3. /\ \A i \in DOMAIN q : i \in DOMAIN p /\ p[i] = q[i]
      /\ \A i \in DOMAIN p : (i \in DOMAIN q /\ p[i] = q[i]) \/ p[i] = job
      /\ Len(q) + 1 \in DOMAIN p
  BY <1>1
<1>4. Pc(p) = Pc(q) /\ Ses(p) = Ses(q) /\ Drop(p) = Drop(q)
  <2>1. CASE q = <<>>
    BY <1>1, <1>2, <2>1 DEF Pc, Ses, Drop, Waits
  <2>2. CASE q # <<>>
    <3>1. 1 \in DOMAIN q
      BY <1>1, <1>2, <2>2
    <3> QED
      BY <1>1, <1>3, <2>2, <3>1 DEF Pc, Ses, Drop
  <2> QED
    BY <2>1, <2>2
<1>5. /\ Cleaning(q) \/ job.k = "cleanup" => Cleaning(p)
      /\ \A g : Created(q, g) \/ Creates(job, g) => Created(p, g)
      /\ \A g : Deferred(p, g) => Deferred(q, g) \/ (job.k = "exact" /\ job.gen = g)
  BY <1>1, <1>3 DEF Cleaning, Created, Deferred
<1> QED
  BY <1>4, <1>5 DEF p, Stands, Remains

LEMMA NextView ==
  ASSUME NEW q \in Seq(JobType), q # <<>>, NEW g, NEW n, NEW S, LockOK(q, g, n, S)
  PROVE  /\ Pc(Tail(q)) = "wait" /\ Ses(Tail(q)) = 0 /\ Drop(Tail(q)) = {}
         /\ Cleaning(q) => Head(q).k = "cleanup" \/ Cleaning(Tail(q))
         /\ \A h : Created(q, h) => Creates(Head(q), h) \/ Created(Tail(q), h)
         /\ \A h : Deferred(Tail(q), h) => Deferred(q, h)
<1> DEFINE p == Tail(q)
<1>1. /\ p \in Seq(JobType)
      /\ \A i \in DOMAIN q : q[i] = Head(q) \/ \E j \in DOMAIN p : p[j] = q[i]
      /\ \A j \in DOMAIN p : \E i \in DOMAIN q : i # 1 /\ p[j] = q[i]
  BY NextJob
<1> HIDE DEF p
<1>2. p = <<>> \/ 1 \in DOMAIN p
  BY <1>1
<1>3. \A j \in DOMAIN p : Waits(p[j])
  BY <1>1 DEF LockOK
<1>4. Pc(p) = "wait" /\ Ses(p) = 0 /\ Drop(p) = {}
  BY <1>2, <1>3 DEF Pc, Ses, Drop, Waits
<1>5. /\ Cleaning(q) => Head(q).k = "cleanup" \/ Cleaning(p)
      /\ \A h : Created(q, h) => Creates(Head(q), h) \/ Created(p, h)
      /\ \A h : Deferred(p, h) => Deferred(q, h)
  BY <1>1 DEF Cleaning, Created, Deferred
<1> QED
  BY <1>4, <1>5 DEF p

LEMMA HeadView ==
  ASSUME NEW q \in Seq(JobType), q # <<>>, NEW job \in JobType,
         job.k = Head(q).k, job.gen = Head(q).gen, job.reused = Head(q).reused
  PROVE  /\ Pc(<<job>> \o Tail(q)) = job.pc /\ Ses(<<job>> \o Tail(q)) = job.s
         /\ Drop(<<job>> \o Tail(q)) = job.drop
         /\ Remains(q, <<job>> \o Tail(q))
<1> DEFINE p == <<job>> \o Tail(q)
<1>1. /\ p \in Seq(JobType) /\ Len(q) \in Nat /\ Len(q) # 0 /\ p # <<>>
      /\ DOMAIN q = 1..Len(q) /\ DOMAIN p = 1..Len(q)
      /\ p[1] = job /\ Head(q) = q[1]
      /\ \A i \in 2..Len(q) : p[i] = q[i]
  <2>1. /\ Tail(q) \in Seq(JobType) /\ Len(Tail(q)) = Len(q) - 1 /\ Len(q) \in Nat /\ Len(q) # 0
        /\ \A i \in 1..(Len(q) - 1) : Tail(q)[i] = q[i + 1]
        /\ DOMAIN q = 1..Len(q) /\ Head(q) = q[1]
    OBVIOUS
  <2>2. /\ <<job>> \in Seq(JobType) /\ Len(<<job>>) = 1 /\ <<job>>[1] = job
    OBVIOUS
  <2> DEFINE t == Tail(q)
             u == <<job>>
  <2>3. u \o t \in Seq(JobType) /\ Len(u \o t) = Len(u) + Len(t)
        /\ \A i \in 1..(Len(u) + Len(t)) : (u \o t)[i] = IF i <= Len(u) THEN u[i] ELSE t[i - Len(u)]
    <3> HIDE DEF t, u
    <3> QED
      BY <2>1, <2>2 DEF t, u
  <2>4. \A i \in 2..Len(q) : i - 1 \in 1..(Len(q) - 1) /\ (i - 1) + 1 = i /\ ~(i <= 1)
    BY <2>1
  <2>5. \A i \in 2..Len(q) : p[i] = q[i]
    BY <2>1, <2>2, <2>3, <2>4
  <2>6. p[1] = job /\ Len(p) = Len(q) /\ p \in Seq(JobType)
    BY <2>1, <2>2, <2>3
  <2>7. DOMAIN p = 1..Len(q) /\ p # <<>>
    <3> HIDE DEF p
    <3> QED
      BY <2>1, <2>6
  <2> QED
    BY <2>1, <2>5, <2>6, <2>7
<1> HIDE DEF p
<1>2. \A i \in DOMAIN q : i = 1 \/ i \in 2..Len(q)
  BY <1>1
<1>3. /\ Pc(p) = job.pc /\ Ses(p) = job.s /\ Drop(p) = job.drop
  BY <1>1 DEF Pc, Ses, Drop
<1>4. Remains(q, p)
  BY <1>1, <1>2 DEF Remains, Cleaning, Created, Deferred, Creates
<1> QED
  BY <1>3, <1>4 DEF p

\* Reclaims that wait for the lock are cancelled.
LEMMA LessView ==
  ASSUME NEW q \in Seq(JobType), NEW g, NEW n, NEW S, LockOK(q, g, n, S),
         NEW C, \A job \in C : Waits(job) /\ job.k = "reclaim"
  PROVE  Stands(q, Without(q, C))
<1> DEFINE p == Without(q, C)
<1>1. p \in Seq(JobType) /\ \E h : Keeps(q, C, Len(q), p, h)
  BY WithoutKeeps
<1>2. PICK h : Keeps(q, C, Len(q), p, h)
  BY <1>1
<1>3. /\ q # <<>> /\ Head(q) \notin C => p # <<>> /\ Head(p) = Head(q)
      /\ LockOK(p, g, n, S)
  BY ReclaimsCancelled
<1> HIDE DEF p
<1>4. /\ \A i \in DOMAIN q : q[i] \notin C => \E j \in DOMAIN p : p[j] = q[i]
      /\ \A j \in DOMAIN p : \E i \in DOMAIN q : p[j] = q[i]
  <2>1. DOMAIN p = 1..Len(p) /\ DOMAIN q = 1..Len(q)
    BY <1>1
  <2>2. /\ h \in [1..Len(p) -> 1..Len(q)]
        /\ \A a \in 1..Len(p) : p[a] = q[h[a]]
        /\ \A j \in 1..Len(q) : q[j] \notin C => \E a \in 1..Len(p) : h[a] = j
    BY <1>2 DEF Keeps
  <2>3. ASSUME NEW i \in DOMAIN q, q[i] \notin C PROVE \E j \in DOMAIN p : p[j] = q[i]
    <3>1. PICK a \in 1..Len(p) : h[a] = i
      BY <2>1, <2>2, <2>3
    <3> QED
      BY <2>1, <2>2, <3>1
  <2>4. \A j \in DOMAIN p : h[j] \in DOMAIN q /\ p[j] = q[h[j]]
    BY <2>1, <2>2
  <2> QED
    BY <2>3, <2>4
<1>5. Remains(q, p)
  BY <1>4 DEF Remains, Cleaning, Created, Deferred, Creates
<1>6. /\ p # <<>> => 1 \in DOMAIN p /\ Head(p) = p[1]
      /\ q # <<>> => 1 \in DOMAIN q /\ Head(q) = q[1]
  BY <1>1
<1>7. Pc(p) = Pc(q) /\ Ses(p) = Ses(q) /\ Drop(p) = Drop(q)
  <2>1. CASE q # <<>> /\ Head(q) \notin C
    BY <1>3, <1>6, <2>1 DEF Pc, Ses, Drop
  <2>2. CASE q = <<>> \/ Head(q) \in C
    <3>1. Pc(q) = "wait" /\ Ses(q) = 0 /\ Drop(q) = {}
      BY <1>6, <2>2 DEF Pc, Ses, Drop, Waits
    <3>2. \A i \in DOMAIN q : Waits(q[i])
      BY <1>6, <2>2 DEF LockOK
    <3>3. Pc(p) = "wait" /\ Ses(p) = 0 /\ Drop(p) = {}
      BY <1>4, <1>6, <3>2 DEF Pc, Ses, Drop, Waits
    <3> QED
      BY <3>1, <3>3
  <2> QED
    BY <2>1, <2>2
<1> QED
  BY <1>5, <1>7 DEF p, Stands

-----------------------------------------------------------------------------
(* The operations on the media state *)

Same(x, y) == /\ y.lease = x.lease /\ y.last = x.last
              /\ y.tokens = x.tokens /\ y.attached = x.attached

\* What set_sco_state makes of c.
ScoTo(c, d, st, g) ==
  /\ d \in ScoType /\ d.st = st /\ d.active = c.active
  /\ st = "ready" => /\ d.stream = (IF g = 0 THEN c.stream ELSE g)
                     /\ d.attached = (c.attached /\ g \in {0, c.stream})
  /\ st # "ready" => d.stream = 0 /\ ~d.attached

LEMMA ScoView ==
  ASSUME NEW x \in MediaType, NEW st \in {"disconnected", "connecting", "ready", "failed"},
         NEW g \in Nat
  PROVE  /\ SetSco(x, st, g) \in MediaType /\ Same(x, SetSco(x, st, g))
         /\ SetSco(x, st, g).lock = x.lock
         /\ ScoTo(x.sco, SetSco(x, st, g).sco, st, g)
<1> DEFINE y == SetSco(x, st, g)
<1>1. y \in MediaType /\ Same(x, y) /\ y.lock = x.lock
  BY SetScoFields DEF Same
<1>2. x.sco \in ScoType /\ y.sco \in ScoType
  BY <1>1 DEF MediaType
<1>3. CASE st = "ready"
  <2> DEFINE b == x.sco.attached /\ g \in {0, x.sco.stream}
             c == [x.sco EXCEPT !.st = st, !.stream = IF g = 0 THEN x.sco.stream ELSE g,
                                !.attached = b]
  <2>1. y.sco = c
    BY <1>3 DEF SetSco, MediaType
  <2> HIDE DEF b, y
  <2>2. /\ c.st = st /\ c.active = x.sco.active /\ c.attached = b
        /\ c.stream = (IF g = 0 THEN x.sco.stream ELSE g)
    BY <1>2 DEF ScoType
  <2> QED
    BY <1>1, <1>2, <1>3, <2>1, <2>2 DEF ScoTo, b, y
<1>4. CASE st # "ready"
  <2> DEFINE c == [x.sco EXCEPT !.st = st, !.stream = 0, !.attached = FALSE]
  <2>1. y.sco = c
    BY <1>4 DEF SetSco, MediaType
  <2> HIDE DEF y
  <2>2. c.st = st /\ c.active = x.sco.active /\ c.attached = FALSE /\ c.stream = 0
    BY <1>2 DEF ScoType
  <2> QED
    BY <1>1, <1>2, <1>4, <2>1, <2>2 DEF ScoTo, y
<1> QED
  BY <1>3, <1>4

LEMMA ActiveView ==
  ASSUME NEW x \in MediaType, NEW b \in BOOLEAN
  PROVE  /\ SetActive(x, b) \in MediaType /\ Same(x, SetActive(x, b))
         /\ SetActive(x, b).lock = x.lock
         /\ SetActive(x, b).sco.st = x.sco.st /\ SetActive(x, b).sco.stream = x.sco.stream
         /\ SetActive(x, b).sco.attached = x.sco.attached /\ SetActive(x, b).sco.active = b
<1> DEFINE c == [x.sco EXCEPT !.active = b]
           y == [x EXCEPT !.sco = c]
<1>1. x.sco \in ScoType
  BY DEF MediaType
<1>2. /\ c \in ScoType /\ c.st = x.sco.st /\ c.stream = x.sco.stream
      /\ c.attached = x.sco.attached /\ c.active = b
  BY <1>1 DEF ScoType
<1>3. SetActive(x, b) = y
  BY DEF SetActive
<1> HIDE DEF c
<1>4. y \in MediaType /\ Same(x, y) /\ y.lock = x.lock /\ y.sco = c
  BY <1>2 DEF MediaType, Same
<1> HIDE DEF y
<1> QED
  BY <1>2, <1>3, <1>4

LEMMA EnqueueView ==
  ASSUME NEW x \in MediaType, NEW job \in JobType, Waits(job)
  PROVE  /\ Enqueue(x, job) \in MediaType /\ Same(x, Enqueue(x, job))
         /\ Enqueue(x, job).sco = x.sco
         /\ Stands(x.lock, Enqueue(x, job).lock) \/ job.k = "exact"
         /\ Pc(Enqueue(x, job).lock) = Pc(x.lock) /\ Ses(Enqueue(x, job).lock) = Ses(x.lock)
         /\ Drop(Enqueue(x, job).lock) = Drop(x.lock)
         /\ Cleaning(x.lock) \/ job.k = "cleanup" => Cleaning(Enqueue(x, job).lock)
         /\ \A g : Created(x.lock, g) \/ Creates(job, g) => Created(Enqueue(x, job).lock, g)
         /\ \A g : Deferred(Enqueue(x, job).lock, g)
                      => Deferred(x.lock, g) \/ (job.k = "exact" /\ job.gen = g)
<1> DEFINE q == Append(x.lock, job)
           y == [x EXCEPT !.lock = q]
<1>1. x.lock \in Seq(JobType) /\ q \in Seq(JobType)
  BY DEF MediaType
<1>2. Enqueue(x, job) = y
  BY DEF Enqueue
<1> HIDE DEF q
<1>3. y \in MediaType /\ Same(x, y) /\ y.sco = x.sco /\ y.lock = q
  BY <1>1 DEF MediaType, Same
<1> HIDE DEF y
<1> QED
  BY <1>1, <1>2, <1>3, JoinView DEF q

LEMMA UnlockView ==
  ASSUME NEW x \in MediaType, x.lock # <<>>, NEW g, NEW n, NEW S, LockOK(x.lock, g, n, S)
  PROVE  /\ Unlock(x) \in MediaType /\ Same(x, Unlock(x)) /\ Unlock(x).sco = x.sco
         /\ LockOK(Unlock(x).lock, g, n, S)
         /\ Pc(Unlock(x).lock) = "wait" /\ Ses(Unlock(x).lock) = 0 /\ Drop(Unlock(x).lock) = {}
         /\ Cleaning(x.lock) => Head(x.lock).k = "cleanup" \/ Cleaning(Unlock(x).lock)
         /\ \A h : Created(x.lock, h) => Creates(Head(x.lock), h) \/ Created(Unlock(x).lock, h)
         /\ \A h : Deferred(Unlock(x).lock, h) => Deferred(x.lock, h)
<1> DEFINE q == Tail(x.lock)
           y == [x EXCEPT !.lock = q]
<1>1. x.lock \in Seq(JobType)
  BY DEF MediaType
<1>2. q \in Seq(JobType) /\ LockOK(q, g, n, S)
  BY <1>1, NextJob
<1>3. Unlock(x) = y
  BY DEF Unlock
<1> HIDE DEF q
<1>4. y \in MediaType /\ Same(x, y) /\ y.sco = x.sco /\ y.lock = q
  BY <1>2 DEF MediaType, Same
<1> HIDE DEF y
<1> QED
  BY <1>1, <1>2, <1>3, <1>4, NextView DEF q

LEMMA SetHeadView ==
  ASSUME NEW x \in MediaType, x.lock # <<>>, NEW job \in JobType,
         job.k = Head(x.lock).k, job.gen = Head(x.lock).gen, job.reused = Head(x.lock).reused
  PROVE  /\ SetHead(x, job) \in MediaType /\ Same(x, SetHead(x, job))
         /\ SetHead(x, job).sco = x.sco
         /\ Pc(SetHead(x, job).lock) = job.pc /\ Ses(SetHead(x, job).lock) = job.s
         /\ Drop(SetHead(x, job).lock) = job.drop
         /\ Remains(x.lock, SetHead(x, job).lock)
<1> DEFINE q == <<job>> \o Tail(x.lock)
           y == [x EXCEPT !.lock = q]
<1>1. x.lock \in Seq(JobType)
  BY DEF MediaType
<1>2. q \in Seq(JobType)
  <2>1. <<job>> \in Seq(JobType) /\ Tail(x.lock) \in Seq(JobType)
    BY <1>1
  <2> QED
    BY <2>1
<1>3. SetHead(x, job) = y
  BY DEF SetHead
<1> HIDE DEF q
<1>4. y \in MediaType /\ Same(x, y) /\ y.sco = x.sco /\ y.lock = q
  BY <1>2 DEF MediaType, Same
<1> HIDE DEF y
<1> QED
  BY <1>1, <1>3, <1>4, HeadView DEF q

LEMMA CancelView ==
  ASSUME NEW x \in MediaType, NEW g, NEW h, NEW n, NEW S, LockOK(x.lock, h, n, S)
  PROVE  /\ CancelReclaim(x, g) \in MediaType /\ Same(x, CancelReclaim(x, g))
         /\ CancelReclaim(x, g).sco = x.sco
         /\ LockOK(CancelReclaim(x, g).lock, h, n, S)
         /\ Stands(x.lock, CancelReclaim(x, g).lock)
<1>1. x.lock \in Seq(JobType)
  BY DEF MediaType
<1>2. \A job \in {Job("reclaim", "timer", g)} : Waits(job) /\ job.k = "reclaim"
  BY DEF Job, Waits
<1>3. Stands(x.lock, Without(x.lock, {Job("reclaim", "timer", g)}))
  BY <1>1, <1>2, LessView
<1> QED
  BY <1>3, CancelReclaimFields DEF Same

LEMMA ArmView ==
  ASSUME NEW x \in MediaType, NEW h, NEW n, NEW S, LockOK(x.lock, h, n, S)
  PROVE  /\ Same(x, ArmReclaim(x)) /\ ArmReclaim(x) \in MediaType /\ ArmReclaim(x).sco = x.sco
         /\ LockOK(ArmReclaim(x).lock, h, n, S)
         /\ Stands(x.lock, ArmReclaim(x).lock)
<1> DEFINE c == CancelReclaim(x, x.lease.gen)
           T == c.timers \cup {x.lease.gen}
           y == [c EXCEPT !.timers = T]
<1>1. ArmReclaim(x) = y
  BY DEF ArmReclaim
<1>2. /\ c \in MediaType /\ Same(x, c) /\ c.sco = x.sco /\ LockOK(c.lock, h, n, S)
      /\ Stands(x.lock, c.lock)
  BY CancelView
<1> HIDE DEF c
<1>3. T \in SUBSET Nat
  BY <1>2 DEF MediaType, LeaseType
<1> HIDE DEF T
<1>4. y \in MediaType /\ y.lock = c.lock /\ y.sco = c.sco /\ Same(c, y)
  BY <1>2, <1>3 DEF MediaType, Same
<1> HIDE DEF y
<1> QED
  BY <1>1, <1>2, <1>4 DEF Same

\* x has no lease any more.
Revoked(x, y) == y.lease = NoLease /\ y.lease.gen = 0 /\ y.last = x.last

LEMMA DetachView ==
  ASSUME NEW x \in MediaType, NEW h, NEW n, NEW S, LockOK(x.lock, h, n, S)
  PROVE  /\ DetachLease(x) \in MediaType /\ Revoked(x, DetachLease(x))
         /\ DetachLease(x).sco = x.sco
         /\ LockOK(DetachLease(x).lock, h, n, S)
         /\ Stands(x.lock, DetachLease(x).lock)
<1> DEFINE g == x.lease.gen
           z == CancelReclaim(x, g)
           y == DetachLease(x)
           A == {a \in x.aliases : a[2] # g}
<1>1. /\ x.lease.gen \in Nat /\ x.aliases \in SUBSET (Nat \X Nat)
  BY DEF MediaType, LeaseType
<1>2. /\ z \in MediaType /\ Same(x, z) /\ z.sco = x.sco /\ LockOK(z.lock, h, n, S)
      /\ Stands(x.lock, z.lock)
  BY CancelView
<1>3. y = [z EXCEPT !.lease = NoLease, !.aliases = A,
                    !.tokens = x.tokens \ {g}, !.attached = x.attached \ {g}]
  BY <1>1 DEF DetachLease, DetachSession, CancelReclaim, MediaType
<1>4. NoLease \in LeaseType /\ A \in SUBSET (Nat \X Nat)
  BY <1>1, CallsAssumption DEF NoLease, LeaseType
<1> HIDE DEF A, z
<1>5. /\ y \in MediaType /\ y.lease = NoLease /\ y.last = z.last /\ y.lock = z.lock
      /\ y.sco = z.sco
  <2>1. x.tokens \ {g} \in SUBSET Nat /\ x.attached \ {g} \in SUBSET Nat
    BY DEF MediaType
  <2> HIDE DEF y
  <2> QED
    BY <1>2, <1>3, <1>4, <2>1 DEF MediaType
<1> HIDE DEF y
<1> QED
  BY <1>2, <1>5 DEF y, Revoked, NoLease, Same

LEMMA RefreshView ==
  ASSUME NEW x \in MediaType, NEW up \in BOOLEAN
  PROVE  /\ Refresh(x, up) \in MediaType /\ Same(x, Refresh(x, up))
         /\ Refresh(x, up).lock = x.lock
         /\ ScoTo(x.sco, Refresh(x, up).sco, IF up THEN "ready" ELSE "disconnected",
                  IF up THEN x.lease.gen ELSE 0)
<1>1. x.lease.gen \in Nat
  BY DEF MediaType, LeaseType
<1>2. CASE x.lease.gen # 0 /\ up
  BY <1>1, <1>2, ScoView DEF Refresh
<1>3. CASE ~(x.lease.gen # 0 /\ up)
  BY <1>1, <1>3, ScoView DEF Refresh
<1> QED
  BY <1>2, <1>3

\* A start has failed.
LEMMA AbortView ==
  ASSUME NEW x \in MediaType, x.lock # <<>>, NEW h, NEW n, NEW S, LockOK(x.lock, h, n, S),
         NEW job, job = Head(x.lock)
  PROVE  /\ Abort(x, job) \in MediaType /\ Abort(x, job).sco = x.sco
         /\ Same(x, Abort(x, job)) \/ Revoked(x, Abort(x, job))
         /\ Creates(job, x.lease.gen) => Abort(x, job).lease.gen = 0
         /\ Pc(Abort(x, job).lock) = "wait" /\ Drop(Abort(x, job).lock) = {}
         /\ Cleaning(x.lock) => job.k = "cleanup" \/ Cleaning(Abort(x, job).lock)
         /\ \A f : Created(x.lock, f) => Creates(job, f) \/ Created(Abort(x, job).lock, f)
         /\ \A f : Deferred(Abort(x, job).lock, f) => Deferred(x.lock, f)
<1> DEFINE y == [x EXCEPT !.lease = NoLease]
<1>1. CASE Creates(job, x.lease.gen)
  <2>1. NoLease \in LeaseType /\ NoLease.gen = 0
    BY CallsAssumption DEF NoLease, LeaseType
  <2>2. y \in MediaType /\ y.lease = NoLease /\ y.last = x.last /\ y.lock = x.lock /\ y.sco = x.sco
    BY <2>1 DEF MediaType
  <2>3. Abort(x, job) = Unlock(y)
    BY <1>1 DEF Abort, Creates
  <2> HIDE DEF y
  <2> DEFINE z == Unlock(y)
  <2>4. /\ z \in MediaType /\ Same(y, z) /\ z.sco = y.sco
        /\ Pc(z.lock) = "wait" /\ Drop(z.lock) = {}
        /\ Cleaning(y.lock) => Head(y.lock).k = "cleanup" \/ Cleaning(z.lock)
        /\ \A f : Created(y.lock, f) => Creates(Head(y.lock), f) \/ Created(z.lock, f)
        /\ \A f : Deferred(z.lock, f) => Deferred(y.lock, f)
    BY <2>2, UnlockView
  <2>5. Abort(x, job) = z
    BY <2>3
  <2> HIDE DEF z
  <2>6. Revoked(x, z)
    BY <2>1, <2>2, <2>4 DEF Same, Revoked
  <2> QED
    BY <1>1, <2>1, <2>2, <2>4, <2>5, <2>6 DEF Same
<1>2. CASE ~Creates(job, x.lease.gen)
  <2> DEFINE z == Unlock(x)
  <2>1. Abort(x, job) = z
    BY <1>2 DEF Abort, Creates
  <2>2. /\ z \in MediaType /\ Same(x, z) /\ z.sco = x.sco
        /\ Pc(z.lock) = "wait" /\ Drop(z.lock) = {}
        /\ Cleaning(x.lock) => Head(x.lock).k = "cleanup" \/ Cleaning(z.lock)
        /\ \A f : Created(x.lock, f) => Creates(Head(x.lock), f) \/ Created(z.lock, f)
        /\ \A f : Deferred(z.lock, f) => Deferred(x.lock, f)
    BY UnlockView
  <2> HIDE DEF z
  <2> QED
    BY <1>2, <2>1, <2>2
<1> QED
  BY <1>1, <1>2

\* A start has succeeded.
LEMMA GrantView ==
  ASSUME NEW x \in MediaType, x.lock # <<>>, NEW n, NEW S, LockOK(x.lock, x.lease.gen, n, S),
         NEW job, job = Head(x.lock), job.k \in {"acquire", "ensure"}
  PROVE  /\ Grant(x, job) \in MediaType
         /\ Grant(x, job).lease = x.lease /\ Grant(x, job).last = x.last
         /\ Grant(x, job).tokens = x.tokens \cup {x.lease.gen}
         /\ Grant(x, job).attached = x.attached
         /\ ScoTo(x.sco, Grant(x, job).sco, "ready", x.lease.gen)
         /\ Pc(Grant(x, job).lock) = "wait" /\ Drop(Grant(x, job).lock) = {}
         /\ Cleaning(x.lock) => Cleaning(Grant(x, job).lock)
         /\ Deferred(Grant(x, job).lock, x.lease.gen) => Deferred(x.lock, x.lease.gen)
<1> DEFINE g == x.lease.gen
           t == [x EXCEPT !.tokens = x.tokens \cup {g}]
           y == SetSco(t, "ready", g)
           c == IF g \in y.attached THEN CancelReclaim(y, g) ELSE ArmReclaim(y)
           z == Unlock(c)
           e == Job("exact", job.r, job.gen)
<1>1. g \in Nat /\ job \in JobType
  <2>1. x.lock \in Seq(JobType)
    BY DEF MediaType
  <2> QED
    BY <2>1 DEF MediaType, LeaseType
<1>2. /\ t \in MediaType /\ t.lease = x.lease /\ t.last = x.last /\ t.attached = x.attached
      /\ t.tokens = x.tokens \cup {g} /\ t.sco = x.sco /\ t.lock = x.lock
  <2>1. x.tokens \cup {g} \in SUBSET Nat
    BY <1>1 DEF MediaType
  <2> QED
    BY <2>1 DEF MediaType
<1> HIDE DEF t
<1>3. y \in MediaType /\ Same(t, y) /\ y.lock = x.lock /\ ScoTo(x.sco, y.sco, "ready", g)
  <2>1. y \in MediaType /\ Same(t, y) /\ y.lock = t.lock /\ ScoTo(t.sco, y.sco, "ready", g)
    BY <1>1, <1>2, ScoView
  <2> HIDE DEF y
  <2> QED
    BY <1>2, <2>1
<1> HIDE DEF y
<1>4. /\ c \in MediaType /\ Same(y, c) /\ c.sco = y.sco /\ LockOK(c.lock, g, n, S)
      /\ Stands(x.lock, c.lock)
  <2>1. CASE g \in y.attached
    BY <1>3, <2>1, CancelView
  <2>2. CASE g \notin y.attached
    BY <1>3, <2>2, ArmView
  <2> QED
    BY <2>1, <2>2
<1>5. c.lock # <<>> /\ Head(c.lock) = job
  <2>1. x.lock # <<>> /\ Head(x.lock).k # "reclaim"
    OBVIOUS
  <2>2. /\ CancelReclaim(y, g).lock # <<>> /\ Head(CancelReclaim(y, g).lock) = job
    <3>1. (y.lock # <<>> /\ (Head(y.lock).pc # "wait" \/ Head(y.lock).k # "reclaim")) =>
              /\ CancelReclaim(y, g).lock # <<>>
              /\ Head(CancelReclaim(y, g).lock) = Head(y.lock)
      BY <1>3, CancelReclaimFields
    <3> QED
      BY <1>3, <2>1, <3>1
  <2>3. y.lease.gen = g /\ ArmReclaim(y).lock = CancelReclaim(y, g).lock
    <3>1. y.lease.gen = g
      BY <1>2, <1>3 DEF Same
    <3>2. CancelReclaim(y, g) \in MediaType
      BY <1>3, CancelReclaimFields
    <3> QED
      BY <3>1, <3>2 DEF ArmReclaim, MediaType
  <2> QED
    BY <2>2, <2>3
<1> HIDE DEF c
<1>6. /\ z \in MediaType /\ Same(c, z) /\ z.sco = c.sco
      /\ Pc(z.lock) = "wait" /\ Drop(z.lock) = {}
      /\ Cleaning(c.lock) => Head(c.lock).k = "cleanup" \/ Cleaning(z.lock)
      /\ \A f : Deferred(z.lock, f) => Deferred(c.lock, f)
  BY <1>4, <1>5, UnlockView
<1> HIDE DEF z
<1>7. /\ z.lease = x.lease /\ z.last = x.last /\ z.tokens = x.tokens \cup {g}
      /\ z.attached = x.attached /\ ScoTo(x.sco, z.sco, "ready", g)
      /\ Cleaning(x.lock) => Cleaning(z.lock)
      /\ \A f : Deferred(z.lock, f) => Deferred(x.lock, f)
  BY <1>2, <1>3, <1>4, <1>5, <1>6 DEF Same, Stands, Remains
<1>8. Grant(x, job) = IF job.k = "acquire" /\ job.gen # g THEN Enqueue(z, e) ELSE z
  BY DEF Grant, z, c, y, t
<1>9. CASE job.k = "acquire" /\ job.gen # g
  <2>1. /\ e \in JobType /\ Waits(e) /\ e.k = "exact" /\ e.gen = job.gen
    BY <1>1 DEF Job, JobType, Kinds, Phases, Waits
  <2> HIDE DEF e
  <2>2. /\ Enqueue(z, e) \in MediaType /\ Same(z, Enqueue(z, e)) /\ Enqueue(z, e).sco = z.sco
        /\ Pc(Enqueue(z, e).lock) = "wait" /\ Drop(Enqueue(z, e).lock) = {}
        /\ Cleaning(z.lock) => Cleaning(Enqueue(z, e).lock)
        /\ \A f : Deferred(Enqueue(z, e).lock, f) => Deferred(z.lock, f) \/ e.gen = f
    <3> DEFINE u == Enqueue(z, e)
    <3>1. z \in MediaType /\ e \in JobType /\ Waits(e)
      BY <1>6, <2>1
    <3>2. /\ u \in MediaType /\ Same(z, u) /\ u.sco = z.sco
          /\ Pc(u.lock) = Pc(z.lock) /\ Drop(u.lock) = Drop(z.lock)
          /\ Cleaning(z.lock) \/ e.k = "cleanup" => Cleaning(u.lock)
          /\ \A f : Deferred(u.lock, f) => Deferred(z.lock, f) \/ (e.k = "exact" /\ e.gen = f)
      BY <3>1, EnqueueView
    <3> HIDE DEF u
    <3> QED
      BY <1>6, <3>2 DEF u
  <2> QED
    BY <1>7, <1>8, <1>9, <2>1, <2>2 DEF Same
<1>10. CASE ~(job.k = "acquire" /\ job.gen # g)
  BY <1>6, <1>7, <1>8, <1>10
<1> QED
  BY <1>9, <1>10

-----------------------------------------------------------------------------
(* The link and what the state shows of it *)

LEMMA PostView ==
  ASSUME NEW R \in Seq(PostType), NEW e \in PostType
  PROVE  /\ Append(R, e) \in Seq(PostType) /\ Len(R) \in Nat
         /\ \A i \in DOMAIN R : /\ i \in DOMAIN Append(R, e) /\ Append(R, e)[i] = R[i]
                                /\ i \in Nat /\ Len(R) + 1 > i
         /\ \A i \in DOMAIN Append(R, e) :
              (i \in DOMAIN R /\ Append(R, e)[i] = R[i]) \/ (i = Len(R) + 1 /\ Append(R, e)[i] = e)
         /\ Len(R) + 1 \in DOMAIN Append(R, e) /\ Append(R, e)[Len(R) + 1] = e
<1> DEFINE Q == Append(R, e)
<1>1. /\ Q \in Seq(PostType) /\ Len(R) \in Nat
      /\ DOMAIN R = 1..Len(R) /\ DOMAIN Q = 1..(Len(R) + 1)
      /\ \A i \in 1..Len(R) : Q[i] = R[i]
      /\ Q[Len(R) + 1] = e
  OBVIOUS
<1> HIDE DEF Q
<1>2. \A i \in DOMAIN Q : i \in DOMAIN R \/ i = Len(R) + 1
  BY <1>1
<1> QED
  BY <1>1, <1>2 DEF Q

LEMMA NextPost ==
  ASSUME NEW R \in Seq(PostType), R # <<>>
  PROVE  /\ Tail(R) \in Seq(PostType)
         /\ \A i \in DOMAIN Tail(R) : /\ i \in Nat /\ i + 1 \in DOMAIN R /\ R[i + 1] = Tail(R)[i]
                                      /\ i + 1 # 1
         /\ \A i \in DOMAIN R : i \in Nat /\ i >= 1
         /\ \A i \in DOMAIN R : i # 1 => i - 1 \in DOMAIN Tail(R) /\ Tail(R)[i - 1] = R[i]
         /\ 1 \in DOMAIN R /\ Head(R) = R[1] /\ R[1] \in PostType
<1> DEFINE Q == Tail(R)
<1>1. /\ Q \in Seq(PostType) /\ Len(R) \in Nat /\ Len(R) # 0
      /\ DOMAIN R = 1..Len(R) /\ DOMAIN Q = 1..(Len(R) - 1)
      /\ \A i \in DOMAIN Q : Q[i] = R[i + 1]
      /\ Head(R) = R[1] /\ R[1] \in PostType
  OBVIOUS
<1> HIDE DEF Q
<1>2. \A i \in DOMAIN R : i # 1 => i - 1 \in DOMAIN Q /\ (i - 1) + 1 = i
  BY <1>1
<1>3. \A i \in DOMAIN R : i # 1 => i - 1 \in DOMAIN Q /\ Q[i - 1] = R[i]
  BY <1>1, <1>2
<1>4. \A i \in DOMAIN Q : i \in Nat /\ i + 1 \in DOMAIN R /\ i + 1 # 1
  BY <1>1
<1> QED
  BY <1>1, <1>3, <1>4 DEF Q

\* Work of the loop that touches neither the link nor the callbacks.
LEMMA LinkWork ==
  ASSUME NEW c, NEW q, NEW S, NEW l, NEW R, LinkOK(c, q, S, l, R),
         NEW d, NEW p, Cleaning(q) => Cleaning(p),
         \/ Pc(p) = Pc(q) /\ Ses(p) = Ses(q)
         \/ Pc(q) = "wait" /\ Pc(p) \in {"wait", "removing"},
         d.active => c.active,
         \/ d.st = c.st
         \/ /\ ~Opening(q)
            /\ l.st = "up" => d.st = "ready"
            /\ l.st # "up" /\ d.st = "ready" => S # {}
  PROVE  LinkOK(d, p, S, l, R)
<1>1. ResumeOK(p, R)
  BY DEF LinkOK, ResumeOK
<1>2. UsersOK(p, S, l, R)
  <2>1. CASE Pc(p) = Pc(q) /\ Ses(p) = Ses(q)
    BY <2>1 DEF LinkOK, UsersOK, Opening
  <2>2. CASE Pc(q) = "wait" /\ Pc(p) \in {"wait", "removing"}
    BY <2>2 DEF LinkOK, UsersOK, Opening
  <2> QED
    BY <2>1, <2>2
<1>3. NewsOK(p, S, l, R)
  <2>1. CASE Pc(p) = Pc(q) /\ Ses(p) = Ses(q)
    BY <2>1 DEF LinkOK, NewsOK, Opening
  <2>2. CASE Pc(q) = "wait" /\ Pc(p) \in {"wait", "removing"}
    BY <2>2 DEF LinkOK, NewsOK, Opening
  <2> QED
    BY <2>1, <2>2
<1>4. ShownOK(d, p, l, R)
  <2>1. CASE d.st = c.st
    BY <2>1 DEF LinkOK, ShownOK, Opening
  <2>2. CASE /\ ~Opening(q)
             /\ l.st = "up" => d.st = "ready"
             /\ l.st # "up" /\ d.st = "ready" => S # {}
    <3>1. l.st # "up" /\ S # {} => Falling(R) \/ Cleaning(q)
      BY <2>2 DEF LinkOK, NewsOK, Failing, Falling, Down
    <3> QED
      BY <2>2, <3>1 DEF LinkOK, ShownOK
  <2> QED
    BY <2>1, <2>2
<1> QED
  BY <1>1, <1>2, <1>3, <1>4 DEF LinkOK

\* A callback is posted that is not about the link.
LEMMA LinkPosted ==
  ASSUME NEW c, NEW q, NEW S, NEW l, NEW R \in Seq(PostType), LinkOK(c, q, S, l, R),
         NEW e \in PostType, e.k \in {"attached", "detached", "cleanup"}
  PROVE  LinkOK(c, q, S, l, Append(R, e))
<1> DEFINE Q == Append(R, e)
<1>1. /\ Q \in Seq(PostType) /\ Len(R) \in Nat
      /\ \A i \in DOMAIN R : i \in DOMAIN Q /\ Q[i] = R[i] /\ i \in Nat /\ Len(R) + 1 > i
      /\ \A i \in DOMAIN Q : (i \in DOMAIN R /\ Q[i] = R[i]) \/ (i = Len(R) + 1 /\ Q[i] = e)
  BY PostView
<1> HIDE DEF Q
<1>2. ResumeOK(q, Q)
  BY <1>1 DEF LinkOK, ResumeOK
<1>3. UsersOK(q, S, l, Q)
  BY <1>1 DEF LinkOK, UsersOK
<1>4. NewsOK(q, S, l, Q)
  BY <1>1 DEF LinkOK, NewsOK, Failing, Down
<1>5. ShownOK(c, q, l, Q)
  BY <1>1 DEF LinkOK, ShownOK, Falling
<1> QED
  BY <1>2, <1>3, <1>4, <1>5 DEF LinkOK, Q

\* A callback runs that does not resume the holder.
LEMMA LinkHeard ==
  ASSUME NEW c, NEW q, NEW S, NEW l, NEW R \in Seq(PostType), LinkOK(c, q, S, l, R),
         R # <<>>, Head(R).k # "resume",
         NEW d, NEW p, Cleaning(q) => Cleaning(p), Pc(p) = Pc(q), Ses(p) = Ses(q),
         l.st # "up" /\ Head(R).k = "failed" => Cleaning(p),
         \/ l.st # "up" /\ Down(Head(R)) /\ ~d.active /\ d.st # "ready"
         \/ l.st = "up" /\ Down(Head(R))
         \/ ~Down(Head(R)) /\ d.st = c.st /\ d.active = c.active
         \/ l.st = "up" /\ d.st = "ready"
  PROVE  LinkOK(d, p, S, l, Tail(R))
<1> DEFINE Q == Tail(R)
<1>1. /\ Q \in Seq(PostType)
      /\ \A i \in DOMAIN Q : i \in Nat /\ i + 1 \in DOMAIN R /\ R[i + 1] = Q[i] /\ i + 1 # 1
      /\ \A i \in DOMAIN R : i \in Nat /\ i >= 1
      /\ \A i \in DOMAIN R : i # 1 => i - 1 \in DOMAIN Q /\ Q[i - 1] = R[i]
      /\ 1 \in DOMAIN R /\ Head(R) = R[1] /\ R[1] \in PostType
  BY NextPost
<1> HIDE DEF Q
<1>a. ASSUME NEW i \in DOMAIN R, NEW j \in DOMAIN Q, i > j + 1
      PROVE  i - 1 \in DOMAIN Q /\ Q[i - 1] = R[i] /\ i - 1 > j
  <2>1. i \in Nat /\ j \in Nat
    BY <1>1
  <2>2. i # 1 /\ i - 1 > j
    BY <1>a, <2>1
  <2> QED
    BY <1>1, <2>2
<1>b. \A i, j \in DOMAIN Q : i + 1 = j + 1 => i = j
  <2> TAKE i, j \in DOMAIN Q
  <2>1. i \in Nat /\ j \in Nat
    BY <1>1
  <2> QED
    BY <2>1
<1>2. ResumeOK(p, Q)
  <2>1. /\ \A i, j \in DOMAIN R : R[i].k = "resume" /\ R[j].k = "resume" => i = j
        /\ \A i \in DOMAIN R : R[i].k = "resume" => Pc(q) \in {"opened", "removed"}
    BY DEF LinkOK, ResumeOK
  <2>2. ASSUME NEW i \in DOMAIN Q, NEW j \in DOMAIN Q, Q[i].k = "resume", Q[j].k = "resume"
        PROVE  i = j
    <3>1. /\ i + 1 \in DOMAIN R /\ R[i + 1].k = "resume"
          /\ j + 1 \in DOMAIN R /\ R[j + 1].k = "resume"
      BY <1>1, <2>2
    <3>2. i + 1 = j + 1
      BY <2>1, <3>1
    <3> QED
      BY <1>b, <3>2
  <2>3. \A i \in DOMAIN Q : Q[i].k = "resume" => Pc(p) \in {"opened", "removed"}
    BY <1>1, <2>1
  <2> QED
    BY <2>2, <2>3 DEF ResumeOK
<1>3. UsersOK(p, S, l, Q)
  <2>1. ASSUME NEW i \in DOMAIN Q, Q[i].k = "resume", Pc(p) = "opened"
        PROVE  IF Q[i].ok THEN /\ Ses(p) \in l.users
                               /\ l.st = "up" \/ \E j \in DOMAIN Q : j > i /\ Q[j].k = "failed"
               ELSE Ses(p) \notin l.users /\ l.st # "up"
    <3>1. IF R[i + 1].ok THEN /\ Ses(p) \in l.users
                              /\ l.st = "up" \/ \E j \in DOMAIN R : j > i + 1 /\ R[j].k = "failed"
          ELSE Ses(p) \notin l.users /\ l.st # "up"
      BY <1>1, <2>1 DEF LinkOK, UsersOK
    <3>2. ASSUME NEW j \in DOMAIN R, j > i + 1, R[j].k = "failed"
          PROVE  \E h \in DOMAIN Q : h > i /\ Q[h].k = "failed"
      BY <1>a, <3>2
    <3>3. R[i + 1].ok <=> Q[i].ok
      BY <1>1
    <3>4. Ses(p) = Ses(q)
      BY <1>1
    <3> QED
      BY <3>1, <3>2, <3>3
  <2>2. /\ l.users \subseteq S /\ (l.st = "up" => l.users # {})
        /\ Opening(q) => Ses(q) \in S
        /\ Pc(q) = "connecting" => Ses(q) \in l.users
        /\ \A s \in S : s \in l.users \/ (Opening(q) /\ s = Ses(q))
    BY DEF LinkOK, UsersOK
  <2>3. Opening(p) <=> Opening(q)
    BY DEF Opening
  <2> QED
    BY <2>1, <2>2, <2>3 DEF UsersOK
<1>4. NewsOK(p, S, l, Q)
  <2>1. ASSUME l.st # "up", NEW s \in S
        PROVE  (Opening(p) /\ s = Ses(p)) \/ Failing(Q) \/ Cleaning(p)
    <3>1. (Opening(q) /\ s = Ses(q)) \/ Failing(R) \/ Cleaning(q)
      BY <2>1 DEF LinkOK, NewsOK
    <3>2. Failing(R) => Head(R).k = "failed" \/ Failing(Q)
      BY <1>1 DEF Failing
    <3> QED
      BY <2>1, <3>1, <3>2 DEF Opening
  <2>2. ASSUME l.st = "up", NEW i \in DOMAIN Q, Down(Q[i])
        PROVE  Pc(p) = "opened" /\ \E j \in DOMAIN Q : j > i /\ Q[j].k = "resume" /\ Q[j].ok
    <3>1. Pc(q) = "opened" /\ \E j \in DOMAIN R : j > i + 1 /\ R[j].k = "resume" /\ R[j].ok
      BY <1>1, <2>2 DEF LinkOK, NewsOK
    <3>2. PICK j \in DOMAIN R : j > i + 1 /\ R[j].k = "resume" /\ R[j].ok
      BY <3>1
    <3>3. \E h \in DOMAIN Q : h > i /\ Q[h] = R[j]
      BY <1>a, <3>2
    <3> QED
      BY <3>1, <3>2, <3>3
  <2> QED
    BY <2>1, <2>2 DEF NewsOK
<1>5. ShownOK(d, p, l, Q)
  <2>1. Falling(R) => Down(Head(R)) \/ Falling(Q)
    BY <1>1 DEF Falling
  <2>2. l.st = "up" /\ Down(Head(R)) => Opening(p)
    BY <1>1 DEF LinkOK, NewsOK, Opening
  <2>3. Opening(p) <=> Opening(q)
    BY DEF Opening
  <2> QED
    BY <2>1, <2>2, <2>3 DEF LinkOK, ShownOK
<1> QED
  BY <1>2, <1>3, <1>4, <1>5 DEF LinkOK, Q

LEMMA PostTwo ==
  ASSUME NEW R \in Seq(PostType), NEW a \in PostType, NEW b \in PostType
  PROVE  /\ R \o <<a, b>> \in Seq(PostType) /\ Len(R) \in Nat
         /\ \A i \in DOMAIN R : /\ i \in DOMAIN (R \o <<a, b>>) /\ (R \o <<a, b>>)[i] = R[i]
                                /\ i \in Nat /\ Len(R) + 2 > i
         /\ \A i \in DOMAIN (R \o <<a, b>>) :
              \/ i \in DOMAIN R /\ (R \o <<a, b>>)[i] = R[i]
              \/ i = Len(R) + 1 /\ (R \o <<a, b>>)[i] = a
              \/ i = Len(R) + 2 /\ (R \o <<a, b>>)[i] = b
         /\ Len(R) + 1 \in DOMAIN (R \o <<a, b>>) /\ (R \o <<a, b>>)[Len(R) + 1] = a
         /\ Len(R) + 2 \in DOMAIN (R \o <<a, b>>) /\ (R \o <<a, b>>)[Len(R) + 2] = b
<1> DEFINE P == Append(R, a)
           Q == Append(P, b)
<1>1. R \o <<a, b>> = Q
  BY PostedInTurn
<1>2. P \in Seq(PostType) /\ Len(P) = Len(R) + 1 /\ Len(R) \in Nat
  OBVIOUS
<1>3. /\ \A i \in DOMAIN R : i \in DOMAIN P /\ P[i] = R[i] /\ i \in Nat /\ Len(R) + 1 > i
      /\ \A i \in DOMAIN P : (i \in DOMAIN R /\ P[i] = R[i]) \/ (i = Len(R) + 1 /\ P[i] = a)
      /\ Len(R) + 1 \in DOMAIN P /\ P[Len(R) + 1] = a
  BY PostView
<1> HIDE DEF P
<1>4. /\ Q \in Seq(PostType)
      /\ \A i \in DOMAIN P : i \in DOMAIN Q /\ Q[i] = P[i] /\ i \in Nat /\ Len(P) + 1 > i
      /\ \A i \in DOMAIN Q : (i \in DOMAIN P /\ Q[i] = P[i]) \/ (i = Len(P) + 1 /\ Q[i] = b)
      /\ Len(P) + 1 \in DOMAIN Q /\ Q[Len(P) + 1] = b
  BY <1>2, PostView
<1> HIDE DEF Q
<1>5. Len(P) + 1 = Len(R) + 2
  BY <1>2
<1>6. /\ \A i \in DOMAIN R : i \in DOMAIN Q /\ Q[i] = R[i] /\ i \in Nat /\ Len(R) + 2 > i
      /\ \A i \in DOMAIN Q : \/ i \in DOMAIN R /\ Q[i] = R[i]
                             \/ i = Len(R) + 1 /\ Q[i] = a
                             \/ i = Len(R) + 2 /\ Q[i] = b
  BY <1>2, <1>3, <1>4, <1>5
<1> QED
  BY <1>1, <1>2, <1>3, <1>4, <1>5, <1>6

LEMMA HolderView ==
  ASSUME LeaseInv
  PROVE  /\ m \in MediaType /\ LockOK(m.lock, m.lease.gen, m.last, sessions)
         /\ ready \in Seq(PostType) /\ MediaOK(m, sessions, ready)
         /\ m.lock # <<>> => /\ Pc(m.lock) = Holder.pc /\ Ses(m.lock) = Holder.s
                             /\ Drop(m.lock) = Holder.drop /\ Holder = Head(m.lock)
                             /\ Holder \in JobType
<1>1. /\ m \in MediaType /\ LockOK(m.lock, m.lease.gen, m.last, sessions)
      /\ ready \in Seq(PostType) /\ MediaOK(m, sessions, ready)
  BY DEF LeaseInv, MediaOK
<1>2. m.lock # <<>> => Holder = m.lock[1] /\ Holder \in JobType
  BY HolderFacts
<1> QED
  BY <1>1, <1>2 DEF Pc, Ses, Drop, Holder

LEMMA AdvanceView ==
  ASSUME LeaseInv, m.lock # <<>>, NEW pc \in Phases, Advance(pc)
  PROVE  /\ m' \in MediaType /\ Same(m, m') /\ m'.sco = m.sco
         /\ Pc(m'.lock) = pc /\ Ses(m'.lock) = Ses(m.lock) /\ Drop(m'.lock) = Drop(m.lock)
         /\ Remains(m.lock, m'.lock)
<1> DEFINE new == [Holder EXCEPT !.pc = pc]
<1>1. /\ m \in MediaType /\ m' = SetHead(m, new) /\ Holder = Head(m.lock) /\ Holder \in JobType
      /\ Ses(m.lock) = Holder.s /\ Drop(m.lock) = Holder.drop
  BY HolderView DEF Advance
<1>2. /\ new \in JobType /\ new.k = Holder.k /\ new.gen = Holder.gen /\ new.s = Holder.s
      /\ new.reused = Holder.reused /\ new.drop = Holder.drop /\ new.pc = pc
  BY <1>1 DEF JobType
<1> HIDE DEF new
<1> QED
  BY <1>1, <1>2, SetHeadView

\* LinkJoins: the link is up, and the holder is told so.
LEMMA JoinsShown ==
  ASSUME LeaseInv, ShowInv, LinkJoins
  PROVE  LinkOK(m'.sco, m'.lock, sessions', link', ready')
<1> DEFINE q == m.lock
           p == m'.lock
           e == Resume(TRUE)
<1>1. /\ q # <<>> /\ Holder.pc = "opening" /\ link.st = "up" /\ sessions' = sessions
      /\ link' = [link EXCEPT !.users = link.users \cup {Holder.s}]
      /\ ready' = Append(ready, e) /\ Advance("opened")
  BY DEF LinkJoins, Holds, Up
<1>2. /\ m'.sco = m.sco /\ Pc(p) = "opened" /\ Ses(p) = Ses(q) /\ Remains(q, p)
      /\ Pc(q) = "opening" /\ Ses(q) = Holder.s /\ ready \in Seq(PostType)
  BY <1>1, AdvanceView, HolderView DEF Phases
<1>3. e \in PostType /\ e.k = "resume" /\ e.ok = TRUE
  BY PostTypes DEF Resume
<1> HIDE DEF e
<1>4. /\ Len(ready) \in Nat
      /\ \A i \in DOMAIN ready : i \in DOMAIN ready' /\ ready'[i] = ready[i]
      /\ \A i \in DOMAIN ready' : \/ i \in DOMAIN ready /\ ready'[i] = ready[i]
                                  \/ i = Len(ready) + 1 /\ ready'[i] = e
  BY <1>1, <1>2, <1>3, PostView
<1>5. link'.st = "up" /\ link'.users = link.users \cup {Ses(q)}
  BY <1>1, <1>2, MediaFacts DEF LinkType
<1>6. LinkOK(m.sco, q, sessions, link, ready)
  BY DEF ShowInv, ShowOK
<1> HIDE DEF p, q
<1>7. \A i \in DOMAIN ready : ready[i].k # "resume" /\ ~Down(ready[i])
  BY <1>1, <1>2, <1>6 DEF LinkOK, ResumeOK, NewsOK
<1>8. ResumeOK(p, ready')
  BY <1>2, <1>3, <1>4, <1>7 DEF ResumeOK
<1>9. UsersOK(p, sessions, link', ready')
  BY <1>1, <1>2, <1>3, <1>4, <1>5, <1>6, <1>7 DEF LinkOK, UsersOK, Opening
<1>10. NewsOK(p, sessions, link', ready')
  BY <1>3, <1>4, <1>5, <1>7 DEF NewsOK, Down
<1>11. ShownOK(m'.sco, p, link', ready')
  BY <1>2, <1>5 DEF ShownOK, Opening
<1> QED
  BY <1>1, <1>8, <1>9, <1>10, <1>11 DEF LinkOK, p

\* LinkConnects: the link is not up yet.
LEMMA ConnectsShown ==
  ASSUME LeaseInv, ShowInv, LinkConnects
  PROVE  LinkOK(m'.sco, m'.lock, sessions', link', ready')
<1> DEFINE q == m.lock
           p == m'.lock
           e == Health("connecting")
<1>1. /\ q # <<>> /\ Holder.pc = "opening" /\ link.st # "up" /\ sessions' = sessions
      /\ link' = [st |-> "connecting", users |-> link.users \cup {Holder.s}]
      /\ ready' = Append(ready, e) /\ Advance("connecting")
  BY DEF LinkConnects, Holds, Up
<1>2. /\ m'.sco = m.sco /\ Pc(p) = "connecting" /\ Ses(p) = Ses(q) /\ Remains(q, p)
      /\ Pc(q) = "opening" /\ Ses(q) = Holder.s /\ ready \in Seq(PostType)
  BY <1>1, AdvanceView, HolderView DEF Phases
<1>3. e \in PostType /\ e.k = "connecting"
  BY PostTypes DEF Health, HealthStates
<1> HIDE DEF e
<1>4. /\ Len(ready) \in Nat
      /\ \A i \in DOMAIN ready : i \in DOMAIN ready' /\ ready'[i] = ready[i]
      /\ \A i \in DOMAIN ready' : \/ i \in DOMAIN ready /\ ready'[i] = ready[i]
                                  \/ i = Len(ready) + 1 /\ ready'[i] = e
      /\ Len(ready) + 1 \in DOMAIN ready' /\ ready'[Len(ready) + 1] = e
  BY <1>1, <1>2, <1>3, PostView
<1>5. link'.st = "connecting" /\ link'.users = link.users \cup {Ses(q)}
  BY <1>1, <1>2
<1>6. LinkOK(m.sco, q, sessions, link, ready)
  BY DEF ShowInv, ShowOK
<1> HIDE DEF p, q
<1>7. \A i \in DOMAIN ready' : ready'[i].k # "resume"
  BY <1>2, <1>3, <1>4, <1>6 DEF LinkOK, ResumeOK
<1>8. ResumeOK(p, ready')
  BY <1>7 DEF ResumeOK
<1>9. UsersOK(p, sessions, link', ready')
  BY <1>1, <1>2, <1>5, <1>6, <1>7 DEF LinkOK, UsersOK, Opening
<1>10. NewsOK(p, sessions, link', ready')
  BY <1>1, <1>2, <1>4, <1>5, <1>6 DEF LinkOK, NewsOK, Failing, Remains, Opening
<1>11. ShownOK(m'.sco, p, link', ready')
  BY <1>3, <1>4, <1>5 DEF ShownOK, Falling, Down
<1> QED
  BY <1>1, <1>8, <1>9, <1>10, <1>11 DEF LinkOK, p

\* LinkUp: what was heard of it before is older than the holder's news.
LEMMA UpShown ==
  ASSUME LeaseInv, ShowInv, LinkUp
  PROVE  LinkOK(m'.sco, m'.lock, sessions', link', ready')
<1> DEFINE q == m.lock
           p == m'.lock
           a == Health("connected")
           b == Resume(TRUE)
<1>1. /\ q # <<>> /\ Holder.pc = "connecting" /\ sessions' = sessions
      /\ link' = [link EXCEPT !.st = "up"]
      /\ ready' = ready \o <<a, b>> /\ Advance("opened")
  BY DEF LinkUp, Holds
<1>2. /\ m'.sco = m.sco /\ Pc(p) = "opened" /\ Ses(p) = Ses(q) /\ Remains(q, p)
      /\ Pc(q) = "connecting" /\ Ses(q) = Holder.s /\ ready \in Seq(PostType)
  BY <1>1, AdvanceView, HolderView DEF Phases
<1>3. /\ a \in PostType /\ a.k = "connected" /\ b \in PostType /\ b.k = "resume" /\ b.ok = TRUE
  BY PostTypes DEF Health, HealthStates, Resume
<1> HIDE DEF a, b
<1>4. /\ Len(ready) \in Nat
      /\ \A i \in DOMAIN ready : /\ i \in DOMAIN ready' /\ ready'[i] = ready[i]
                                 /\ i \in Nat /\ Len(ready) + 2 > i
      /\ \A i \in DOMAIN ready' : \/ i \in DOMAIN ready /\ ready'[i] = ready[i]
                                  \/ i = Len(ready) + 1 /\ ready'[i] = a
                                  \/ i = Len(ready) + 2 /\ ready'[i] = b
      /\ Len(ready) + 2 \in DOMAIN ready' /\ ready'[Len(ready) + 2] = b
  BY <1>1, <1>2, <1>3, PostTwo
<1>5. link'.st = "up" /\ link'.users = link.users
  BY <1>1, <1>2, MediaFacts DEF LinkType
<1>6. LinkOK(m.sco, q, sessions, link, ready)
  BY DEF ShowInv, ShowOK
<1> HIDE DEF p, q
<1>7. \A i \in DOMAIN ready : ready[i].k # "resume"
  BY <1>2, <1>6 DEF LinkOK, ResumeOK
<1>8. ResumeOK(p, ready')
  BY <1>2, <1>3, <1>4, <1>7 DEF ResumeOK
<1>9. UsersOK(p, sessions, link', ready')
  BY <1>1, <1>2, <1>3, <1>4, <1>5, <1>6, <1>7 DEF LinkOK, UsersOK, Opening
<1>10. NewsOK(p, sessions, link', ready')
  BY <1>2, <1>3, <1>4, <1>5 DEF NewsOK, Down
<1>11. ShownOK(m'.sco, p, link', ready')
  BY <1>2, <1>5 DEF ShownOK, Opening
<1> QED
  BY <1>1, <1>8, <1>9, <1>10, <1>11 DEF LinkOK, p

\* LinkFails: the holder is told, and the state before him.
LEMMA FailsShown ==
  ASSUME LeaseInv, ShowInv, LinkFails
  PROVE  LinkOK(m'.sco, m'.lock, sessions', link', ready')
<1> DEFINE q == m.lock
           p == m'.lock
           a == Health("failed")
           b == Resume(FALSE)
<1>1. /\ q # <<>> /\ Holder.pc = "connecting" /\ sessions' = sessions
      /\ link' = [st |-> "failed", users |-> link.users \ {Holder.s}]
      /\ ready' = ready \o <<a, b>> /\ Advance("opened")
  BY DEF LinkFails, Holds
<1>2. /\ m'.sco = m.sco /\ Pc(p) = "opened" /\ Ses(p) = Ses(q) /\ Remains(q, p)
      /\ Pc(q) = "connecting" /\ Ses(q) = Holder.s /\ ready \in Seq(PostType)
  BY <1>1, AdvanceView, HolderView DEF Phases
<1>3. /\ a \in PostType /\ a.k = "failed" /\ b \in PostType /\ b.k = "resume" /\ b.ok = FALSE
  BY PostTypes DEF Health, HealthStates, Resume
<1> HIDE DEF a, b
<1>4. /\ Len(ready) \in Nat
      /\ \A i \in DOMAIN ready : i \in DOMAIN ready' /\ ready'[i] = ready[i]
      /\ \A i \in DOMAIN ready' : \/ i \in DOMAIN ready /\ ready'[i] = ready[i]
                                  \/ i = Len(ready) + 1 /\ ready'[i] = a
                                  \/ i = Len(ready) + 2 /\ ready'[i] = b
      /\ Len(ready) + 1 \in DOMAIN ready' /\ ready'[Len(ready) + 1] = a
  BY <1>1, <1>2, <1>3, PostTwo
<1>5. link'.st = "failed" /\ link'.users = link.users \ {Ses(q)}
  BY <1>1, <1>2
<1>6. LinkOK(m.sco, q, sessions, link, ready)
  BY DEF ShowInv, ShowOK
<1> HIDE DEF p, q
<1>7. \A i \in DOMAIN ready : ready[i].k # "resume"
  BY <1>2, <1>6 DEF LinkOK, ResumeOK
<1>8. ResumeOK(p, ready')
  BY <1>2, <1>3, <1>4, <1>7 DEF ResumeOK
<1>9. UsersOK(p, sessions, link', ready')
  BY <1>1, <1>2, <1>3, <1>4, <1>5, <1>6, <1>7 DEF LinkOK, UsersOK, Opening
<1>10. NewsOK(p, sessions, link', ready')
  BY <1>3, <1>4, <1>5 DEF NewsOK, Failing
<1>11. ShownOK(m'.sco, p, link', ready')
  BY <1>3, <1>4, <1>5 DEF ShownOK, Falling, Down
<1> QED
  BY <1>1, <1>8, <1>9, <1>10, <1>11 DEF LinkOK, p

\* BridgeFails: the state will hear of it, after what it is still to be told.
LEMMA BridgeShown ==
  ASSUME LeaseInv, ShowInv, BridgeFails
  PROVE  LinkOK(m'.sco, m'.lock, sessions', link', ready')
<1> DEFINE q == m.lock
           e == Health("failed")
<1>1. /\ link.st = "up" /\ sessions' = sessions /\ m' = m
      /\ link' = [link EXCEPT !.st = "failed"] /\ ready' = Append(ready, e)
  BY DEF BridgeFails, Up
<1>2. ready \in Seq(PostType)
  BY HolderView
<1>3. e \in PostType /\ e.k = "failed"
  BY PostTypes DEF Health, HealthStates
<1> HIDE DEF e
<1>4. /\ Len(ready) \in Nat
      /\ \A i \in DOMAIN ready : /\ i \in DOMAIN ready' /\ ready'[i] = ready[i]
                                 /\ i \in Nat /\ Len(ready) + 1 > i
      /\ \A i \in DOMAIN ready' : \/ i \in DOMAIN ready /\ ready'[i] = ready[i]
                                  \/ i = Len(ready) + 1 /\ ready'[i] = e
      /\ Len(ready) + 1 \in DOMAIN ready' /\ ready'[Len(ready) + 1] = e
  BY <1>1, <1>2, <1>3, PostView
<1>5. link'.st = "failed" /\ link'.users = link.users
  BY <1>1, MediaFacts DEF LinkType
<1>6. LinkOK(m.sco, q, sessions, link, ready)
  BY DEF ShowInv, ShowOK
<1> HIDE DEF q
<1>7. ResumeOK(q, ready')
  <2>1. \A i \in DOMAIN ready' : ready'[i].k = "resume" => i \in DOMAIN ready /\ ready[i].k = "resume"
    BY <1>3, <1>4
  <2> QED
    BY <1>6, <2>1 DEF LinkOK, ResumeOK
<1>8. UsersOK(q, sessions, link', ready')
  <2>1. ASSUME NEW i \in DOMAIN ready', ready'[i].k = "resume", Pc(q) = "opened"
        PROVE  /\ ready'[i].ok /\ Ses(q) \in link.users
               /\ \E j \in DOMAIN ready' : j > i /\ ready'[j].k = "failed"
    <3>1. i \in DOMAIN ready /\ ready'[i] = ready[i] /\ Len(ready) + 1 > i
      BY <1>3, <1>4, <2>1
    <3>2. ready[i].ok /\ Ses(q) \in link.users
      BY <1>1, <1>6, <2>1, <3>1 DEF LinkOK, UsersOK
    <3> QED
      BY <1>3, <1>4, <3>1, <3>2
  <2> QED
    BY <1>5, <1>6, <2>1 DEF LinkOK, UsersOK
<1>9. NewsOK(q, sessions, link', ready')
  BY <1>3, <1>4, <1>5 DEF NewsOK, Failing
<1>10. ShownOK(m.sco, q, link', ready')
  BY <1>3, <1>4, <1>5 DEF ShownOK, Falling, Down
<1> QED
  BY <1>1, <1>7, <1>8, <1>9, <1>10 DEF LinkOK, q

\* SessionsRemoved: the link is stopped with its last user.
LEMMA RemovedShown ==
  ASSUME LeaseInv, ShowInv, SessionsRemoved
  PROVE  LinkOK(m'.sco, m'.lock, sessions', link', ready')
<1> DEFINE q == m.lock
           p == m'.lock
           D == Holder.drop
           last == link.users # {} /\ link.users \ D = {}
           a == Health("stopped")
           b == Resume(TRUE)
<1>1. /\ q # <<>> /\ Holder.pc = "removing" /\ sessions' = sessions \ D
      /\ link' = [st |-> IF last THEN "stopped" ELSE link.st, users |-> link.users \ D]
      /\ ready' = ready \o (IF last THEN <<a>> ELSE <<>>) \o <<b>>
      /\ Advance("removed")
  BY DEF SessionsRemoved
<1>2. /\ m'.sco = m.sco /\ Pc(p) = "removed" /\ Remains(q, p)
      /\ Pc(q) = "removing" /\ ready \in Seq(PostType)
  BY <1>1, AdvanceView, HolderView DEF Phases
<1>3. /\ a \in PostType /\ a.k = "stopped" /\ b \in PostType /\ b.k = "resume"
  BY PostTypes DEF Health, HealthStates, Resume
<1>4. ready' = IF last THEN ready \o <<a, b>> ELSE Append(ready, b)
  <2> HIDE DEF a, b
  <2>1. CASE last
    <3>1. Append(ready, a) \in Seq(PostType)
      BY <1>2, <1>3
    <3>2. ready \o <<a>> = Append(ready, a) /\ ready \o <<a, b>> = Append(Append(ready, a), b)
      BY <1>2, <1>3, PostedInTurn
    <3>3. Append(ready, a) \o <<b>> = Append(Append(ready, a), b)
      BY <1>3, <3>1, PostedInTurn
    <3> QED
      BY <1>1, <2>1, <3>2, <3>3
  <2>2. CASE ~last
    BY <1>1, <1>2, <1>3, <2>2, PostedInTurn
  <2> QED
    BY <2>1, <2>2
<1> HIDE DEF a, b, last
<1>5. /\ \A i \in DOMAIN ready : i \in DOMAIN ready' /\ ready'[i] = ready[i]
      /\ \A i \in DOMAIN ready' : \/ i \in DOMAIN ready /\ ready'[i] = ready[i]
                                  \/ last /\ ready'[i] = a
                                  \/ ready'[i] = b /\ i = Len(ready) + (IF last THEN 2 ELSE 1)
      /\ last => \E i \in DOMAIN ready' : ready'[i] = a
  <2>1. CASE last
    <3> DEFINE Q == ready \o <<a, b>>
    <3>1. /\ \A i \in DOMAIN ready : i \in DOMAIN Q /\ Q[i] = ready[i]
          /\ \A i \in DOMAIN Q : \/ i \in DOMAIN ready /\ Q[i] = ready[i]
                                 \/ i = Len(ready) + 1 /\ Q[i] = a
                                 \/ i = Len(ready) + 2 /\ Q[i] = b
          /\ Len(ready) + 1 \in DOMAIN Q /\ Q[Len(ready) + 1] = a
      BY <1>2, <1>3, PostTwo
    <3>2. ready' = Q
      BY <1>4, <2>1
    <3> HIDE DEF Q
    <3> QED
      BY <2>1, <3>1, <3>2
  <2>2. CASE ~last
    BY <1>2, <1>3, <1>4, <2>2, PostView
  <2> QED
    BY <2>1, <2>2
<1>6. /\ link'.st = (IF last THEN "stopped" ELSE link.st) /\ link'.users = link.users \ D
  BY <1>1
<1>7. LinkOK(m.sco, q, sessions, link, ready) /\ ~Opening(q) /\ ~Opening(p)
  BY <1>2 DEF ShowInv, ShowOK, Opening
<1> HIDE DEF p, q
<1>8. /\ \A i \in DOMAIN ready : ready[i].k # "resume" /\ (link.st = "up" => ~Down(ready[i]))
      /\ link.users = sessions
  BY <1>2, <1>7 DEF LinkOK, ResumeOK, NewsOK, UsersOK
<1>9. ResumeOK(p, ready')
  BY <1>2, <1>3, <1>5, <1>8 DEF ResumeOK
<1>10. last <=> link.users # {} /\ link.users \ D = {}
  BY DEF last
<1>11. UsersOK(p, sessions', link', ready')
  BY <1>1, <1>2, <1>6, <1>7, <1>8, <1>10 DEF LinkOK, UsersOK, Opening
<1>12. NewsOK(p, sessions', link', ready')
  BY <1>1, <1>2, <1>3, <1>5, <1>6, <1>7, <1>8, <1>10 DEF LinkOK, NewsOK, Failing, Remains, Down
<1>13. ShownOK(m'.sco, p, link', ready')
  BY <1>2, <1>3, <1>5, <1>6, <1>7 DEF LinkOK, ShownOK, Falling, Remains, Down
<1> QED
  BY <1>9, <1>11, <1>12, <1>13 DEF LinkOK, p

-----------------------------------------------------------------------------
(* The lease, its stream and its client *)

\* The callbacks Q say of the lease g what R says.
SameNotes(R, Q, g) ==
  /\ Noted(Q, g) <=> Noted(R, g)
  /\ \A k : LastNote(Q, g, k) => LastNote(R, g, k)
  /\ Swept(Q, g) => Swept(R, g)

LEMMA NotesReflexive ==
  ASSUME NEW R, NEW g PROVE SameNotes(R, R, g)
BY DEF SameNotes

LEMMA NotesPosted ==
  ASSUME NEW R \in Seq(PostType), NEW e \in PostType, NEW g, ~ClientPost(e, g),
         ~(e.k = "cleanup" /\ e.gen = g)
  PROVE  SameNotes(R, Append(R, e), g) /\ (Failing(R) => Failing(Append(R, e)))
<1> DEFINE Q == Append(R, e)
<1>1. /\ Q \in Seq(PostType) /\ Len(R) \in Nat
      /\ \A i \in DOMAIN R : i \in DOMAIN Q /\ Q[i] = R[i] /\ i \in Nat /\ Len(R) + 1 > i
      /\ \A i \in DOMAIN Q : (i \in DOMAIN R /\ Q[i] = R[i]) \/ (i = Len(R) + 1 /\ Q[i] = e)
  BY PostView
<1> HIDE DEF Q
<1>2. \A i \in DOMAIN Q : ClientPost(Q[i], g) => i \in DOMAIN R /\ Q[i] = R[i]
  BY <1>1
<1>3. Noted(Q, g) <=> Noted(R, g)
  BY <1>1, <1>2 DEF Noted
<1>4. \A k : LastNote(Q, g, k) => LastNote(R, g, k)
  BY <1>1, <1>2 DEF LastNote
<1>5. (Swept(Q, g) => Swept(R, g)) /\ (Failing(R) => Failing(Q))
  BY <1>1 DEF Swept, Failing
<1> QED
  BY <1>3, <1>4, <1>5 DEF SameNotes, Q

\* A callback that runs: whatever is said of the client, what comes later still is.
LEMMA NotesHeard ==
  ASSUME NEW R \in Seq(PostType), R # <<>>, NEW g
  PROVE  /\ ~ClientPost(Head(R), g) => SameNotes(R, Tail(R), g)
         /\ Noted(Tail(R), g) => Noted(R, g)
         /\ \A k : LastNote(Tail(R), g, k) => LastNote(R, g, k)
         /\ Swept(Tail(R), g) => Swept(R, g)
         /\ Failing(R) => Head(R).k = "failed" \/ Failing(Tail(R))
         /\ ClientPost(Head(R), g) => /\ Noted(R, g)
                                      /\ ~Noted(Tail(R), g) => LastNote(R, g, Head(R).k)
<1> DEFINE Q == Tail(R)
<1>1. /\ Q \in Seq(PostType)
      /\ \A i \in DOMAIN Q : i \in Nat /\ i + 1 \in DOMAIN R /\ R[i + 1] = Q[i] /\ i + 1 # 1
      /\ \A i \in DOMAIN R : i \in Nat /\ i >= 1
      /\ \A i \in DOMAIN R : i # 1 => i - 1 \in DOMAIN Q /\ Q[i - 1] = R[i]
      /\ 1 \in DOMAIN R /\ Head(R) = R[1] /\ R[1] \in PostType
  BY NextPost
<1> HIDE DEF Q
<1>2. Noted(Q, g) => Noted(R, g)
  BY <1>1 DEF Noted
<1>3. ASSUME NEW k, LastNote(Q, g, k) PROVE LastNote(R, g, k)
  <2>1. PICK i \in DOMAIN Q : /\ ClientPost(Q[i], g) /\ Q[i].k = k
                              /\ \A j \in DOMAIN Q : j > i => ~ClientPost(Q[j], g)
    BY <1>3 DEF LastNote
  <2>2. ASSUME NEW j \in DOMAIN R, j > i + 1 PROVE ~ClientPost(R[j], g)
    <3>1. j \in Nat /\ i \in Nat
      BY <1>1
    <3>2. j # 1 /\ j - 1 > i
      BY <2>2, <3>1
    <3> QED
      BY <1>1, <2>1, <3>2
  <2> QED
    BY <1>1, <2>1, <2>2 DEF LastNote
<1>4. (Swept(Q, g) => Swept(R, g)) /\ (Failing(R) => Head(R).k = "failed" \/ Failing(Q))
  <2>1. ASSUME Swept(Q, g) PROVE Swept(R, g)
    <3>1. PICK i \in DOMAIN Q : Q[i].k = "cleanup" /\ Q[i].gen = g
      BY <2>1 DEF Swept
    <3> QED
      BY <1>1, <3>1 DEF Swept
  <2>2. Failing(R) => Head(R).k = "failed" \/ Failing(Q)
    BY <1>1 DEF Failing
  <2> QED
    BY <2>1, <2>2
<1>5. Noted(R, g) => ClientPost(Head(R), g) \/ Noted(Q, g)
  BY <1>1 DEF Noted
<1>6. ASSUME ClientPost(Head(R), g)
      PROVE  Noted(R, g) /\ (~Noted(Q, g) => LastNote(R, g, Head(R).k))
  <2>1. ASSUME ~Noted(Q, g), NEW j \in DOMAIN R, j > 1 PROVE ~ClientPost(R[j], g)
    BY <1>1, <2>1 DEF Noted
  <2> QED
    BY <1>1, <1>6, <2>1 DEF Noted, LastNote
<1> QED
  BY <1>2, <1>3, <1>4, <1>5, <1>6 DEF Q, SameNotes

\* The state y after x, with the same lease.
LEMMA StreamKept ==
  ASSUME NEW x, NEW y, StreamOK(x), y.lease = x.lease,
         \/ /\ y.sco.st = x.sco.st /\ y.sco.stream = x.sco.stream
            /\ y.sco.attached = x.sco.attached
         \/ \E st, g : g \in {0, x.lease.gen} /\ ScoTo(x.sco, y.sco, st, g),
         x.lease.gen # 0 /\ Created(x.lock, x.lease.gen)
           => Created(y.lock, x.lease.gen) \/ y.sco.stream = x.lease.gen
  PROVE  StreamOK(y)
BY DEF StreamOK, ScoTo

LEMMA RevokedKept ==
  ASSUME NEW x, NEW y, NEW R, NEW Q, NEW st, NEW tt, RevokedOK(x, R, st),
         y.lease = x.lease, y.last = x.last, SameNotes(R, Q, x.lease.gen),
         Deferred(y.lock, x.lease.gen) => Deferred(x.lock, x.lease.gen),
         Drop(y.lock) \in {{}, Drop(x.lock)}, tt = "active" => st = "active"
  PROVE  RevokedOK(y, Q, tt)
BY DEF RevokedOK, SameNotes

LEMMA ClientsKept ==
  ASSUME NEW x, NEW y, NEW S, NEW R, NEW Q, NEW st, NEW tt, ClientsOK(x, S, R, st),
         y.lease = x.lease, y.attached = x.attached,
         \/ y.tokens \subseteq x.tokens
         \/ /\ y.tokens \subseteq x.tokens \cup {x.lease.gen}
            /\ x.lease.gen \in S /\ ~Opening(y.lock) /\ y.sco.stream = x.lease.gen,
         SameNotes(R, Q, x.lease.gen), Opening(y.lock) <=> Opening(x.lock),
         Opening(x.lock) => Ses(y.lock) = Ses(x.lock),
         x.lease.gen \in S /\ ~Opening(x.lock) /\ Leaving(x, R) => Leaving(y, Q),
         tt = "active" => st = "active",
         \/ y.sco.stream = x.sco.stream /\ y.sco.attached = x.sco.attached
         \/ /\ y.sco.stream = x.lease.gen
            /\ y.sco.attached = (x.sco.attached /\ x.sco.stream = x.lease.gen)
         \/ ~y.sco.attached /\ (x.lease.gen \in S /\ ~Opening(x.lock) => Leaving(y, Q))
  PROVE  ClientsOK(y, S, Q, tt)
<1> DEFINE g == x.lease.gen
<1>1. SUFFICES ASSUME g # 0 PROVE ClientsOK(y, S, Q, tt)
  BY DEF ClientsOK
<1>2. /\ g \notin S /\ st = "active" => Unused(x, R)
      /\ Opening(x.lock) /\ g \in S => g = Ses(x.lock) /\ Unused(x, R) /\ ~x.sco.attached
      /\ g \in S /\ ~Opening(x.lock) => Leaving(x, R) \/ ClientShown(x, R)
  BY <1>1 DEF ClientsOK
<1>3. y.tokens \subseteq x.tokens => (Unused(x, R) => Unused(y, Q))
  BY DEF Unused, SameNotes
<1>4. ~y.sco.attached \/ x.sco.attached
  OBVIOUS
<1>5. ASSUME g \in S, ~Opening(y.lock), ~Leaving(y, Q) PROVE ClientShown(y, Q)
  <2>1. ClientShown(x, R)
    BY <1>2, <1>5
  <2>2. g \in x.attached => ~Unused(x, R)
    BY DEF Unused
  <2>3. Noted(R, g) => ~Unused(x, R)
    BY DEF Unused
  <2>4. /\ ~Noted(Q, g) => (y.sco.attached <=> g \in y.attached)
        /\ LastNote(Q, g, "attached") => g \in y.attached
        /\ LastNote(Q, g, "detached") => g \notin y.attached
    BY <1>5, <2>1, <2>2 DEF ClientShown, SameNotes
  <2>5. ~Unused(y, Q) => y.sco.stream = g
    BY <1>3, <1>5, <2>1 DEF ClientShown
  <2> QED
    BY <2>4, <2>5 DEF ClientShown
<1> QED
  BY <1>1, <1>2, <1>3, <1>4, <1>5 DEF ClientsOK

\* There is no lease after x.
LEMMA NoneShown ==
  ASSUME NEW x \in MediaType, NEW y \in MediaType, NEW S, NEW Q, NEW tt,
         StreamOK(x), Revoked(x, y), Drop(y.lock) \subseteq 0 .. x.last,
         \/ /\ y.sco.st = x.sco.st /\ y.sco.stream = x.sco.stream
            /\ y.sco.attached = x.sco.attached
         \/ \E k : ScoTo(x.sco, y.sco, k, 0)
  PROVE  StreamOK(y) /\ RevokedOK(y, Q, tt) /\ ClientsOK(y, S, Q, tt)
<1>1. y.lease.gen = 0 /\ y.last = x.last
  BY DEF Revoked
<1>2. y.sco.st # "ready" => y.sco.stream = 0 /\ ~y.sco.attached
  BY DEF StreamOK, ScoTo
<1>3. Drop(y.lock) \subseteq 0 .. y.last
  BY <1>1
<1> QED
  BY <1>1, <1>2, <1>3 DEF StreamOK, RevokedOK, ClientsOK

-----------------------------------------------------------------------------
(* The actions *)

LEMMA Shown ==
  ASSUME LinkOK(m'.sco, m'.lock, sessions', link', ready'), StreamOK(m'),
         RevokedOK(m', ready', call'.st), ClientsOK(m', sessions', ready', call'.st)
  PROVE  ShowInv'
BY DEF ShowInv, ShowOK

LEMMA HasShown ==
  ASSUME ShowInv
  PROVE  /\ LinkOK(m.sco, m.lock, sessions, link, ready) /\ StreamOK(m)
         /\ RevokedOK(m, ready, call.st) /\ ClientsOK(m, sessions, ready, call.st)
BY DEF ShowInv, ShowOK

\* The link's news says nothing of clients.
LEMMA NewsPosted ==
  ASSUME NEW R \in Seq(PostType), NEW e \in PostType, NEW g,
         e.k \in HealthStates \cup {"resume"}
  PROVE  SameNotes(R, Append(R, e), g) /\ (Failing(R) => Failing(Append(R, e)))
BY NotesPosted DEF ClientPost, HealthStates

LEMMA NewsTwice ==
  ASSUME NEW R \in Seq(PostType), NEW a \in PostType, NEW b \in PostType, NEW g,
         a.k \in HealthStates \cup {"resume"}, b.k \in HealthStates \cup {"resume"}
  PROVE  SameNotes(R, R \o <<a, b>>, g) /\ (Failing(R) => Failing(R \o <<a, b>>))
<1> DEFINE Q == Append(R, a)
<1>1. Q \in Seq(PostType) /\ R \o <<a, b>> = Append(Q, b)
  BY PostedInTurn
<1>2. SameNotes(R, Q, g) /\ (Failing(R) => Failing(Q))
  BY NewsPosted
<1> HIDE DEF Q
<1>3. SameNotes(Q, Append(Q, b), g) /\ (Failing(Q) => Failing(Append(Q, b)))
  BY <1>1, NewsPosted
<1> QED
  BY <1>1, <1>2, <1>3 DEF SameNotes

\* The executor goes on for the holder.
LEMMA ThreadShown ==
  ASSUME LeaseInv, ShowInv, m.lock # <<>>, NEW pc \in Phases, Advance(pc),
         Opening(m.lock) <=> pc \in {"opening", "connecting", "opened"},
         SameNotes(ready, ready', m.lease.gen), Failing(ready) => Failing(ready')
  PROVE  /\ StreamOK(m') /\ RevokedOK(m', ready', call.st)
         /\ ClientsOK(m', sessions, ready', call.st)
<1>1. /\ Same(m, m') /\ m'.sco = m.sco /\ Pc(m'.lock) = pc
      /\ Ses(m'.lock) = Ses(m.lock) /\ Drop(m'.lock) = Drop(m.lock)
      /\ Remains(m.lock, m'.lock)
  BY AdvanceView
<1>2. StreamOK(m) /\ RevokedOK(m, ready, call.st) /\ ClientsOK(m, sessions, ready, call.st)
  BY HasShown
<1>3. StreamOK(m')
  BY <1>1, <1>2, StreamKept DEF Same, Remains
<1>4. RevokedOK(m', ready', call.st)
  BY <1>1, <1>2, RevokedKept DEF Same, Remains
<1>5. Opening(m'.lock) <=> Opening(m.lock)
  BY <1>1 DEF Opening
<1>6. Leaving(m, ready) => Leaving(m', ready')
  BY <1>1 DEF Leaving, Same, Remains
<1>7. ClientsOK(m', sessions, ready', call.st)
  BY <1>1, <1>2, <1>5, <1>6, ClientsKept DEF Same
<1> QED
  BY <1>3, <1>4, <1>7

LEMMA LinkJoinsShown ==
  ASSUME LeaseInv, ShowInv, LinkJoins PROVE ShowInv'
<1>1. /\ m.lock # <<>> /\ Advance("opened") /\ sessions' = sessions /\ call' = call
      /\ ready' = Append(ready, Resume(TRUE)) /\ Holder.pc = "opening"
  BY DEF LinkJoins, Holds
<1>2. ready \in Seq(PostType) /\ Opening(m.lock)
  BY <1>1, HolderView DEF Opening
<1>3. SameNotes(ready, ready', m.lease.gen) /\ (Failing(ready) => Failing(ready'))
  BY <1>1, <1>2, NewsPosted, PostTypes DEF Resume
<1>4. /\ StreamOK(m') /\ RevokedOK(m', ready', call.st)
      /\ ClientsOK(m', sessions, ready', call.st)
  BY <1>1, <1>2, <1>3, ThreadShown DEF Phases
<1> QED
  BY <1>1, <1>4, JoinsShown, Shown

LEMMA LinkConnectsShown ==
  ASSUME LeaseInv, ShowInv, LinkConnects PROVE ShowInv'
<1>1. /\ m.lock # <<>> /\ Advance("connecting") /\ sessions' = sessions /\ call' = call
      /\ ready' = Append(ready, Health("connecting")) /\ Holder.pc = "opening"
  BY DEF LinkConnects, Holds
<1>2. ready \in Seq(PostType) /\ Opening(m.lock)
  BY <1>1, HolderView DEF Opening
<1>3. SameNotes(ready, ready', m.lease.gen) /\ (Failing(ready) => Failing(ready'))
  BY <1>1, <1>2, NewsPosted, PostTypes DEF Health, HealthStates
<1>4. /\ StreamOK(m') /\ RevokedOK(m', ready', call.st)
      /\ ClientsOK(m', sessions, ready', call.st)
  BY <1>1, <1>2, <1>3, ThreadShown DEF Phases
<1> QED
  BY <1>1, <1>4, ConnectsShown, Shown

LEMMA LinkUpShown ==
  ASSUME LeaseInv, ShowInv, LinkUp PROVE ShowInv'
<1>1. /\ m.lock # <<>> /\ Advance("opened") /\ sessions' = sessions /\ call' = call
      /\ ready' = ready \o <<Health("connected"), Resume(TRUE)>> /\ Holder.pc = "connecting"
  BY DEF LinkUp, Holds
<1>2. ready \in Seq(PostType) /\ Opening(m.lock)
  BY <1>1, HolderView DEF Opening
<1>3. SameNotes(ready, ready', m.lease.gen) /\ (Failing(ready) => Failing(ready'))
  BY <1>1, <1>2, NewsTwice, PostTypes DEF Health, HealthStates, Resume
<1>4. /\ StreamOK(m') /\ RevokedOK(m', ready', call.st)
      /\ ClientsOK(m', sessions, ready', call.st)
  BY <1>1, <1>2, <1>3, ThreadShown DEF Phases
<1> QED
  BY <1>1, <1>4, UpShown, Shown

LEMMA LinkFailsShown ==
  ASSUME LeaseInv, ShowInv, LinkFails PROVE ShowInv'
<1>1. /\ m.lock # <<>> /\ Advance("opened") /\ sessions' = sessions /\ call' = call
      /\ ready' = ready \o <<Health("failed"), Resume(FALSE)>> /\ Holder.pc = "connecting"
  BY DEF LinkFails, Holds
<1>2. ready \in Seq(PostType) /\ Opening(m.lock)
  BY <1>1, HolderView DEF Opening
<1>3. SameNotes(ready, ready', m.lease.gen) /\ (Failing(ready) => Failing(ready'))
  BY <1>1, <1>2, NewsTwice, PostTypes DEF Health, HealthStates, Resume
<1>4. /\ StreamOK(m') /\ RevokedOK(m', ready', call.st)
      /\ ClientsOK(m', sessions, ready', call.st)
  BY <1>1, <1>2, <1>3, ThreadShown DEF Phases
<1> QED
  BY <1>1, <1>4, FailsShown, Shown

\* Nothing is posted of the client, and the state is as it was.
LEMMA BridgeFailsShown ==
  ASSUME LeaseInv, ShowInv, BridgeFails PROVE ShowInv'
<1>1. /\ m' = m /\ sessions' = sessions /\ call' = call
      /\ ready' = Append(ready, Health("failed"))
  BY DEF BridgeFails
<1>2. ready \in Seq(PostType)
  BY HolderView
<1>3. SameNotes(ready, ready', m.lease.gen) /\ (Failing(ready) => Failing(ready'))
  BY <1>1, <1>2, NewsPosted, PostTypes DEF Health, HealthStates
<1>4. StreamOK(m) /\ RevokedOK(m, ready, call.st) /\ ClientsOK(m, sessions, ready, call.st)
  BY HasShown
<1>5. RevokedOK(m, ready', call.st)
  BY <1>3, <1>4, RevokedKept
<1>6. Leaving(m, ready) => Leaving(m, ready')
  BY <1>3 DEF Leaving
<1>7. ClientsOK(m, sessions, ready', call.st)
  BY <1>3, <1>4, <1>6, ClientsKept
<1> QED
  BY <1>1, <1>4, <1>5, <1>7, BridgeShown, Shown

LEMMA RemovalPosted ==
  ASSUME LeaseInv, SessionsRemoved, NEW g
  PROVE  SameNotes(ready, ready', g) /\ (Failing(ready) => Failing(ready'))
<1> DEFINE last == link.users # {} /\ link.users \ Holder.drop = {}
           a == Health("stopped")
           b == Resume(TRUE)
<1>1. ready' = ready \o (IF last THEN <<a>> ELSE <<>>) \o <<b>>
  BY DEF SessionsRemoved
<1>2. ready \in Seq(PostType)
  BY HolderView
<1>3. /\ a \in PostType /\ a.k \in HealthStates /\ b \in PostType /\ b.k = "resume"
  BY PostTypes DEF Health, HealthStates, Resume
<1> HIDE DEF a, b, last
<1>4. CASE last
  <2>1. Append(ready, a) \in Seq(PostType)
    BY <1>2, <1>3
  <2>2. ready \o <<a>> = Append(ready, a) /\ ready \o <<a, b>> = Append(Append(ready, a), b)
    BY <1>2, <1>3, PostedInTurn
  <2>3. Append(ready, a) \o <<b>> = Append(Append(ready, a), b)
    BY <1>3, <2>1, PostedInTurn
  <2>4. ready' = ready \o <<a, b>>
    BY <1>1, <1>4, <2>2, <2>3
  <2> QED
    BY <1>2, <1>3, <2>4, NewsTwice
<1>5. CASE ~last
  <2>1. ready' = Append(ready, b)
    BY <1>1, <1>2, <1>3, <1>5, PostedInTurn
  <2> QED
    BY <1>2, <1>3, <2>1, NewsPosted
<1> QED
  BY <1>4, <1>5

\* The session of the lease is closed by number only if the call is ending.
LEMMA SessionsRemovedShown ==
  ASSUME LeaseInv, ShowInv, SessionsRemoved PROVE ShowInv'
<1> DEFINE D == Holder.drop
           g == m.lease.gen
<1>1. /\ m.lock # <<>> /\ Holder.pc = "removing" /\ sessions' = sessions \ D
      /\ Advance("removed") /\ call' = call
  BY DEF SessionsRemoved
<1>2. /\ ~Opening(m.lock) /\ Drop(m.lock) = D
      /\ "removed" \in Phases /\ "removed" \notin {"opening", "connecting", "opened"}
  BY <1>1, HolderView DEF Opening, Phases
<1>3. SameNotes(ready, ready', g) /\ (Failing(ready) => Failing(ready'))
  BY RemovalPosted
<1>4. /\ StreamOK(m') /\ RevokedOK(m', ready', call.st)
      /\ ClientsOK(m', sessions, ready', call.st)
  BY <1>1, <1>2, <1>3, ThreadShown
<1>5. /\ Same(m, m') /\ Pc(m'.lock) = "removed" /\ Drop(m'.lock) = D
  BY <1>1, <1>2, AdvanceView
<1>6. g # 0 /\ g \in D => call.st # "active"
  BY <1>2, HasShown DEF RevokedOK
<1>7. ~Opening(m'.lock) /\ m'.lease.gen = g
  BY <1>5 DEF Opening, Same
<1>8. ClientsOK(m', sessions', ready', call.st)
  BY <1>1, <1>4, <1>6, <1>7 DEF ClientsOK
<1> QED
  BY <1>1, <1>4, <1>8, RemovedShown, Shown

-----------------------------------------------------------------------------
(* Clients, timers and the call *)

\* A token is taken or expires, a timer goes off or a job joins the queue: nothing that
\* is shown of the lease changes.
LEMMA AsideShown ==
  ASSUME LeaseInv, ShowInv, m'.lease = m.lease, m'.last = m.last, m'.sco = m.sco,
         m'.attached = m.attached, m'.tokens \subseteq m.tokens, Stands(m.lock, m'.lock),
         call'.st = "active" => call.st = "active",
         UNCHANGED <<sessions, link, ready>>
  PROVE  ShowInv'
<1>1. /\ LinkOK(m.sco, m.lock, sessions, link, ready) /\ StreamOK(m)
      /\ RevokedOK(m, ready, call.st) /\ ClientsOK(m, sessions, ready, call.st)
  BY HasShown
<1>2. SameNotes(ready, ready', m.lease.gen)
  BY NotesReflexive
<1>3. LinkOK(m'.sco, m'.lock, sessions', link', ready')
  BY <1>1, LinkWork DEF Stands, Remains
<1>4. StreamOK(m')
  BY <1>1, StreamKept DEF Stands, Remains
<1>5. RevokedOK(m', ready', call'.st)
  BY <1>1, <1>2, RevokedKept DEF Stands, Remains
<1>6. Leaving(m, ready) => Leaving(m', ready')
  BY DEF Leaving, Stands, Remains
<1>7. Opening(m'.lock) <=> Opening(m.lock)
  BY DEF Opening, Stands
<1>8. ClientsOK(m', sessions', ready', call'.st)
  BY <1>1, <1>2, <1>6, <1>7, ClientsKept DEF Stands
<1> QED
  BY <1>3, <1>4, <1>5, <1>8, Shown

LEMMA StandsStill ==
  ASSUME NEW q PROVE Stands(q, q)
BY DEF Stands, Remains

LEMMA TokenExpiresShown ==
  ASSUME LeaseInv, ShowInv, TokenExpires PROVE ShowInv'
<1>1. PICK g \in m.tokens : /\ m' = [m EXCEPT !.tokens = @ \ {g}]
                            /\ UNCHANGED <<call, sessions, link, ready>>
  BY DEF TokenExpires
<1>2. /\ m'.lease = m.lease /\ m'.last = m.last /\ m'.sco = m.sco /\ m'.lock = m.lock
      /\ m'.attached = m.attached /\ m'.tokens \subseteq m.tokens
  BY <1>1, HolderView DEF MediaType
<1> QED
  BY <1>1, <1>2, StandsStill, AsideShown

LEMMA CallStartsShown ==
  ASSUME LeaseInv, ShowInv, CallStarts PROVE ShowInv'
<1>1. /\ m' = m /\ call.st = "idle" /\ call'.st = "active"
      /\ UNCHANGED <<sessions, link, ready>>
  BY DEF CallStarts
<1>2. m.lease.gen = 0
  BY <1>1 DEF LeaseInv, LeaseOfCall
<1>3. /\ LinkOK(m.sco, m.lock, sessions, link, ready) /\ StreamOK(m)
      /\ RevokedOK(m, ready, call.st)
  BY HasShown
<1>4. RevokedOK(m, ready, call'.st) /\ ClientsOK(m, sessions, ready, call'.st)
  BY <1>2, <1>3 DEF RevokedOK, ClientsOK
<1> QED
  BY <1>1, <1>3, <1>4, Shown

LEMMA CallEndingShown ==
  ASSUME LeaseInv, ShowInv, CallEnding PROVE ShowInv'
<1>1. /\ m' = m /\ UNCHANGED <<sessions, link, ready>> /\ call.st = "active"
  BY DEF CallEnding
<1> QED
  BY <1>1, StandsStill, AsideShown

LEMMA ReclaimFiresShown ==
  ASSUME LeaseInv, ShowInv, ReclaimFires PROVE ShowInv'
<1>1. PICK g \in m.timers :
        /\ LET x == [m EXCEPT !.timers = @ \ {g}]
           IN  m' = IF m.lease.gen = g /\ g \notin m.attached
                    THEN Enqueue(x, Job("reclaim", "timer", g)) ELSE x
        /\ UNCHANGED <<call, sessions, link, ready>>
  BY DEF ReclaimFires
<1> DEFINE x == [m EXCEPT !.timers = @ \ {g}]
           job == Job("reclaim", "timer", g)
<1>2. m \in MediaType /\ g \in Nat
  BY HolderView DEF MediaType
<1>3. /\ x \in MediaType /\ x.lease = m.lease /\ x.last = m.last /\ x.sco = m.sco
      /\ x.lock = m.lock /\ x.attached = m.attached /\ x.tokens = m.tokens
  BY <1>2 DEF MediaType
<1>4. job \in JobType /\ Waits(job) /\ job.k = "reclaim"
  BY <1>2 DEF Job, JobType, Kinds, Phases, Waits
<1>5. m' = x \/ m' = Enqueue(x, job)
  BY <1>1
<1> HIDE DEF x, job
<1>6. /\ m'.lease = m.lease /\ m'.last = m.last /\ m'.sco = m.sco
      /\ m'.attached = m.attached /\ m'.tokens = m.tokens /\ Stands(m.lock, m'.lock)
  <2>1. CASE m' = x
    BY <1>3, <2>1, StandsStill
  <2>2. CASE m' = Enqueue(x, job)
    BY <1>3, <1>4, <2>2, EnqueueView DEF Same
  <2> QED
    BY <1>5, <2>1, <2>2
<1> QED
  BY <1>1, <1>6, AsideShown

LEMMA AskShown ==
  ASSUME LeaseInv, ShowInv, NEW r \in Requests, NEW tool \in {"ensure", "stop", "cleanup"},
         Ask(r, tool)
  PROVE  ShowInv'
<1>1. m' = Enqueue(m, Job(tool, r, 0)) /\ UNCHANGED <<call, sessions, link, ready>>
  BY DEF Ask
<1>2. Job(tool, r, 0) \in JobType /\ Waits(Job(tool, r, 0)) /\ Job(tool, r, 0).k # "exact"
  BY DEF Job, JobType, Kinds, Phases, Waits
<1>3. /\ m'.lease = m.lease /\ m'.last = m.last /\ m'.sco = m.sco
      /\ m'.attached = m.attached /\ m'.tokens = m.tokens /\ Stands(m.lock, m'.lock)
  BY <1>1, <1>2, HolderView, EnqueueView DEF Same
<1> QED
  BY <1>1, <1>3, AsideShown

LEMMA ReleaseShown ==
  ASSUME LeaseInv, ShowInv, NEW r \in Requests, Release(r)
  PROVE  ShowInv'
<1>1. m' = Enqueue(m, Job("release", r, m.lease.gen)) /\ UNCHANGED <<call, sessions, link, ready>>
  BY DEF Release
<1> DEFINE job == Job("release", r, m.lease.gen)
<1>2. job \in JobType /\ Waits(job) /\ job.k # "exact"
  BY HolderView DEF Job, JobType, Kinds, Phases, Waits, MediaType, LeaseType
<1> HIDE DEF job
<1>3. /\ m'.lease = m.lease /\ m'.last = m.last /\ m'.sco = m.sco
      /\ m'.attached = m.attached /\ m'.tokens = m.tokens /\ Stands(m.lock, m'.lock)
  BY <1>1, <1>2, HolderView, EnqueueView DEF Same, job
<1> QED
  BY <1>1, <1>3, AsideShown

\* A generation that was not given is not known to anybody.
LEMMA Unheard ==
  ASSUME LeaseInv, ShowInv
  PROVE  LET n == m.last + 1
         IN  /\ n \in Nat /\ n # 0 /\ ~Deferred(m.lock, n) /\ ~Swept(ready, n)
             /\ ~Noted(ready, n) /\ n \notin Drop(m.lock) /\ n \notin sessions
             /\ Drop(m.lock) \subseteq 0 .. n
<1> DEFINE n == m.last + 1
<1>1. m.last \in Nat /\ MediaOK(m, sessions, ready)
  BY MediaFacts
<1>2. /\ n \in Nat /\ n # 0 /\ n \notin 0 .. m.last /\ 0 .. m.last \subseteq 0 .. n
      /\ n \notin 1 .. m.last
  BY <1>1
<1> HIDE DEF n
<1>3. /\ \A i \in DOMAIN m.lock : m.lock[i].gen \in 0 .. m.last
      /\ \A i \in DOMAIN ready : ready[i].gen \in 0 .. m.last
      /\ sessions \subseteq 1 .. m.last
  BY <1>1 DEF MediaOK, LockOK, JobOK, GensOK
<1>4. Drop(m.lock) \subseteq 0 .. m.last
  BY HasShown DEF RevokedOK
<1> QED
  BY <1>2, <1>3, <1>4 DEF Deferred, Swept, Noted, ClientPost, n

LEMMA NewLeaseView ==
  ASSUME LeaseInv, m.lease.gen = 0, NEW owner \in Owners \cup {"mcp_client"}
  PROVE  LET x == NewLease(m, owner)
         IN  /\ x \in MediaType /\ x.lease.gen = m.last + 1 /\ x.last = m.last + 1
             /\ x.lock = m.lock /\ x.sco = m.sco /\ x.tokens = {} /\ x.attached = {}
             /\ LockOK(x.lock, x.lease.gen, x.last, sessions)
<1> DEFINE x == NewLease(m, owner)
<1>1. m \in MediaType /\ MediaOK(m, sessions, ready) /\ call.id \in 0 .. MaxCalls
  BY MediaFacts
<1>2. /\ MediaOK(x, sessions, ready) /\ x.lease.gen = m.last + 1 /\ x.last = m.last + 1
      /\ x.lock = m.lock /\ x.tokens \cup x.attached = {}
  BY <1>1, NewLeaseOK
<1>3. x.sco = m.sco
  BY <1>1 DEF NewLease, MediaType
<1> QED
  BY <1>2, <1>3 DEF MediaOK

\* Acquire: a lease made now is unused, and its job is behind all that closes sessions.
LEMMA AcquireShown ==
  ASSUME LeaseInv, ShowInv, NEW r \in Requests, NEW owner \in Owners, Acquire(r, owner)
  PROVE  ShowInv'
<1> DEFINE x == IF m.lease.gen = 0 THEN NewLease(m, owner) ELSE m
           job == [Job("acquire", r, x.lease.gen)
                     EXCEPT !.call = call.id, !.reused = ~(m.lease.gen = 0)]
<1>1. /\ UNCHANGED <<call, sessions, link, ready>> /\ (m' = m \/ m' = Enqueue(x, job))
  BY DEF Acquire
<1>2. /\ m \in MediaType /\ call.id \in 0 .. MaxCalls
  BY MediaFacts
<1>3. CASE m' = m
  BY <1>1, <1>3, StandsStill, AsideShown
<1>4. CASE m' = Enqueue(x, job)
  <2>1. x \in MediaType /\ x.lock = m.lock /\ x.sco = m.sco
    BY <1>2, NewLeaseView
  <2>2. x.lease.gen \in Nat
    BY <2>1 DEF MediaType, LeaseType
  <2>3. /\ job \in JobType /\ Waits(job) /\ job.k = "acquire" /\ job.gen = x.lease.gen
        /\ job.reused <=> m.lease.gen # 0
    <3> DEFINE base == Job("acquire", r, x.lease.gen)
               b == ~(m.lease.gen = 0)
    <3> HIDE DEF x
    <3>1. /\ base \in JobType /\ base.k = "acquire" /\ base.gen = x.lease.gen
          /\ base.pc = "wait" /\ base.s = 0 /\ base.drop = {}
      BY <2>2 DEF Job, JobType, Kinds, Phases
    <3>2. b \in BOOLEAN /\ (b <=> m.lease.gen # 0) /\ call.id \in Nat
      BY <1>2, CallsAssumption
    <3>3. job = [base EXCEPT !.call = call.id, !.reused = b]
      OBVIOUS
    <3> HIDE DEF base, b, job
    <3> QED
      BY <3>1, <3>2, <3>3 DEF JobType, Waits
  <2> HIDE DEF job
  <2>4. CASE m.lease.gen # 0
    <3>1. x = m
      BY <2>4
    <3>2. /\ m'.lease = m.lease /\ m'.last = m.last /\ m'.sco = m.sco
          /\ m'.attached = m.attached /\ m'.tokens = m.tokens /\ Stands(m.lock, m'.lock)
      BY <1>4, <2>1, <2>3, <3>1, EnqueueView DEF Same
    <3> QED
      BY <1>1, <3>2, AsideShown
  <2>5. CASE m.lease.gen = 0
    <3> DEFINE n == m.last + 1
    <3>1. /\ x.lease.gen = n /\ x.last = n /\ x.tokens = {} /\ x.attached = {}
      BY <2>5, NewLeaseView
    <3>2. /\ n # 0 /\ ~Deferred(m.lock, n) /\ ~Swept(ready, n) /\ ~Noted(ready, n)
          /\ n \notin Drop(m.lock) /\ n \notin sessions /\ Drop(m.lock) \subseteq 0 .. n
      BY Unheard
    <3> HIDE DEF n, x
    <3>3. /\ m'.lease = x.lease /\ m'.last = n /\ m'.sco = m.sco
          /\ m'.tokens = {} /\ m'.attached = {} /\ Stands(m.lock, m'.lock)
          /\ Created(m'.lock, n) /\ ~Deferred(m'.lock, n)
      <4>1. /\ Same(x, m') /\ m'.sco = x.sco /\ Stands(x.lock, m'.lock)
            /\ Created(x.lock, n) \/ Creates(job, n) => Created(m'.lock, n)
            /\ Deferred(m'.lock, n) => Deferred(x.lock, n)
        BY <1>4, <2>1, <2>3, EnqueueView
      <4>2. Creates(job, n)
        BY <2>3, <2>5, <3>1 DEF Creates
      <4> QED
        BY <2>1, <3>1, <3>2, <4>1, <4>2 DEF Same
    <3>4. LinkOK(m.sco, m.lock, sessions, link, ready) /\ StreamOK(m)
      BY HasShown
    <3>5. LinkOK(m'.sco, m'.lock, sessions, link, ready)
      BY <3>3, <3>4, LinkWork DEF Stands, Remains
    <3>6. StreamOK(m')
      BY <3>1, <3>3, <3>4 DEF StreamOK
    <3>7. RevokedOK(m', ready, call.st)
      BY <3>1, <3>2, <3>3 DEF RevokedOK, Stands
    <3>8. ClientsOK(m', sessions, ready, call.st)
      BY <3>1, <3>2, <3>3 DEF ClientsOK, Unused
    <3> QED
      BY <1>1, <3>5, <3>6, <3>7, <3>8, Shown
  <2> QED
    BY <2>4, <2>5
<1> QED
  BY <1>1, <1>3, <1>4

-----------------------------------------------------------------------------
(* The callbacks of the event loop *)

LEMMA HealthJob ==
  Job("cleanup", "health", 0) \in JobType /\ Waits(Job("cleanup", "health", 0))
  /\ Job("cleanup", "health", 0).k = "cleanup"
BY DEF Job, JobType, Kinds, Phases, Waits

\* LinkHealth: the news is of no interest to the client, unless it is that the link
\* failed, which cleans everything up.
LEMMA LinkHealthShown ==
  ASSUME LeaseInv, ShowInv, LinkHealth PROVE ShowInv'
<1> DEFINE e == Head(ready)
           g == m.lease.gen
           carried == Up /\ OfActiveCall(m)
           st == IF e.k = "failed" THEN "failed" ELSE "disconnected"
           dark == SetSco(m, st, 0)
           down == SetActive(dark, FALSE)
           lit == SetSco(m, "ready", g)
           job == Job("cleanup", "health", 0)
           swept == [down EXCEPT !.tokens = {}, !.attached = {}]
<1>1. /\ ready # <<>> /\ e.k \in HealthStates /\ ready' = Tail(ready)
      /\ UNCHANGED <<call, sessions, link>>
      /\ m' = IF e.k = "connected"
              THEN IF carried THEN SetActive(lit, TRUE) ELSE m
              ELSE IF carried THEN lit
              ELSE IF e.k = "failed" THEN Enqueue(swept, job) ELSE down
  BY DEF LinkHealth, Callback, ApplyHealth
<1>2. m \in MediaType /\ ready \in Seq(PostType) /\ g \in Nat
  BY HolderView, MediaFacts
<1>3. /\ LinkOK(m.sco, m.lock, sessions, link, ready) /\ StreamOK(m)
      /\ RevokedOK(m, ready, call.st) /\ ClientsOK(m, sessions, ready, call.st)
  BY HasShown
<1>4. e = ready[1] /\ 1 \in DOMAIN ready
  BY <1>1, <1>2, NextPost
<1>5. e.k # "resume" /\ (~Down(e) <=> e.k = "connected") /\ \A h : ~ClientPost(e, h)
  BY <1>1 DEF HealthStates, Down, ClientPost
<1>6. /\ SameNotes(ready, ready', g) /\ (Failing(ready) => e.k = "failed" \/ Failing(ready'))
  BY <1>1, <1>2, <1>5, NotesHeard
<1>7. link.st = "up" /\ Down(e) => Opening(m.lock)
  BY <1>3, <1>4 DEF LinkOK, NewsOK, Opening
<1>8. carried => link.st = "up" /\ g # 0
  BY DEF Up, OfActiveCall
<1> HIDE DEF e, carried
<1>9. /\ lit \in MediaType /\ Same(m, lit) /\ lit.lock = m.lock
      /\ ScoTo(m.sco, lit.sco, "ready", g)
  BY <1>2, ScoView
<1>10. /\ down \in MediaType /\ Same(m, down) /\ down.lock = m.lock
       /\ ScoTo(m.sco, dark.sco, st, 0)
       /\ down.sco.st = st /\ down.sco.stream = 0 /\ ~down.sco.attached /\ ~down.sco.active
  <2>1. /\ dark \in MediaType /\ Same(m, dark) /\ dark.lock = m.lock
        /\ ScoTo(m.sco, dark.sco, st, 0) /\ st # "ready"
    BY <1>2, ScoView
  <2> HIDE DEF dark
  <2> QED
    BY <2>1, ActiveView DEF Same, ScoTo
<1>11. CASE carried
  <2>1. /\ Same(m, m') /\ m'.lock = m.lock /\ m'.sco.st = "ready" /\ m'.sco.stream = g
        /\ m'.sco.attached = (m.sco.attached /\ m.sco.stream = g)
    <3>1. CASE m' = lit
      BY <1>8, <1>9, <1>11, <3>1 DEF ScoTo
    <3>2. CASE m' = SetActive(lit, TRUE)
      <4> HIDE DEF lit
      <4>1. /\ Same(lit, m') /\ m'.lock = lit.lock /\ m'.sco.st = lit.sco.st
            /\ m'.sco.stream = lit.sco.stream /\ m'.sco.attached = lit.sco.attached
        BY <1>9, <3>2, ActiveView
      <4> QED
        BY <1>8, <1>9, <1>11, <4>1 DEF ScoTo, Same
    <3> QED
      BY <1>1, <1>11, <3>1, <3>2
  <2>2. LinkOK(m'.sco, m'.lock, sessions, link, ready')
    BY <1>1, <1>2, <1>3, <1>5, <1>8, <1>11, <2>1, LinkHeard DEF e
  <2>3. StreamOK(m')
    BY <1>3, <2>1 DEF StreamOK, Same
  <2>4. RevokedOK(m', ready', call.st)
    BY <1>3, <1>6, <2>1, RevokedKept DEF Same
  <2>5. ~Opening(m.lock) /\ Leaving(m, ready) => Leaving(m', ready')
    <3>1. ~Opening(m.lock) => e.k # "failed"
      BY <1>7, <1>8, <1>11 DEF Down
    <3> QED
      BY <1>6, <2>1, <3>1 DEF Leaving, Same
  <2>6. ClientsOK(m', sessions, ready', call.st)
    BY <1>3, <1>6, <2>1, <2>5, ClientsKept DEF Same
  <2> QED
    BY <1>1, <2>2, <2>3, <2>4, <2>6, Shown
<1>12. CASE ~carried /\ e.k = "connected"
  <2>1. m' = m
    BY <1>1, <1>12
  <2>2. LinkOK(m.sco, m.lock, sessions, link, ready')
    BY <1>1, <1>2, <1>3, <1>5, <1>12, LinkHeard DEF e
  <2>3. RevokedOK(m, ready', call.st)
    BY <1>3, <1>6, RevokedKept
  <2>4. Leaving(m, ready) => Leaving(m, ready')
    BY <1>6, <1>12 DEF Leaving
  <2>5. ClientsOK(m, sessions, ready', call.st)
    BY <1>3, <1>6, <2>4, ClientsKept
  <2> QED
    BY <1>1, <1>3, <2>1, <2>2, <2>3, <2>5, Shown
<1>13. CASE ~carried /\ e.k \notin {"connected", "failed"}
  <2>1. m' = down
    BY <1>1, <1>13
  <2> HIDE DEF down
  <2>2. LinkOK(m'.sco, m'.lock, sessions, link, ready')
    BY <1>1, <1>2, <1>3, <1>5, <1>10, <1>13, <2>1, LinkHeard DEF e
  <2>3. StreamOK(m')
    BY <1>10, <2>1, <1>3 DEF StreamOK, Same
  <2>4. RevokedOK(m', ready', call.st)
    BY <1>3, <1>6, <1>10, <2>1, RevokedKept DEF Same
  <2>5. Failing(ready) => Failing(ready')
    BY <1>6, <1>13
  <2>6. Leaving(m, ready) => Leaving(m', ready')
    BY <1>10, <2>1, <2>5 DEF Leaving, Same
  <2>7. g \in sessions /\ ~Opening(m.lock) => Leaving(m', ready')
    <3>1. g \in sessions /\ ~Opening(m.lock) => Failing(ready) \/ Cleaning(m.lock)
      BY <1>3, <1>5, <1>7, <1>13 DEF LinkOK, NewsOK
    <3> QED
      BY <2>6, <3>1 DEF Leaving
  <2>8. ClientsOK(m', sessions, ready', call.st)
    BY <1>3, <1>6, <1>10, <2>1, <2>6, <2>7, ClientsKept DEF Same
  <2> QED
    BY <1>1, <2>2, <2>3, <2>4, <2>8, Shown
<1>14. CASE ~carried /\ e.k = "failed"
  <2>1. m' = Enqueue(swept, job)
    BY <1>1, <1>14
  <2>2. /\ swept \in MediaType /\ swept.lock = m.lock /\ swept.sco = down.sco
        /\ swept.lease = m.lease /\ swept.last = m.last
        /\ swept.tokens = {} /\ swept.attached = {}
    <3> HIDE DEF down
    <3> QED
      BY <1>10 DEF Same, MediaType
  <2> HIDE DEF down, swept, job
  <2>3. /\ m'.lease = m.lease /\ m'.last = m.last /\ m'.tokens = {} /\ m'.attached = {}
        /\ m'.sco = down.sco /\ Cleaning(m'.lock) /\ Stands(m.lock, m'.lock)
    <3>1. /\ Same(swept, m') /\ m'.sco = swept.sco /\ Cleaning(m'.lock)
          /\ Stands(swept.lock, m'.lock)
      BY <2>1, <2>2, HealthJob, EnqueueView DEF job
    <3> QED
      BY <2>2, <3>1 DEF Same
  <2>4. LinkOK(m'.sco, m'.lock, sessions, link, ready')
    BY <1>1, <1>2, <1>3, <1>5, <1>10, <1>14, <2>3, LinkHeard DEF e, Stands, Remains
  <2>5. StreamOK(m')
    BY <1>10, <2>3, <1>3 DEF StreamOK, Same, Stands, Remains
  <2>6. RevokedOK(m', ready', call.st)
    BY <1>3, <1>6, <2>3, RevokedKept DEF Stands, Remains
  <2>7. ClientsOK(m', sessions, ready', call.st)
    <3>1. (Opening(m'.lock) <=> Opening(m.lock)) /\ Ses(m'.lock) = Ses(m.lock)
      BY <2>3 DEF Opening, Stands
    <3>2. Unused(m, ready) => Unused(m', ready')
      BY <1>6, <2>3 DEF Unused, SameNotes
    <3> QED
      BY <1>3, <1>10, <2>3, <3>1, <3>2 DEF ClientsOK, Leaving
  <2> QED
    BY <1>1, <2>4, <2>5, <2>6, <2>7, Shown
<1> QED
  BY <1>11, <1>12, <1>13, <1>14

\* ClientConnected and ClientDisconnected: what the last of them said of the client of
\* the lease is what is shown.
LEMMA ClientHeard ==
  ASSUME LeaseInv, ShowInv, ready # <<>>, ready' = Tail(ready),
         Head(ready).k \in {"attached", "detached"}, Head(ready).gen # 0,
         Same(m, m'), Stands(m.lock, m'.lock), m'.sco.st = m.sco.st,
         m'.sco.stream = m.sco.stream, m'.sco.active = m.sco.active,
         m'.sco.attached = IF m.lease.gen = Head(ready).gen /\ m.sco.stream = Head(ready).gen
                           THEN Head(ready).k = "attached" ELSE m.sco.attached,
         UNCHANGED <<call, sessions, link>>
  PROVE  ShowInv'
<1> DEFINE e == Head(ready)
           g == m.lease.gen
<1>1. /\ LinkOK(m.sco, m.lock, sessions, link, ready) /\ StreamOK(m)
      /\ RevokedOK(m, ready, call.st) /\ ClientsOK(m, sessions, ready, call.st)
  BY HasShown
<1>2. ready \in Seq(PostType)
  BY HolderView
<1>3. e.k \in {"attached", "detached"} /\ e.k # "resume" /\ e.k # "failed" /\ ~Down(e)
  BY DEF Down
<1> HIDE DEF e
<1>4. LinkOK(m'.sco, m'.lock, sessions, link, ready')
  BY <1>1, <1>2, <1>3, LinkHeard DEF Stands, Remains, e
<1>5. /\ ~ClientPost(e, g) => SameNotes(ready, ready', g)
      /\ \A k : LastNote(ready', g, k) => LastNote(ready, g, k)
      /\ Swept(ready', g) => Swept(ready, g)
      /\ Failing(ready) => Failing(ready')
      /\ ClientPost(e, g) => /\ Noted(ready, g)
                             /\ ~Noted(ready', g) => LastNote(ready, g, e.k)
  BY <1>2, <1>3, NotesHeard DEF e
<1>6. /\ m'.lease = m.lease /\ m'.last = m.last /\ m'.tokens = m.tokens
      /\ m'.attached = m.attached /\ (Opening(m'.lock) <=> Opening(m.lock))
      /\ Ses(m'.lock) = Ses(m.lock) /\ Drop(m'.lock) = Drop(m.lock)
      /\ (Deferred(m'.lock, g) => Deferred(m.lock, g))
      /\ (Created(m.lock, g) => Created(m'.lock, g))
      /\ (Leaving(m, ready) => Leaving(m', ready'))
  BY <1>5 DEF Same, Stands, Remains, Opening, Leaving
<1>7. StreamOK(m')
  BY <1>1, <1>6 DEF StreamOK
<1>8. RevokedOK(m', ready', call.st)
  BY <1>1, <1>5, <1>6 DEF RevokedOK
<1>9. CASE ~ClientPost(e, g)
  <2>1. m'.sco.attached = m.sco.attached
    BY <1>3, <1>9 DEF ClientPost, e
  <2>2. ClientsOK(m', sessions, ready', call.st)
    BY <1>1, <1>5, <1>6, <1>9, <2>1, ClientsKept
  <2> QED
    BY <1>4, <1>7, <1>8, <2>2, Shown
<1>10. CASE ClientPost(e, g)
  <2>1. e.gen = g /\ ~Unused(m, ready)
    BY <1>5, <1>10 DEF ClientPost, Unused
  <2>2. ASSUME ClientShown(m, ready) PROVE ClientShown(m', ready')
    <3>1. m.sco.stream = g /\ (m'.sco.attached <=> e.k = "attached")
      BY <2>1, <2>2 DEF ClientShown, e
    <3>2. ~Noted(ready', g) => (m'.sco.attached <=> g \in m.attached)
      BY <1>3, <1>5, <1>10, <2>2, <3>1 DEF ClientShown
    <3> QED
      BY <1>5, <1>6, <2>2, <3>1, <3>2 DEF ClientShown
  <2>3. ClientsOK(m', sessions, ready', call.st)
    BY <1>1, <1>6, <2>1, <2>2 DEF ClientsOK
  <2> QED
    BY <1>4, <1>7, <1>8, <2>3, Shown
<1> QED
  BY <1>9, <1>10

\* Clients have grants, and those are of leases.
NamedPosts == ~Noted(ready, 0)

LEMMA ClientConnectedShown ==
  ASSUME LeaseInv, ShowInv, NamedPosts, ClientConnected PROVE ShowInv'
<1> DEFINE g == Head(ready).gen
           x == IF g = m.sco.stream THEN [m EXCEPT !.sco.attached = TRUE] ELSE m
<1>1. /\ ready # <<>> /\ ready' = Tail(ready) /\ Head(ready).k = "attached"
      /\ UNCHANGED <<call, sessions, link>>
      /\ m' = IF m.lease.gen = g /\ m.lease.call = call.id /\ call.st # "idle"
              THEN CancelReclaim(x, g) ELSE m
  BY DEF ClientConnected, Callback
<1>2. g # 0
  BY <1>1, HolderView, NextPost DEF NamedPosts, Noted, ClientPost
<1>3. m.lease.gen = g => m.lease.call = call.id /\ call.st # "idle"
  BY <1>2 DEF LeaseInv, LeaseOfCall
<1>4. m \in MediaType /\ m.sco \in ScoType
  BY HolderView DEF MediaType
<1>5. /\ x \in MediaType /\ Same(m, x) /\ x.lock = m.lock /\ x.sco.st = m.sco.st
      /\ x.sco.stream = m.sco.stream /\ x.sco.active = m.sco.active
      /\ x.sco.attached = IF g = m.sco.stream THEN TRUE ELSE m.sco.attached
  <2>1. CASE g = m.sco.stream
    <3> DEFINE c == [m.sco EXCEPT !.attached = TRUE]
    <3>1. /\ c \in ScoType /\ c.st = m.sco.st /\ c.stream = m.sco.stream
          /\ c.active = m.sco.active /\ c.attached = TRUE
      BY <1>4 DEF ScoType
    <3>2. x = [m EXCEPT !.sco = c]
      BY <2>1
    <3> HIDE DEF c, x
    <3>3. x \in MediaType /\ Same(m, x) /\ x.lock = m.lock /\ x.sco = c
      BY <1>4, <3>1, <3>2 DEF MediaType, Same
    <3> QED
      BY <2>1, <3>1, <3>3
  <2>2. CASE g # m.sco.stream
    BY <1>4, <2>2 DEF Same
  <2> QED
    BY <2>1, <2>2
<1> HIDE DEF x
<1>6. CASE m.lease.gen = g
  <2>1. LockOK(x.lock, m.lease.gen, m.last, sessions)
    BY <1>5, HolderView
  <2>2. /\ Same(x, m') /\ m'.sco = x.sco /\ Stands(x.lock, m'.lock)
    BY <1>1, <1>3, <1>5, <1>6, <2>1, CancelView
  <2>3. Same(m, m') /\ Stands(m.lock, m'.lock)
    BY <1>5, <2>2 DEF Same
  <2> QED
    BY <1>1, <1>2, <1>5, <1>6, <2>2, <2>3, ClientHeard
<1>7. CASE m.lease.gen # g
  BY <1>1, <1>2, <1>7, StandsStill, ClientHeard DEF Same
<1> QED
  BY <1>6, <1>7

LEMMA ClientDisconnectedShown ==
  ASSUME LeaseInv, ShowInv, NamedPosts, ClientDisconnected PROVE ShowInv'
<1> DEFINE g == Head(ready).gen
           x == IF g = m.sco.stream THEN [m EXCEPT !.sco.attached = FALSE] ELSE m
<1>1. /\ ready # <<>> /\ ready' = Tail(ready) /\ Head(ready).k = "detached"
      /\ UNCHANGED <<call, sessions, link>>
      /\ m' = IF m.lease.gen = g THEN ArmReclaim(x) ELSE m
  BY DEF ClientDisconnected, Callback
<1>2. g # 0
  BY <1>1, HolderView, NextPost DEF NamedPosts, Noted, ClientPost
<1>4. m \in MediaType /\ m.sco \in ScoType
  BY HolderView DEF MediaType
<1>5. /\ x \in MediaType /\ Same(m, x) /\ x.lock = m.lock /\ x.sco.st = m.sco.st
      /\ x.sco.stream = m.sco.stream /\ x.sco.active = m.sco.active
      /\ x.sco.attached = IF g = m.sco.stream THEN FALSE ELSE m.sco.attached
  <2>1. CASE g = m.sco.stream
    <3> DEFINE c == [m.sco EXCEPT !.attached = FALSE]
    <3>1. /\ c \in ScoType /\ c.st = m.sco.st /\ c.stream = m.sco.stream
          /\ c.active = m.sco.active /\ c.attached = FALSE
      BY <1>4 DEF ScoType
    <3>2. x = [m EXCEPT !.sco = c]
      BY <2>1
    <3> HIDE DEF c, x
    <3>3. x \in MediaType /\ Same(m, x) /\ x.lock = m.lock /\ x.sco = c
      BY <1>4, <3>1, <3>2 DEF MediaType, Same
    <3> QED
      BY <2>1, <3>1, <3>3
  <2>2. CASE g # m.sco.stream
    BY <1>4, <2>2 DEF Same
  <2> QED
    BY <2>1, <2>2
<1> HIDE DEF x
<1>6. CASE m.lease.gen = g
  <2>1. LockOK(x.lock, m.lease.gen, m.last, sessions)
    BY <1>5, HolderView
  <2>2. /\ Same(x, m') /\ m'.sco = x.sco /\ Stands(x.lock, m'.lock)
    BY <1>1, <1>5, <1>6, <2>1, ArmView
  <2>3. Same(m, m') /\ Stands(m.lock, m'.lock)
    BY <1>5, <2>2 DEF Same
  <2> QED
    BY <1>1, <1>2, <1>5, <1>6, <2>2, <2>3, ClientHeard
<1>7. CASE m.lease.gen # g
  BY <1>1, <1>2, <1>7, StandsStill, ClientHeard DEF Same
<1> QED
  BY <1>6, <1>7

\* CleanupTask: of a lease that was revoked.
LEMMA CleanupTaskShown ==
  ASSUME LeaseInv, ShowInv, CleanupTask PROVE ShowInv'
<1> DEFINE e == Head(ready)
           g == m.lease.gen
           job == Job("exact", "call", e.gen)
<1>1. /\ ready # <<>> /\ ready' = Tail(ready) /\ e.k = "cleanup" /\ m' = Enqueue(m, job)
      /\ UNCHANGED <<call, sessions, link>>
  BY DEF CleanupTask, Callback
<1>2. ready \in Seq(PostType) /\ m \in MediaType
  BY HolderView
<1>3. 1 \in DOMAIN ready /\ e = ready[1] /\ e \in PostType
  BY <1>1, <1>2, NextPost
<1>4. job \in JobType /\ Waits(job) /\ job.k = "exact" /\ job.gen = e.gen
  BY <1>3 DEF Job, JobType, Kinds, Phases, Waits, PostType
<1> HIDE DEF e, job
<1>5. /\ Same(m, m') /\ m'.sco = m.sco /\ Pc(m'.lock) = Pc(m.lock) /\ Ses(m'.lock) = Ses(m.lock)
      /\ Drop(m'.lock) = Drop(m.lock) /\ (Cleaning(m.lock) => Cleaning(m'.lock))
      /\ \A h : Created(m.lock, h) => Created(m'.lock, h)
      /\ \A h : Deferred(m'.lock, h) => Deferred(m.lock, h) \/ e.gen = h
  <2> DEFINE y == Enqueue(m, job)
  <2>1. /\ Same(m, y) /\ y.sco = m.sco /\ Pc(y.lock) = Pc(m.lock) /\ Ses(y.lock) = Ses(m.lock)
        /\ Drop(y.lock) = Drop(m.lock)
        /\ Cleaning(m.lock) \/ job.k = "cleanup" => Cleaning(y.lock)
        /\ \A h : Created(m.lock, h) \/ Creates(job, h) => Created(y.lock, h)
        /\ \A h : Deferred(y.lock, h) => Deferred(m.lock, h) \/ (job.k = "exact" /\ job.gen = h)
    BY <1>2, <1>4, EnqueueView
  <2>2. m' = y
    BY <1>1
  <2> HIDE DEF y
  <2> QED
    BY <1>4, <2>1, <2>2
<1>6. /\ LinkOK(m.sco, m.lock, sessions, link, ready) /\ StreamOK(m)
      /\ RevokedOK(m, ready, call.st) /\ ClientsOK(m, sessions, ready, call.st)
  BY HasShown
<1>7. e.k # "resume" /\ e.k # "failed" /\ ~Down(e) /\ \A h : ~ClientPost(e, h)
  BY <1>1 DEF Down, ClientPost
<1>8. /\ SameNotes(ready, ready', g) /\ (Failing(ready) => Failing(ready'))
  BY <1>1, <1>2, <1>7, NotesHeard DEF e
<1>9. LinkOK(m'.sco, m'.lock, sessions, link, ready')
  BY <1>1, <1>2, <1>5, <1>6, <1>7, LinkHeard DEF e
<1>10. StreamOK(m')
  BY <1>5, <1>6, StreamKept DEF Same
<1>11. g # 0 => g # e.gen
  BY <1>1, <1>3, <1>6 DEF RevokedOK, Swept
<1>12. RevokedOK(m', ready', call.st)
  BY <1>5, <1>6, <1>8, <1>11 DEF RevokedOK, Same, SameNotes
<1>13. Leaving(m, ready) => Leaving(m', ready')
  BY <1>5, <1>8 DEF Leaving, Same
<1>14. Opening(m'.lock) <=> Opening(m.lock)
  BY <1>5 DEF Opening
<1>15. ClientsOK(m', sessions, ready', call.st)
  BY <1>5, <1>6, <1>8, <1>13, <1>14, ClientsKept DEF Same
<1> QED
  BY <1>1, <1>9, <1>10, <1>12, <1>15, Shown

-----------------------------------------------------------------------------
(* The sidecar's clients and the end of the call *)

LEMMA LastPosted ==
  ASSUME NEW R \in Seq(PostType), NEW e \in PostType, NEW g, ClientPost(e, g)
  PROVE  /\ Noted(Append(R, e), g) /\ (Failing(R) => Failing(Append(R, e)))
         /\ \A k : LastNote(Append(R, e), g, k) => k = e.k
         /\ Swept(Append(R, e), g) => Swept(R, g)
<1> DEFINE Q == Append(R, e)
<1>1. /\ Q \in Seq(PostType) /\ Len(R) \in Nat
      /\ \A i \in DOMAIN R : i \in DOMAIN Q /\ Q[i] = R[i] /\ i \in Nat /\ Len(R) + 1 > i
      /\ \A i \in DOMAIN Q : (i \in DOMAIN R /\ Q[i] = R[i]) \/ (i = Len(R) + 1 /\ Q[i] = e)
      /\ Len(R) + 1 \in DOMAIN Q /\ Q[Len(R) + 1] = e
  BY PostView
<1> HIDE DEF Q
<1>2. Noted(Q, g) /\ (Failing(R) => Failing(Q))
  BY <1>1 DEF Noted, Failing
<1>3. \A k : LastNote(Q, g, k) => k = e.k
  BY <1>1 DEF LastNote
<1>4. Swept(Q, g) => Swept(R, g)
  BY <1>1 DEF Swept, ClientPost
<1> QED
  BY <1>2, <1>3, <1>4 DEF Q

\* A client of the lease came, or left: the callback that will say so is the last.
LEMMA ClientPosted ==
  ASSUME LeaseInv, ShowInv, NEW g \in m.tokens \cup m.attached, g # 0,
         NEW k \in {"attached", "detached"},
         ready' = Append(ready, Posted(k, g)), UNCHANGED <<call, sessions, link>>,
         m'.lease = m.lease, m'.last = m.last, m'.lock = m.lock, m'.sco = m.sco,
         g \in m'.attached <=> k = "attached",
         k = "attached" => g \in sessions
  PROVE  ShowInv'
<1> DEFINE e == Posted(k, g)
<1>1. /\ ready \in Seq(PostType) /\ g = m.lease.gen /\ g \in Nat
  BY HolderView, MediaFacts DEF MediaOK, GensOK
<1>2. e \in PostType /\ ClientPost(e, g) /\ e.k = k
  BY <1>1 DEF Posted, PostType, ClientPost
<1> HIDE DEF e
<1>3. /\ Noted(ready', g) /\ (Failing(ready) => Failing(ready'))
      /\ \A h : LastNote(ready', g, h) => h = k
      /\ Swept(ready', g) => Swept(ready, g)
  BY <1>1, <1>2, LastPosted DEF e
<1>4. /\ LinkOK(m.sco, m.lock, sessions, link, ready) /\ StreamOK(m)
      /\ RevokedOK(m, ready, call.st) /\ ClientsOK(m, sessions, ready, call.st)
  BY HasShown
<1>5. LinkOK(m.sco, m.lock, sessions, link, ready')
  BY <1>1, <1>2, <1>4, LinkPosted DEF e
<1>6. StreamOK(m') /\ RevokedOK(m', ready', call.st)
  BY <1>1, <1>3, <1>4 DEF StreamOK, RevokedOK
<1>7. ~Unused(m, ready)
  BY DEF Unused
<1>8. Leaving(m, ready) => Leaving(m', ready')
  BY <1>3 DEF Leaving
<1>9. ClientShown(m, ready) => ClientShown(m', ready')
  BY <1>1, <1>3, <1>7 DEF ClientShown
<1>10. ClientsOK(m', sessions, ready', call.st)
  BY <1>1, <1>4, <1>7, <1>8, <1>9 DEF ClientsOK
<1> QED
  BY <1>5, <1>6, <1>10, Shown

LEMMA ClientConnectsShown ==
  ASSUME LeaseInv, ShowInv, ClientConnects PROVE ShowInv'
<1>1. PICK g \in m.tokens :
        /\ m' = [m EXCEPT !.tokens = @ \ {g}, !.attached = IF Admits(g) THEN @ \cup {g} ELSE @]
        /\ ready' = IF Admits(g) THEN Append(ready, Posted("attached", g)) ELSE ready
        /\ UNCHANGED <<call, sessions, link>>
  BY DEF ClientConnects
<1>2. m \in MediaType /\ g # 0
  BY HolderView, MediaFacts DEF MediaOK, GensOK
<1> DEFINE A == m.attached \cup {g}
           t == m.tokens \ {g}
<1>3. CASE Admits(g)
  <2>1. m' = [m EXCEPT !.tokens = t, !.attached = A] /\ g \in A /\ g \in sessions
    BY <1>1, <1>3 DEF Admits
  <2> HIDE DEF t, A
  <2>2. /\ m'.lease = m.lease /\ m'.last = m.last /\ m'.lock = m.lock /\ m'.sco = m.sco
        /\ m'.attached = A
    BY <1>2, <2>1 DEF MediaType
  <2> QED
    BY <1>1, <1>2, <1>3, <2>1, <2>2, ClientPosted
<1>4. CASE ~Admits(g)
  <2>1. m' = [m EXCEPT !.tokens = t, !.attached = m.attached] /\ t \subseteq m.tokens
    BY <1>1, <1>4
  <2> HIDE DEF t
  <2>2. /\ m'.lease = m.lease /\ m'.last = m.last /\ m'.lock = m.lock /\ m'.sco = m.sco
        /\ m'.attached = m.attached /\ m'.tokens \subseteq m.tokens
    BY <1>2, <2>1 DEF MediaType
  <2> QED
    BY <1>1, <1>4, <2>2, StandsStill, AsideShown
<1> QED
  BY <1>3, <1>4

LEMMA LeavesShown ==
  ASSUME LeaseInv, ShowInv, NEW g \in m.attached, Leaves(g) PROVE ShowInv'
<1> DEFINE A == m.attached \ {g}
<1>1. /\ m' = [m EXCEPT !.attached = A] /\ ready' = Append(ready, Posted("detached", g))
      /\ UNCHANGED <<call, sessions, link>> /\ g \notin A
  BY DEF Leaves
<1>2. m \in MediaType /\ g # 0
  BY HolderView, MediaFacts DEF MediaOK, GensOK
<1> HIDE DEF A
<1>3. /\ m'.lease = m.lease /\ m'.last = m.last /\ m'.lock = m.lock /\ m'.sco = m.sco
      /\ m'.attached = A
  BY <1>1, <1>2 DEF MediaType
<1> QED
  BY <1>1, <1>2, <1>3, ClientPosted

\* CallEnds: there is no lease then.
LEMMA CallEndsShown ==
  ASSUME LeaseInv, ShowInv, CallEnds PROVE ShowInv'
<1> DEFINE g == m.lease.gen
           x == SetActive(m, FALSE)
           e == Posted("cleanup", g)
<1>1. /\ call'.st = "idle" /\ UNCHANGED <<sessions, link>>
      /\ m' = IF x.lease.gen = 0 THEN x ELSE DetachLease(x)
      /\ ready' = IF g = 0 THEN ready ELSE Append(ready, e)
  BY MediaFacts DEF CallEnds, EndsNow, LeaseInv
<1>2. /\ m \in MediaType /\ LockOK(m.lock, m.lease.gen, m.last, sessions)
      /\ ready \in Seq(PostType) /\ g \in Nat
  BY HolderView, MediaFacts
<1>3. /\ x \in MediaType /\ Same(m, x) /\ x.lock = m.lock /\ x.sco.st = m.sco.st
      /\ x.sco.stream = m.sco.stream /\ x.sco.attached = m.sco.attached /\ ~x.sco.active
  BY <1>2, ActiveView
<1>4. /\ LinkOK(m.sco, m.lock, sessions, link, ready) /\ StreamOK(m)
      /\ RevokedOK(m, ready, call.st)
  BY HasShown
<1> HIDE DEF x
<1>5. x.lease.gen = g
  BY <1>3 DEF Same
<1>6. CASE g = 0
  <2>1. m' = x /\ ready' = ready
    BY <1>1, <1>5, <1>6
  <2>2. LinkOK(x.sco, x.lock, sessions, link, ready)
    BY <1>3, <1>4, LinkWork
  <2>3. StreamOK(x) /\ RevokedOK(x, ready, "idle") /\ ClientsOK(x, sessions, ready, "idle")
    BY <1>3, <1>4, <1>5, <1>6 DEF StreamOK, RevokedOK, ClientsOK, Same
  <2> QED
    BY <1>1, <2>1, <2>2, <2>3, Shown
<1>7. CASE g # 0
  <2>1. m' = DetachLease(x) /\ ready' = Append(ready, e)
    BY <1>1, <1>5, <1>7
  <2>2. e \in PostType /\ e.k = "cleanup"
    BY <1>2 DEF Posted, PostType
  <2>3. LinkOK(m.sco, m.lock, sessions, link, ready')
    BY <1>2, <1>4, <2>1, <2>2, LinkPosted
  <2>4. /\ m' \in MediaType /\ Revoked(x, m') /\ m'.sco = x.sco /\ Stands(m.lock, m'.lock)
    BY <1>2, <1>3, <2>1, DetachView DEF Same
  <2>5. LinkOK(m'.sco, m'.lock, sessions, link, ready')
    BY <1>3, <2>3, <2>4, LinkWork DEF Stands, Remains
  <2>6. Revoked(m, m')
    BY <1>3, <2>4 DEF Revoked, Same
  <2>7. /\ StreamOK(m') /\ RevokedOK(m', ready', "idle")
        /\ ClientsOK(m', sessions, ready', "idle")
    BY <1>2, <1>3, <1>4, <2>4, <2>6, NoneShown DEF Stands, RevokedOK
  <2> QED
    BY <1>1, <2>5, <2>7, Shown
<1> QED
  BY <1>6, <1>7

-----------------------------------------------------------------------------
(* The holder of the lock *)

\* A callback resumes the holder, who has closed its sessions and lets go of the lock.
LEMMA LinkClosed ==
  ASSUME NEW c, NEW q, NEW S, NEW l, NEW R \in Seq(PostType), LinkOK(c, q, S, l, R),
         R # <<>>, Head(R).k = "resume", Pc(q) = "removed",
         NEW d, NEW p, Pc(p) = "wait", d.active => c.active,
         \/ Cleaning(q) => Cleaning(p)
         \/ S = {} /\ (l.st # "up" => d.st # "ready"),
         \/ d.st = c.st
         \/ (l.st = "up" => d.st = "ready") /\ (l.st # "up" => d.st # "ready")
  PROVE  LinkOK(d, p, S, l, Tail(R))
<1> DEFINE Q == Tail(R)
<1>1. /\ Q \in Seq(PostType)
      /\ \A i \in DOMAIN Q : i \in Nat /\ i + 1 \in DOMAIN R /\ R[i + 1] = Q[i] /\ i + 1 # 1
      /\ \A i \in DOMAIN R : i # 1 => i - 1 \in DOMAIN Q /\ Q[i - 1] = R[i]
      /\ 1 \in DOMAIN R /\ Head(R) = R[1]
  BY NextPost
<1> HIDE DEF Q
<1>2. \A i \in DOMAIN R : R[i].k = "resume" => i = 1
  BY <1>1 DEF LinkOK, ResumeOK
<1>3. ~Opening(q) /\ ~Opening(p)
  BY DEF Opening
<1>4. \A i \in DOMAIN Q : Q[i].k # "resume"
  BY <1>1, <1>2
<1>5. (Failing(R) => Failing(Q)) /\ (Falling(R) => Falling(Q))
  <2>1. \A i \in DOMAIN R : Down(R[i]) => i - 1 \in DOMAIN Q /\ Q[i - 1] = R[i]
    BY <1>1 DEF Down
  <2>2. Falling(R) => Falling(Q)
    BY <2>1 DEF Falling
  <2>3. Failing(R) => Failing(Q)
    BY <2>1 DEF Failing, Down
  <2> QED
    BY <2>2, <2>3
<1>6. ResumeOK(p, Q)
  BY <1>4 DEF ResumeOK
<1>7. UsersOK(p, S, l, Q)
  BY <1>3, <1>4 DEF LinkOK, UsersOK, Opening
<1>8. NewsOK(p, S, l, Q)
  <2>1. l.st = "up" => \A i \in DOMAIN Q : ~Down(Q[i])
    BY <1>1 DEF LinkOK, NewsOK
  <2> QED
    BY <1>3, <1>5, <2>1 DEF LinkOK, NewsOK
<1>9. ShownOK(d, p, l, Q)
  BY <1>3, <1>5 DEF LinkOK, ShownOK
<1> QED
  BY <1>6, <1>7, <1>8, <1>9 DEF LinkOK, Q

\* The holder lets go, and the lease stays.
LEMMA EndsKept ==
  ASSUME LeaseInv, ShowInv, Same(m, m'), ~Opening(m.lock), ~Opening(m'.lock),
         Drop(m'.lock) = {}, SameNotes(ready, ready', m.lease.gen),
         Failing(ready) => Failing(ready'),
         m.lease.gen # 0 /\ Created(m.lock, m.lease.gen) => Created(m'.lock, m.lease.gen),
         Deferred(m'.lock, m.lease.gen) => Deferred(m.lock, m.lease.gen),
         m.lease.gen \in sessions => /\ m.lease.gen \notin Drop(m.lock)
                                     /\ Cleaning(m.lock) => Cleaning(m'.lock),
         \/ m'.sco = m.sco
         \/ \E k \in {0, m.lease.gen} : ScoTo(m.sco, m'.sco, "ready", k)
         \/ ~Up /\ ScoTo(m.sco, m'.sco, "disconnected", 0)
  PROVE  /\ StreamOK(m') /\ RevokedOK(m', ready', call.st)
         /\ ClientsOK(m', sessions, ready', call.st)
<1> DEFINE g == m.lease.gen
<1>1. /\ LinkOK(m.sco, m.lock, sessions, link, ready) /\ StreamOK(m)
      /\ RevokedOK(m, ready, call.st) /\ ClientsOK(m, sessions, ready, call.st)
  BY HasShown
<1>2. StreamOK(m')
  BY <1>1, StreamKept DEF Same
<1>3. RevokedOK(m', ready', call.st)
  BY <1>1, RevokedKept DEF Same
<1>4. g \in sessions /\ Leaving(m, ready) => Leaving(m', ready')
  BY DEF Leaving
<1>5. ~Up /\ g \in sessions => Leaving(m', ready')
  <2>1. ~Up /\ g \in sessions => Failing(ready) \/ Cleaning(m.lock)
    BY <1>1 DEF LinkOK, NewsOK, Up
  <2> QED
    BY <2>1, <1>4 DEF Leaving
<1>6. \/ m'.sco.stream = m.sco.stream /\ m'.sco.attached = m.sco.attached
      \/ /\ m'.sco.stream = g
         /\ m'.sco.attached = (m.sco.attached /\ m.sco.stream = g)
      \/ ~m'.sco.attached /\ (g \in sessions => Leaving(m', ready'))
  <2>1. CASE m'.sco = m.sco
    BY <2>1
  <2>2. CASE \E k \in {0, g} : ScoTo(m.sco, m'.sco, "ready", k)
    <3>1. PICK k \in {0, g} : ScoTo(m.sco, m'.sco, "ready", k)
      BY <2>2
    <3>2. m.sco \in ScoType /\ m'.sco \in ScoType
      BY <3>1, HolderView DEF MediaType, ScoTo
    <3>3. CASE k = 0
      BY <3>1, <3>2, <3>3 DEF ScoTo, ScoType
    <3>4. CASE k = g /\ g # 0
      BY <3>1, <3>2, <3>4 DEF ScoTo, ScoType
    <3> QED
      BY <3>3, <3>4
  <2>3. CASE ~Up /\ ScoTo(m.sco, m'.sco, "disconnected", 0)
    BY <1>5, <2>3 DEF ScoTo
  <2> QED
    BY <2>1, <2>2, <2>3
<1>7. ClientsOK(m', sessions, ready', call.st)
  BY <1>1, <1>4, <1>6, ClientsKept DEF Same
<1> QED
  BY <1>2, <1>3, <1>7

LEMMA HolderWaits ==
  ASSUME LeaseInv, m.lock # <<>>, Holder.pc = "wait"
  PROVE  /\ Pc(m.lock) = "wait" /\ Drop(m.lock) = {} /\ ~Opening(m.lock)
         /\ Holder \in JobType /\ Holder.s = 0
BY HolderView, HolderFacts DEF Opening

\* The state shown is as it was, or is set by _refresh_audio_state_after_cleanup.
Refreshed(c, d, g) ==
  \/ d = c
  \/ Up /\ ScoTo(c, d, "ready", g)
  \/ ~Up /\ ScoTo(c, d, "disconnected", 0)

LEMMA RefreshedView ==
  ASSUME NEW x \in MediaType
  PROVE  /\ Refresh(x, Up) \in MediaType /\ Same(x, Refresh(x, Up))
         /\ Refresh(x, Up).lock = x.lock /\ Refreshed(x.sco, Refresh(x, Up).sco, x.lease.gen)
BY RefreshView DEF Refreshed, Up

\* A holder who has opened and closed nothing, and the lease stays.
LEMMA WaiterEnds ==
  ASSUME LeaseInv, ShowInv, m.lock # <<>>, Holder.pc = "wait", Holder.k # "cleanup",
         UNCHANGED <<call, sessions, link, ready>>, Same(m, m'), Pc(m'.lock) = "wait",
         Drop(m'.lock) = {}, Cleaning(m.lock) => Cleaning(m'.lock),
         m.lease.gen # 0 /\ Created(m.lock, m.lease.gen) => Created(m'.lock, m.lease.gen),
         Deferred(m'.lock, m.lease.gen) => Deferred(m.lock, m.lease.gen),
         Refreshed(m.sco, m'.sco, m.lease.gen)
  PROVE  ShowInv'
<1>1. Pc(m.lock) = "wait" /\ Drop(m.lock) = {} /\ ~Opening(m.lock) /\ ~Opening(m'.lock)
  BY HolderWaits DEF Opening
<1>2. LinkOK(m.sco, m.lock, sessions, link, ready)
  BY HasShown
<1>3. \/ m'.sco.st = m.sco.st /\ m'.sco.active = m.sco.active
      \/ /\ m'.sco.active = m.sco.active
         /\ link.st = "up" => m'.sco.st = "ready"
         /\ link.st # "up" => m'.sco.st # "ready"
  BY DEF Refreshed, ScoTo, Up
<1>4. LinkOK(m'.sco, m'.lock, sessions, link, ready)
  BY <1>1, <1>2, <1>3, LinkWork
<1>5. SameNotes(ready, ready', m.lease.gen)
  BY NotesReflexive
<1>6. /\ StreamOK(m') /\ RevokedOK(m', ready', call.st)
      /\ ClientsOK(m', sessions, ready', call.st)
  BY <1>1, <1>5, EndsKept DEF Refreshed
<1> QED
  BY <1>4, <1>6, Shown

\* A holder who has begun to close sessions, or has opened and closed nothing, and the
\* lease is gone.
LEMMA WaiterRevokes ==
  ASSUME LeaseInv, ShowInv, m.lock # <<>>, Holder.pc = "wait", m' \in MediaType,
         UNCHANGED <<call, sessions, link, ready>>, Revoked(m, m'),
         Pc(m'.lock) \in {"wait", "removing"}, Drop(m'.lock) \subseteq 0 .. m.last,
         Cleaning(m.lock) => Cleaning(m'.lock), Refreshed(m.sco, m'.sco, 0)
  PROVE  ShowInv'
<1>1. Pc(m.lock) = "wait" /\ ~Opening(m.lock)
  BY HolderWaits
<1>2. LinkOK(m.sco, m.lock, sessions, link, ready) /\ StreamOK(m) /\ m \in MediaType
  BY HasShown, HolderView
<1>3. \/ m'.sco.st = m.sco.st /\ m'.sco.active = m.sco.active
      \/ /\ m'.sco.active = m.sco.active
         /\ link.st = "up" => m'.sco.st = "ready"
         /\ link.st # "up" => m'.sco.st # "ready"
  BY DEF Refreshed, ScoTo, Up
<1>4. LinkOK(m'.sco, m'.lock, sessions, link, ready)
  BY <1>1, <1>2, <1>3, LinkWork
<1>5. /\ StreamOK(m') /\ RevokedOK(m', ready, call.st) /\ ClientsOK(m', sessions, ready, call.st)
  BY <1>2, NoneShown DEF Refreshed
<1> QED
  BY <1>4, <1>5, Shown

LEMMA RemovingView ==
  ASSUME LeaseInv, m.lock # <<>>, Holder.pc = "wait", NEW D \in SUBSET Nat
  PROVE  LET x == SetHead(m, Removing(Holder, D))
         IN  /\ x \in MediaType /\ Same(m, x) /\ x.sco = m.sco
             /\ Pc(x.lock) = "removing" /\ Drop(x.lock) = D /\ Remains(m.lock, x.lock)
<1> DEFINE new == Removing(Holder, D)
<1>1. Holder \in JobType /\ m \in MediaType /\ Holder = Head(m.lock)
  BY HolderWaits, HolderView
<1>2. /\ new \in JobType /\ new.k = Holder.k /\ new.gen = Holder.gen
      /\ new.reused = Holder.reused /\ new.drop = D /\ new.pc = "removing"
  BY <1>1 DEF JobType, Phases, Removing
<1> HIDE DEF new
<1>3. /\ SetHead(m, new) \in MediaType /\ Same(m, SetHead(m, new)) /\ SetHead(m, new).sco = m.sco
      /\ Pc(SetHead(m, new).lock) = "removing" /\ Drop(SetHead(m, new).lock) = D
      /\ Remains(m.lock, SetHead(m, new).lock)
  BY <1>1, <1>2, SetHeadView
<1> QED
  BY <1>3 DEF new

LEMMA StartRefusedShown ==
  ASSUME LeaseInv, ShowInv, StartRefused PROVE ShowInv'
<1>1. /\ m.lock # <<>> /\ Holder.pc = "wait" /\ Holder.k \in {"acquire", "ensure"}
      /\ m' = Abort(m, Holder) /\ UNCHANGED <<call, sessions, link, ready>>
  BY DEF StartRefused, Starting, Holds
<1>2. m \in MediaType /\ LockOK(m.lock, m.lease.gen, m.last, sessions) /\ Holder = Head(m.lock)
  BY <1>1, HolderView
<1>3. /\ m' \in MediaType /\ m'.sco = m.sco /\ (Same(m, m') \/ Revoked(m, m'))
      /\ Creates(Holder, m.lease.gen) => m'.lease.gen = 0
      /\ Pc(m'.lock) = "wait" /\ Drop(m'.lock) = {} /\ (Cleaning(m.lock) => Cleaning(m'.lock))
      /\ \A f : Created(m.lock, f) => Creates(Holder, f) \/ Created(m'.lock, f)
      /\ \A f : Deferred(m'.lock, f) => Deferred(m.lock, f)
  BY <1>1, <1>2, AbortView
<1>4. CASE Same(m, m')
  BY <1>1, <1>3, <1>4, WaiterEnds DEF Same, Refreshed
<1>5. CASE Revoked(m, m')
  BY <1>1, <1>3, <1>5, WaiterRevokes DEF Refreshed
<1> QED
  BY <1>3, <1>4, <1>5

\* A holder without an acquisition lets go.
LEMMA UnlockShown ==
  ASSUME LeaseInv, ShowInv, m.lock # <<>>, Holder.pc = "wait",
         Holder.k \notin {"cleanup", "acquire"}, NEW x \in MediaType, Same(m, x),
         x.lock = m.lock, Refreshed(m.sco, x.sco, m.lease.gen),
         m' = Unlock(x), UNCHANGED <<call, sessions, link, ready>>
  PROVE  ShowInv'
<1>1. LockOK(m.lock, m.lease.gen, m.last, sessions) /\ Holder = Head(m.lock)
  BY HolderView
<1>2. /\ Same(x, m') /\ m'.sco = x.sco
      /\ Pc(m'.lock) = "wait" /\ Drop(m'.lock) = {}
      /\ Cleaning(m.lock) => Head(m.lock).k = "cleanup" \/ Cleaning(m'.lock)
      /\ \A h : Created(m.lock, h) => Creates(Head(m.lock), h) \/ Created(m'.lock, h)
      /\ \A h : Deferred(m'.lock, h) => Deferred(m.lock, h)
  BY <1>1, UnlockView
<1>3. Same(m, m') /\ \A h : ~Creates(Holder, h)
  BY <1>2 DEF Same, Creates
<1> QED
  BY <1>1, <1>2, <1>3, WaiterEnds

LEMMA ReleaseStartsShown ==
  ASSUME LeaseInv, ShowInv, ReleaseStarts PROVE ShowInv'
<1> DEFINE job == Removing(Holder, {Holder.gen})
           x == SetHead(m, job)
           d == DetachLease(x)
<1>1. /\ Holds({"release", "reclaim"}, "wait") /\ UNCHANGED <<call, sessions, link, ready>>
      /\ IF m.lease.gen # Holder.gen THEN m' = Unlock(m)
         ELSE IF Holder.gen \in sessions THEN m' = d
         ELSE m' = Unlock(Refresh(d, Up))
  <2>1. Holder \in JobType
    BY HolderFacts DEF ReleaseStarts, Holds
  <2>2. job.gen = Holder.gen
    BY <2>1 DEF JobType, Removing
  <2> QED
    BY <2>2 DEF ReleaseStarts, Releases, Removing
<1>2. m.lock # <<>> /\ Holder.pc = "wait" /\ Holder.k \in {"release", "reclaim"}
  BY <1>1 DEF Holds
<1>3. m \in MediaType /\ Same(m, m) /\ Refreshed(m.sco, m.sco, m.lease.gen)
  BY HolderView DEF Same, Refreshed
<1>4. CASE m.lease.gen # Holder.gen
  BY <1>1, <1>2, <1>3, <1>4, UnlockShown
<1>5. CASE m.lease.gen = Holder.gen
  <2>1. Holder.gen \in 0 .. m.last /\ {Holder.gen} \in SUBSET Nat
    BY <1>2, HolderFacts, HolderWaits DEF JobOK, JobType
  <2>2. /\ x \in MediaType /\ Same(m, x) /\ x.sco = m.sco
        /\ Pc(x.lock) = "removing" /\ Drop(x.lock) = {Holder.gen} /\ Remains(m.lock, x.lock)
    <3> DEFINE D == {Holder.gen}
    <3>1. D \in SUBSET Nat
      BY <2>1
    <3> HIDE DEF D
    <3>2. /\ SetHead(m, Removing(Holder, D)) \in MediaType
          /\ Same(m, SetHead(m, Removing(Holder, D)))
          /\ SetHead(m, Removing(Holder, D)).sco = m.sco
          /\ Pc(SetHead(m, Removing(Holder, D)).lock) = "removing"
          /\ Drop(SetHead(m, Removing(Holder, D)).lock) = D
          /\ Remains(m.lock, SetHead(m, Removing(Holder, D)).lock)
      BY <1>2, <3>1, RemovingView
    <3> QED
      BY <3>2 DEF D
  <2>3. LockOK(x.lock, x.lease.gen, x.last, sessions)
    <3> DEFINE D == {Holder.gen}
    <3>1. D \in SUBSET Nat
      BY <2>1
    <3> HIDE DEF D
    <3>2. MediaOK(SetHead(m, Removing(Holder, D)), sessions, ready)
      BY <1>2, <3>1, RemovalBegins
    <3> QED
      BY <3>2 DEF D, MediaOK
  <2> HIDE DEF x
  <2>4. /\ d \in MediaType /\ Revoked(x, d) /\ d.sco = x.sco /\ Stands(x.lock, d.lock)
        /\ LockOK(d.lock, x.lease.gen, x.last, sessions)
    BY <2>2, <2>3, DetachView
  <2> HIDE DEF d
  <2>5. /\ Revoked(m, d) /\ Pc(d.lock) = "removing" /\ Drop(d.lock) \subseteq 0 .. m.last
        /\ d.sco = m.sco /\ (Cleaning(m.lock) => Cleaning(d.lock))
    BY <2>1, <2>2, <2>4 DEF Revoked, Same, Stands, Remains
  <2>6. CASE Holder.gen \in sessions
    BY <1>1, <1>2, <1>5, <2>4, <2>5, <2>6, WaiterRevokes DEF Refreshed
  <2>7. CASE Holder.gen \notin sessions
    <3> DEFINE f == Refresh(d, Up)
    <3>1. m' = Unlock(f)
      BY <1>1, <1>5, <2>7
    <3>2. /\ f \in MediaType /\ Same(d, f) /\ f.lock = d.lock
          /\ Refreshed(d.sco, f.sco, d.lease.gen)
      BY <2>4, RefreshedView
    <3> HIDE DEF f
    <3>3. d.lock # <<>> /\ Head(d.lock).k # "cleanup"
      <4>1. d.lock # <<>> /\ Head(d.lock) = job
        <5>1. /\ MediaOK(x, sessions, ready) /\ x.lock # <<>> /\ Head(x.lock) = job
              /\ \E i \in DOMAIN x.lock : x.lock[i] = job
              /\ job.drop = {Holder.gen} /\ job.pc = "removing" /\ x.lease = m.lease
          <6> DEFINE D == {Holder.gen}
          <6>1. D \in SUBSET Nat
            BY <2>1
          <6> HIDE DEF D
          <6>2. /\ MediaOK(SetHead(m, Removing(Holder, D)), sessions, ready)
                /\ SetHead(m, Removing(Holder, D)).lock # <<>>
                /\ SetHead(m, Removing(Holder, D)).lease = m.lease
                /\ Head(SetHead(m, Removing(Holder, D)).lock) = Removing(Holder, D)
                /\ \E i \in DOMAIN SetHead(m, Removing(Holder, D)).lock :
                      SetHead(m, Removing(Holder, D)).lock[i] = Removing(Holder, D)
                /\ Removing(Holder, D).drop = D /\ Removing(Holder, D).pc = "removing"
            BY <1>2, <6>1, RemovalBegins
          <6> QED
            BY <6>2 DEF D, x
        <5> HIDE DEF job
        <5>2. Closes(job, x.lease.gen)
          BY <1>5, <5>1 DEF Closes
        <5>3. Scheduled(x.lock, ready, x.lease.gen)
          BY <5>1, <5>2 DEF Scheduled
        <5> QED
          BY <5>1, <5>3, DetachLeaseOK DEF d
      <4>2. job.k = Holder.k
        BY <1>2, HolderWaits DEF Removing, JobType
      <4> QED
        BY <1>2, <4>1, <4>2
    <3>4. /\ m' \in MediaType /\ Same(f, m') /\ m'.sco = f.sco
          /\ Pc(m'.lock) = "wait" /\ Drop(m'.lock) = {}
          /\ Cleaning(d.lock) => Cleaning(m'.lock)
      BY <2>4, <3>1, <3>2, <3>3, UnlockView
    <3>5. Revoked(m, m') /\ Refreshed(m.sco, m'.sco, 0)
      BY <2>5, <3>2, <3>4 DEF Revoked, Same
    <3> QED
      BY <1>1, <1>2, <2>5, <3>4, <3>5, WaiterRevokes
  <2> QED
    BY <2>6, <2>7
<1> QED
  BY <1>4, <1>5

\* The holder begins to close D; the lease stays, its session in D only if the call is
\* ending.
LEMMA RemovalShown ==
  ASSUME LeaseInv, ShowInv, m.lock # <<>>, Holder.pc = "wait",
         NEW D \in SUBSET Nat, D \subseteq 0 .. m.last,
         m.lease.gen # 0 /\ m.lease.gen \in D => call.st # "active",
         m' = SetHead(m, Removing(Holder, D)), UNCHANGED <<call, sessions, link, ready>>
  PROVE  ShowInv'
<1> DEFINE g == m.lease.gen
<1>1. Drop(m.lock) = {} /\ Pc(m.lock) = "wait" /\ ~Opening(m.lock)
  BY HolderWaits
<1>2. /\ LinkOK(m.sco, m.lock, sessions, link, ready) /\ StreamOK(m)
      /\ RevokedOK(m, ready, call.st) /\ ClientsOK(m, sessions, ready, call.st)
  BY HasShown
<1>3. /\ m' \in MediaType /\ Same(m, m') /\ m'.sco = m.sco
      /\ Pc(m'.lock) = "removing" /\ Drop(m'.lock) = D /\ Remains(m.lock, m'.lock)
  BY RemovingView
<1>4. ~Opening(m'.lock) /\ (Leaving(m, ready) => Leaving(m', ready))
  BY <1>1, <1>3 DEF Leaving, Remains, Opening, Same
<1>5. LinkOK(m'.sco, m'.lock, sessions, link, ready)
  BY <1>1, <1>2, <1>3, LinkWork DEF Remains
<1>6. StreamOK(m') /\ RevokedOK(m', ready, call.st)
  BY <1>2, <1>3 DEF StreamOK, RevokedOK, Same, Remains
<1>7. SameNotes(ready, ready, g)
  BY NotesReflexive
<1>8. ClientsOK(m', sessions, ready, call.st)
  BY <1>1, <1>2, <1>3, <1>4, <1>7, ClientsKept DEF Same
<1> QED
  BY <1>5, <1>6, <1>8, Shown

LEMMA ExactStartsShown ==
  ASSUME LeaseInv, ShowInv, ExactStarts PROVE ShowInv'
<1> DEFINE D == {Holder.gen}
           g == m.lease.gen
<1>1. /\ m.lock # <<>> /\ Holder.pc = "wait" /\ Holder.k = "exact"
      /\ UNCHANGED <<call, sessions, link, ready>>
      /\ IF Holder.gen \in sessions THEN m' = SetHead(m, Removing(Holder, D))
         ELSE m' = Unlock(Refresh(m, Up))
  BY DEF ExactStarts, Holds, Removing
<1>2. m \in MediaType
  BY HolderView
<1>3. CASE Holder.gen \notin sessions
  <2> DEFINE f == Refresh(m, Up)
  <2>1. /\ f \in MediaType /\ Same(m, f) /\ f.lock = m.lock /\ Refreshed(m.sco, f.sco, g)
    BY <1>2, RefreshedView
  <2>2. m' = Unlock(f)
    BY <1>1, <1>3
  <2> HIDE DEF f
  <2> QED
    BY <1>1, <2>1, <2>2, UnlockShown
<1>4. CASE Holder.gen \in sessions
  <2>1. D \in SUBSET Nat /\ D \subseteq 0 .. m.last
    BY <1>1, HolderFacts, HolderWaits DEF JobOK, JobType
  <2>2. Deferred(m.lock, Holder.gen)
    BY <1>1, HolderFacts DEF Deferred
  <2>3. g # 0 => g \notin D
    BY <2>2, HasShown DEF RevokedOK
  <2>4. m' = SetHead(m, Removing(Holder, D))
    BY <1>1, <1>4
  <2> HIDE DEF D
  <2> QED
    BY <1>1, <2>1, <2>3, <2>4, RemovalShown
<1> QED
  BY <1>3, <1>4

LEMMA StopStartsShown ==
  ASSUME LeaseInv, ShowInv, StopStarts PROVE ShowInv'
<1> DEFINE D == {m.lease.gen}
           x == SetHead(m, Removing(Holder, D))
<1>1. /\ m.lock # <<>> /\ Holder.pc = "wait" /\ Holder.k = "stop"
      /\ UNCHANGED <<call, sessions, link, ready>>
      /\ m' = DetachLease(x) \/ m' = Unlock(m)
  BY DEF StopStarts, Holds, Removing
<1>2. /\ m \in MediaType /\ Same(m, m) /\ Refreshed(m.sco, m.sco, m.lease.gen)
      /\ D \in SUBSET Nat /\ D \subseteq 0 .. m.last
  BY HolderView, MediaFacts DEF Same, Refreshed
<1> HIDE DEF D
<1>3. CASE m' = Unlock(m)
  BY <1>1, <1>2, <1>3, UnlockShown
<1>4. CASE m' = DetachLease(x)
  <2>1. /\ x \in MediaType /\ Same(m, x) /\ x.sco = m.sco
        /\ Pc(x.lock) = "removing" /\ Drop(x.lock) = D /\ Remains(m.lock, x.lock)
    BY <1>1, <1>2, RemovingView
  <2>2. LockOK(x.lock, x.lease.gen, x.last, sessions)
    BY <1>1, <1>2, RemovalBegins DEF MediaOK
  <2> HIDE DEF x
  <2>3. m' \in MediaType /\ Revoked(x, m') /\ m'.sco = x.sco /\ Stands(x.lock, m'.lock)
    BY <1>4, <2>1, <2>2, DetachView
  <2>4. /\ Revoked(m, m') /\ Pc(m'.lock) = "removing" /\ Drop(m'.lock) = D
        /\ m'.sco = m.sco /\ (Cleaning(m.lock) => Cleaning(m'.lock))
    BY <2>1, <2>3 DEF Revoked, Same, Stands, Remains
  <2> QED
    BY <1>1, <1>2, <2>3, <2>4, WaiterRevokes DEF Refreshed
<1> QED
  BY <1>1, <1>3, <1>4

LEMMA CleanupStartsShown ==
  ASSUME LeaseInv, ShowInv, CleanupStarts PROVE ShowInv'
<1> DEFINE x == SetHead(m, Removing(Holder, sessions))
           y == [x EXCEPT !.timers = {}, !.tokens = {}, !.attached = {},
                          !.lease = NoLease, !.aliases = {}]
           C == {Job("reclaim", "timer", g) : g \in 1 .. y.last}
           q == Without(y.lock, C)
<1>1. /\ m.lock # <<>> /\ Holder.pc = "wait" /\ Holder.k = "cleanup"
      /\ UNCHANGED <<call, sessions, link, ready>> /\ m' = [y EXCEPT !.lock = q]
  BY DEF CleanupStarts, Holds, Removing
<1>2. /\ sessions \in SUBSET Nat /\ sessions \subseteq 0 .. m.last
  BY MediaFacts DEF MediaOK, GensOK
<1>3. /\ x \in MediaType /\ Same(m, x) /\ x.sco = m.sco
      /\ Pc(x.lock) = "removing" /\ Drop(x.lock) = sessions /\ Remains(m.lock, x.lock)
  BY <1>1, <1>2, RemovingView
<1>4. LockOK(x.lock, x.lease.gen, x.last, sessions) /\ x.lock # <<>>
  BY <1>1, <1>2, RemovalBegins DEF MediaOK
<1> HIDE DEF x
<1>5. NoLease \in LeaseType /\ NoLease.gen = 0
  BY CallsAssumption DEF NoLease, LeaseType
<1>6. /\ y \in MediaType /\ y.lease = NoLease /\ y.last = x.last /\ y.lock = x.lock
      /\ y.sco = x.sco
  BY <1>3, <1>5 DEF MediaType
<1> HIDE DEF y
<1>7. \A job \in C : Waits(job) /\ job.k = "reclaim"
  BY DEF Job, Waits
<1> HIDE DEF C
<1>8. y.lock \in Seq(JobType)
  BY <1>6 DEF MediaType
<1>9. Stands(y.lock, q)
  BY <1>4, <1>6, <1>7, <1>8, LessView
<1>10. q \in Seq(JobType)
  BY <1>4, <1>6, <1>7, <1>8, ReclaimsCancelled
<1> HIDE DEF q
<1>11. /\ m' \in MediaType /\ m'.lease = NoLease /\ m'.last = y.last /\ m'.lock = q
       /\ m'.sco = y.sco
  BY <1>1, <1>6, <1>10 DEF MediaType
<1>12. /\ Revoked(m, m') /\ Pc(m'.lock) = "removing" /\ Drop(m'.lock) = sessions
       /\ m'.sco = m.sco /\ (Cleaning(m.lock) => Cleaning(m'.lock))
  BY <1>3, <1>5, <1>6, <1>9, <1>11 DEF Revoked, Same, Stands, Remains
<1> QED
  BY <1>1, <1>2, <1>11, <1>12, WaiterRevokes DEF Refreshed

\* Closed: what the holder was to close is closed.
LEMMA ClosedShown ==
  ASSUME LeaseInv, ShowInv, Closed PROVE ShowInv'
<1> DEFINE g == m.lease.gen
           start == Holder.k \in {"acquire", "ensure"}
           st == IF Up THEN "ready" ELSE "disconnected"
           x == IF Holder.k = "cleanup" THEN SetSco(m, st, 0) ELSE Refresh(m, Up)
<1>1. /\ m.lock # <<>> /\ Holder.pc = "removed"
      /\ ready # <<>> /\ Head(ready).k = "resume" /\ ready' = Tail(ready)
      /\ UNCHANGED <<call, sessions, link>>
      /\ m' = IF start THEN Abort(m, Holder) ELSE Unlock(x)
  BY DEF Closed, Callback
<1>2. /\ m \in MediaType /\ LockOK(m.lock, g, m.last, sessions) /\ Holder = Head(m.lock)
      /\ Pc(m.lock) = "removed" /\ Drop(m.lock) = Holder.drop /\ ready \in Seq(PostType)
  BY <1>1, HolderView
<1>3. /\ ~Opening(m.lock) /\ sessions \cap Holder.drop = {}
      /\ Holder.k = "cleanup" => sessions \subseteq Holder.drop
  BY <1>1, <1>2, HolderFacts DEF Opening, JobOK, RemovalOK
<1>4. /\ LinkOK(m.sco, m.lock, sessions, link, ready) /\ StreamOK(m)
      /\ RevokedOK(m, ready, call.st) /\ ClientsOK(m, sessions, ready, call.st)
  BY HasShown
<1>5. SameNotes(ready, ready', g) /\ (Failing(ready) => Failing(ready'))
  <2>1. ~ClientPost(Head(ready), g)
    BY <1>1 DEF ClientPost
  <2> QED
    BY <1>1, <1>2, <2>1, NotesHeard
<1>6. /\ x \in MediaType /\ Same(m, x) /\ x.lock = m.lock
      /\ \/ Up /\ \E k \in {0, g} : ScoTo(m.sco, x.sco, "ready", k)
         \/ ~Up /\ ScoTo(m.sco, x.sco, "disconnected", 0)
  <2>1. /\ SetSco(m, st, 0) \in MediaType /\ Same(m, SetSco(m, st, 0))
        /\ SetSco(m, st, 0).lock = m.lock /\ ScoTo(m.sco, SetSco(m, st, 0).sco, st, 0)
    BY <1>2, ScoView
  <2>2. /\ Refresh(m, Up) \in MediaType /\ Same(m, Refresh(m, Up))
        /\ Refresh(m, Up).lock = m.lock
        /\ ScoTo(m.sco, Refresh(m, Up).sco, st, IF Up THEN g ELSE 0)
    BY <1>2, RefreshView DEF Up
  <2> QED
    BY <2>1, <2>2
<1> HIDE DEF x
<1>7. /\ m' \in MediaType /\ (Same(m, m') \/ Revoked(m, m'))
      /\ Pc(m'.lock) = "wait" /\ Drop(m'.lock) = {}
      /\ Cleaning(m.lock) => Holder.k = "cleanup" \/ Cleaning(m'.lock)
      /\ Same(m, m') /\ g # 0 /\ Created(m.lock, g) => Created(m'.lock, g)
      /\ Deferred(m'.lock, g) => Deferred(m.lock, g)
      /\ \/ m'.sco = m.sco /\ Holder.k # "cleanup"
         \/ Up /\ \E k \in {0, g} : ScoTo(m.sco, m'.sco, "ready", k)
         \/ ~Up /\ ScoTo(m.sco, m'.sco, "disconnected", 0)
  <2>1. CASE start
    <3>1. /\ m' \in MediaType /\ m'.sco = m.sco /\ (Same(m, m') \/ Revoked(m, m'))
          /\ Creates(Holder, g) => m'.lease.gen = 0
          /\ Pc(m'.lock) = "wait" /\ Drop(m'.lock) = {}
          /\ Cleaning(m.lock) => Holder.k = "cleanup" \/ Cleaning(m'.lock)
          /\ \A f : Created(m.lock, f) => Creates(Holder, f) \/ Created(m'.lock, f)
          /\ \A f : Deferred(m'.lock, f) => Deferred(m.lock, f)
      BY <1>1, <1>2, <2>1, AbortView
    <3> QED
      BY <2>1, <3>1 DEF Same
  <2>2. CASE ~start
    <3>1. /\ m' \in MediaType /\ Same(x, m') /\ m'.sco = x.sco
          /\ Pc(m'.lock) = "wait" /\ Drop(m'.lock) = {}
          /\ Cleaning(m.lock) => Holder.k = "cleanup" \/ Cleaning(m'.lock)
          /\ \A h : Created(m.lock, h) => Creates(Holder, h) \/ Created(m'.lock, h)
          /\ \A h : Deferred(m'.lock, h) => Deferred(m.lock, h)
      BY <1>1, <1>2, <1>6, <2>2, UnlockView
    <3>2. Same(m, m') /\ ~Creates(Holder, g)
      BY <1>6, <2>2, <3>1 DEF Same, Creates
    <3> QED
      BY <1>6, <3>1, <3>2
  <2> QED
    BY <2>1, <2>2
<1>8. Holder.k = "cleanup" => sessions = {}
  BY <1>3
<1>9. LinkOK(m'.sco, m'.lock, sessions, link, ready')
  <2>1. /\ m'.sco.active = m.sco.active
        /\ \/ m'.sco.st = m.sco.st /\ Holder.k # "cleanup"
           \/ (Up => m'.sco.st = "ready") /\ (~Up => m'.sco.st # "ready")
    BY <1>7 DEF ScoTo
  <2>2. \/ Cleaning(m.lock) => Cleaning(m'.lock)
        \/ sessions = {} /\ (link.st # "up" => m'.sco.st # "ready")
    BY <1>7, <1>8, <2>1 DEF Up
  <2>3. \/ m'.sco.st = m.sco.st
        \/ (link.st = "up" => m'.sco.st = "ready") /\ (link.st # "up" => m'.sco.st # "ready")
    BY <2>1 DEF Up
  <2>4. /\ ready # <<>> /\ Head(ready).k = "resume" /\ ready' = Tail(ready)
        /\ Pc(m.lock) = "removed" /\ Pc(m'.lock) = "wait" /\ ready \in Seq(PostType)
        /\ m'.sco.active => m.sco.active
    BY <1>1, <1>2, <1>7, <2>1
  <2> QED
    BY <1>4, <2>2, <2>3, <2>4, LinkClosed
<1>10. CASE Same(m, m')
  <2>1. ~Opening(m'.lock)
    BY <1>7 DEF Opening
  <2>2. g \in sessions => /\ g \notin Drop(m.lock)
                          /\ Cleaning(m.lock) => Cleaning(m'.lock)
    BY <1>2, <1>3, <1>7, <1>8
  <2>3. /\ StreamOK(m') /\ RevokedOK(m', ready', call.st)
        /\ ClientsOK(m', sessions, ready', call.st)
    BY <1>3, <1>5, <1>7, <1>10, <2>1, <2>2, EndsKept
  <2> QED
    BY <1>1, <1>9, <2>3, Shown
<1>11. CASE Revoked(m, m') /\ ~Same(m, m')
  <2>1. m'.sco = m.sco
    <3>1. CASE start
      BY <1>1, <1>2, <3>1, AbortView
    <3>2. CASE ~start
      <4>1. m' = Unlock(x) /\ x.lock # <<>>
        BY <1>1, <1>6, <3>2
      <4>2. Same(x, m')
        BY <1>2, <1>6, <4>1, UnlockView
      <4> QED
        BY <1>6, <1>11, <4>2 DEF Same
    <3> QED
      BY <3>1, <3>2
  <2>2. /\ StreamOK(m') /\ RevokedOK(m', ready', call.st)
        /\ ClientsOK(m', sessions, ready', call.st)
    BY <1>2, <1>4, <1>7, <1>11, <2>1, NoneShown
  <2> QED
    BY <1>1, <1>9, <2>2, Shown
<1> QED
  BY <1>7, <1>10, <1>11

\* StartReuses: the session of the lease is open.
LEMMA StartReusesShown ==
  ASSUME LeaseInv, ShowInv, StartReuses PROVE ShowInv'
<1> DEFINE g == m.lease.gen
           D == {g}
<1>1. /\ m.lock # <<>> /\ Holder.pc = "wait" /\ Holder.k \in {"acquire", "ensure"}
      /\ g \in sessions /\ UNCHANGED <<call, sessions, link, ready>>
      /\ m' = IF OfActiveCall(m) THEN Grant(m, Holder) ELSE SetHead(m, Removing(Holder, D))
  BY DEF StartReuses, Starting, Holds, Conclude, Removing
<1>2. /\ m \in MediaType /\ LockOK(m.lock, g, m.last, sessions) /\ Holder = Head(m.lock)
      /\ g # 0 /\ g \in 0 .. m.last /\ g \in Nat
  BY <1>1, HolderView, MediaFacts
<1>3. CASE ~OfActiveCall(m)
  <2>1. call.st # "active"
    BY <1>2, <1>3 DEF OfActiveCall, LeaseInv, LeaseOfCall
  <2>2. D \in SUBSET Nat /\ D \subseteq 0 .. m.last /\ m' = SetHead(m, Removing(Holder, D))
    BY <1>1, <1>2, <1>3
  <2> HIDE DEF D
  <2> QED
    BY <1>1, <2>1, <2>2, RemovalShown
<1>4. CASE OfActiveCall(m)
  <2>1. /\ m' \in MediaType /\ m'.lease = m.lease /\ m'.last = m.last
        /\ m'.tokens = m.tokens \cup {g} /\ m'.attached = m.attached
        /\ ScoTo(m.sco, m'.sco, "ready", g)
        /\ Pc(m'.lock) = "wait" /\ Drop(m'.lock) = {}
        /\ Cleaning(m.lock) => Cleaning(m'.lock)
        /\ Deferred(m'.lock, g) => Deferred(m.lock, g)
    BY <1>1, <1>2, <1>4, GrantView
  <2>2. /\ Pc(m.lock) = "wait" /\ Drop(m.lock) = {} /\ ~Opening(m.lock) /\ ~Opening(m'.lock)
    BY <1>1, <2>1, HolderWaits DEF Opening
  <2>3. /\ m'.sco.st = "ready" /\ m'.sco.active = m.sco.active /\ m'.sco.stream = g
        /\ m'.sco.attached = (m.sco.attached /\ m.sco.stream = g)
    BY <1>2, <2>1, HolderView DEF ScoTo, ScoType, MediaType
  <2>4. /\ LinkOK(m.sco, m.lock, sessions, link, ready) /\ StreamOK(m)
        /\ RevokedOK(m, ready, call.st) /\ ClientsOK(m, sessions, ready, call.st)
    BY HasShown
  <2>5. SameNotes(ready, ready, g)
    BY NotesReflexive
  <2>6. LinkOK(m'.sco, m'.lock, sessions, link, ready)
    <3>1. sessions # {}
      BY <1>1
    <3> QED
      BY <2>1, <2>2, <2>3, <2>4, <3>1, LinkWork
  <2>7. StreamOK(m') /\ RevokedOK(m', ready, call.st)
    BY <2>1, <2>3, <2>4 DEF StreamOK, RevokedOK
  <2>8. Leaving(m, ready) => Leaving(m', ready)
    BY <2>1, <2>2 DEF Leaving
  <2>9. ClientsOK(m', sessions, ready, call.st)
    <3>1. /\ m'.lease = m.lease /\ m'.attached = m.attached
          /\ m'.tokens \subseteq m.tokens \cup {m.lease.gen}
          /\ m.lease.gen \in sessions /\ ~Opening(m'.lock) /\ ~Opening(m.lock)
          /\ m'.sco.stream = m.lease.gen
          /\ m'.sco.attached = (m.sco.attached /\ m.sco.stream = m.lease.gen)
      BY <1>1, <2>1, <2>2, <2>3
    <3> QED
      BY <2>4, <2>5, <2>8, <3>1, ClientsKept
  <2> QED
    BY <1>1, <2>6, <2>7, <2>9, Shown
<1> QED
  BY <1>3, <1>4

\* StartOpens: a session for a lease that no client could use.
LEMMA StartOpensShown ==
  ASSUME LeaseInv, ShowInv, StartOpens PROVE ShowInv'
<1> DEFINE n == m.last + 1
           y == NewLease(m, "mcp_client")
           x == IF m.lease.gen # 0 THEN m
                ELSE [y EXCEPT !.aliases = y.aliases \cup {<<Holder.gen, y.lease.gen>>}]
           s == x.lease.gen
           c == SetSco(x, "connecting", 0)
           new == [Holder EXCEPT !.s = s, !.pc = "opening"]
<1>1. /\ m.lock # <<>> /\ Holder.pc = "wait" /\ call.st = "active"
      /\ UNCHANGED <<call, link, ready>> /\ (m.lease.gen # 0 => m.lease.gen \notin sessions)
      /\ sessions' = sessions \cup {s} /\ m' = SetHead(c, new)
  BY DEF StartOpens, Starting, Holds
<1>2. /\ Holder \in JobType /\ Holder = Head(m.lock) /\ Holder.drop = {} /\ m \in MediaType
      /\ Pc(m.lock) = "wait" /\ Drop(m.lock) = {} /\ ~Opening(m.lock)
      /\ Holder.gen \in 0 .. m.last
  BY <1>1, HolderWaits, HolderView, HolderFacts DEF JobOK
<1>3. /\ LinkOK(m.sco, m.lock, sessions, link, ready)
      /\ RevokedOK(m, ready, call.st) /\ ClientsOK(m, sessions, ready, call.st)
  BY HasShown
\* the lease is there, or is made now
<1>4. /\ x \in MediaType /\ x.lock = m.lock /\ x.sco = m.sco /\ s # 0
      /\ x.tokens \cup x.attached = {} /\ ~Noted(ready, s)
      /\ ~Deferred(m.lock, s) /\ ~Swept(ready, s)
  <2>1. CASE m.lease.gen # 0
    <3>1. x = m
      BY <2>1
    <3> HIDE DEF x
    <3>2. Unused(m, ready)
      BY <1>1, <1>3, <2>1 DEF ClientsOK
    <3> QED
      BY <1>2, <1>3, <2>1, <3>1, <3>2 DEF Unused, RevokedOK
  <2>2. CASE m.lease.gen = 0
    <3>1. /\ y \in MediaType /\ y.lease.gen = n /\ y.last = n /\ y.lock = m.lock
          /\ y.sco = m.sco /\ y.tokens = {} /\ y.attached = {}
      BY <2>2, NewLeaseView
    <3>2. /\ n \in Nat /\ n # 0 /\ ~Deferred(m.lock, n) /\ ~Swept(ready, n)
          /\ ~Noted(ready, n)
      BY Unheard
    <3> DEFINE A == y.aliases \cup {<<Holder.gen, y.lease.gen>>}
    <3>3. x = [y EXCEPT !.aliases = A]
      BY <2>2
    <3> HIDE DEF x, y, n
    <3>4. A \in SUBSET (Nat \X Nat)
      <4>1. Holder.gen \in Nat /\ y.aliases \in SUBSET (Nat \X Nat)
        BY <1>2, <3>1 DEF JobType, MediaType
      <4> QED
        BY <3>1, <3>2, <4>1
    <3> HIDE DEF A
    <3>5. /\ x \in MediaType /\ x.lease = y.lease /\ x.lock = y.lock /\ x.sco = y.sco
          /\ x.tokens = y.tokens /\ x.attached = y.attached
      BY <3>1, <3>3, <3>4 DEF MediaType
    <3> QED
      BY <3>1, <3>2, <3>5
  <2> QED
    BY <2>1, <2>2
<1> HIDE DEF x
<1>5. s \in Nat
  BY <1>4 DEF MediaType, LeaseType
<1>6. /\ c \in MediaType /\ Same(x, c) /\ c.lock = m.lock /\ c.sco.active = m.sco.active
      /\ c.sco.st = "connecting" /\ c.sco.stream = 0 /\ ~c.sco.attached
  <2>1. /\ c \in MediaType /\ Same(x, c) /\ c.lock = x.lock
        /\ ScoTo(x.sco, c.sco, "connecting", 0)
    BY <1>4, ScoView
  <2> HIDE DEF c
  <2> QED
    BY <1>4, <2>1 DEF ScoTo
<1>7. /\ new \in JobType /\ new.k = Holder.k /\ new.gen = Holder.gen /\ new.s = s
      /\ new.reused = Holder.reused /\ new.drop = {} /\ new.pc = "opening"
  <2> HIDE DEF s
  <2> QED
    BY <1>2, <1>5 DEF JobType, Phases
<1> HIDE DEF new, c
<1>8. /\ Same(c, m') /\ m'.sco = c.sco
      /\ Pc(m'.lock) = "opening" /\ Ses(m'.lock) = s /\ Drop(m'.lock) = {}
      /\ Remains(m.lock, m'.lock)
  BY <1>1, <1>2, <1>6, <1>7, SetHeadView
<1>9. /\ m'.lease.gen = s /\ m'.tokens \cup m'.attached = {}
      /\ Opening(m'.lock) /\ ~Deferred(m'.lock, s) /\ (Cleaning(m.lock) => Cleaning(m'.lock))
  BY <1>4, <1>6, <1>8 DEF Same, Opening, Remains
<1> HIDE DEF s
<1>10. \A i \in DOMAIN ready : ready[i].k # "resume"
  BY <1>2, <1>3 DEF LinkOK, ResumeOK
<1>11. UsersOK(m'.lock, sessions', link, ready)
  <2>1. /\ link.users \subseteq sessions /\ (link.st = "up" => link.users # {})
        /\ \A t \in sessions : t \in link.users
    BY <1>2, <1>3 DEF LinkOK, UsersOK
  <2>2. s \in sessions' /\ sessions \subseteq sessions' /\ \A t \in sessions' : t \in sessions \/ t = s
    BY <1>1
  <2> QED
    BY <1>8, <1>9, <1>10, <2>1, <2>2 DEF UsersOK
<1>12. NewsOK(m'.lock, sessions', link, ready)
  BY <1>1, <1>2, <1>3, <1>8, <1>9 DEF LinkOK, NewsOK
<1>13. ShownOK(m'.sco, m'.lock, link, ready)
  BY <1>3, <1>6, <1>8, <1>9 DEF LinkOK, ShownOK
<1>14. LinkOK(m'.sco, m'.lock, sessions', link, ready)
  BY <1>10, <1>11, <1>12, <1>13 DEF LinkOK, ResumeOK
<1>15. StreamOK(m') /\ RevokedOK(m', ready, call.st)
  BY <1>4, <1>6, <1>8, <1>9 DEF StreamOK, RevokedOK
<1>16. ClientsOK(m', sessions', ready, call.st)
  BY <1>1, <1>4, <1>6, <1>8, <1>9 DEF ClientsOK, Unused
<1> QED
  <2>1. call' = call /\ link' = link /\ ready' = ready
    BY <1>1
  <2> QED
    BY <1>14, <1>15, <1>16, <2>1, Shown

\* The holder hears of its session: it was opened, or it is no session.
LEMMA LinkOpened ==
  ASSUME NEW c, NEW q, NEW S, NEW l, NEW R \in Seq(PostType), LinkOK(c, q, S, l, R),
         R # <<>>, Head(R).k = "resume", Pc(q) = "opened",
         NEW d, NEW p, NEW T, Pc(p) \in {"wait", "removing"}, Cleaning(q) => Cleaning(p),
         IF Head(R).ok THEN T = S /\ d.st = "ready"
         ELSE T = S \ {Ses(q)} /\ d.st = "failed" /\ d.active = c.active
  PROVE  LinkOK(d, p, T, l, Tail(R))
<1> DEFINE Q == Tail(R)
<1>1. /\ Q \in Seq(PostType)
      /\ \A i \in DOMAIN Q : i \in Nat /\ i + 1 \in DOMAIN R /\ R[i + 1] = Q[i] /\ i + 1 # 1
      /\ \A i \in DOMAIN R : i \in Nat /\ i >= 1
      /\ \A i \in DOMAIN R : i # 1 => i - 1 \in DOMAIN Q /\ Q[i - 1] = R[i]
      /\ 1 \in DOMAIN R /\ Head(R) = R[1]
  BY NextPost
<1> HIDE DEF Q
<1>2. \A i \in DOMAIN R : R[i].k = "resume" => i = 1
  BY <1>1 DEF LinkOK, ResumeOK
<1>3. Opening(q) /\ ~Opening(p)
  BY DEF Opening
<1>4. \A i \in DOMAIN Q : Q[i].k # "resume"
  BY <1>1, <1>2
<1>5. (Failing(R) => Failing(Q)) /\ (Falling(R) => Falling(Q))
  <2>1. \A i \in DOMAIN R : Down(R[i]) => i - 1 \in DOMAIN Q /\ Q[i - 1] = R[i]
    BY <1>1 DEF Down
  <2>2. Falling(R) => Falling(Q)
    BY <2>1 DEF Falling
  <2>3. Failing(R) => Failing(Q)
    BY <2>1 DEF Failing, Down
  <2> QED
    BY <2>2, <2>3
<1>6. IF Head(R).ok THEN Ses(q) \in l.users /\ (l.st = "up" \/ Failing(Q))
      ELSE Ses(q) \notin l.users /\ l.st # "up"
  <2>1. IF Head(R).ok THEN /\ Ses(q) \in l.users
                           /\ l.st = "up" \/ \E j \in DOMAIN R : j > 1 /\ R[j].k = "failed"
        ELSE Ses(q) \notin l.users /\ l.st # "up"
    BY <1>1 DEF LinkOK, UsersOK
  <2>2. Failing(R) => Failing(Q)
    BY <1>5
  <2> QED
    BY <2>1, <2>2 DEF Failing
<1>7. ResumeOK(p, Q)
  BY <1>4 DEF ResumeOK
<1>8. UsersOK(p, T, l, Q)
  BY <1>3, <1>4, <1>6 DEF LinkOK, UsersOK, Opening
<1>9. NewsOK(p, T, l, Q)
  <2>1. ASSUME l.st = "up", NEW i \in DOMAIN Q PROVE ~Down(Q[i])
    <3>1. i + 1 \in DOMAIN R /\ R[i + 1] = Q[i] /\ i \in Nat
      BY <1>1
    <3>2. Down(R[i + 1]) => \E j \in DOMAIN R : j > i + 1 /\ R[j].k = "resume"
      BY <2>1, <3>1 DEF LinkOK, NewsOK
    <3>3. \A j \in DOMAIN R : j > i + 1 => j # 1
      BY <1>1, <3>1
    <3> QED
      BY <1>2, <3>1, <3>2, <3>3
  <2>2. ASSUME l.st # "up", NEW t \in T PROVE Failing(Q) \/ Cleaning(p)
    <3>1. CASE Head(R).ok
      BY <1>6, <2>2, <3>1
    <3>2. CASE ~Head(R).ok
      <4>1. t \in S /\ t # Ses(q)
        BY <2>2, <3>2
      <4>2. Failing(R) \/ Cleaning(q)
        BY <2>2, <4>1 DEF LinkOK, NewsOK
      <4> QED
        BY <1>5, <4>2
    <3> QED
      BY <3>1, <3>2
  <2> QED
    BY <2>1, <2>2 DEF NewsOK
<1>10. ShownOK(d, p, l, Q)
  <2>1. Failing(Q) => Falling(Q)
    BY DEF Failing, Falling, Down
  <2> QED
    BY <1>5, <1>6, <2>1 DEF LinkOK, ShownOK
<1> QED
  BY <1>7, <1>8, <1>9, <1>10 DEF LinkOK, Q

\* Opened: the holder's session is for the lease, or nobody's.
LEMMA OpenedShown ==
  ASSUME LeaseInv, ShowInv, Opened PROVE ShowInv'
<1> DEFINE g == m.lease.gen
           s == Holder.s
           D == {s}
           a == SetSco(m, "ready", 0)
           x == SetActive(a, TRUE)
           f == SetSco(m, "failed", 0)
<1>1. /\ m.lock # <<>> /\ Holder.pc = "opened" /\ Holder.k \in {"acquire", "ensure"}
      /\ ready # <<>> /\ Head(ready).k = "resume" /\ ready' = Tail(ready)
      /\ call' = call /\ link' = link
      /\ IF Head(ready).ok
         THEN /\ sessions' = sessions
              /\ m' = IF OfActiveCall(x) /\ x.lease.gen = s THEN Grant(x, Holder)
                      ELSE SetHead(x, Removing(Holder, D))
         ELSE /\ sessions' = sessions \ D
              /\ m' = Abort(f, Holder)
  BY DEF Opened, Holds, Callback, Conclude, Removing
<1>2. /\ m \in MediaType /\ LockOK(m.lock, g, m.last, sessions) /\ Holder = Head(m.lock)
      /\ Pc(m.lock) = "opened" /\ Ses(m.lock) = s /\ Holder \in JobType
      /\ ready \in Seq(PostType)
  BY <1>1, HolderView
<1>3. Opening(m.lock) /\ s \in 0 .. m.last /\ D \in SUBSET Nat /\ D \subseteq 0 .. m.last
  BY <1>1, <1>2, HolderFacts DEF Opening, JobOK, JobType
<1>4. /\ LinkOK(m.sco, m.lock, sessions, link, ready) /\ StreamOK(m)
      /\ RevokedOK(m, ready, call.st) /\ ClientsOK(m, sessions, ready, call.st)
  BY HasShown
<1>5. /\ SameNotes(ready, ready', g) /\ (Failing(ready) => Failing(ready'))
  <2>1. ~ClientPost(Head(ready), g)
    BY <1>1 DEF ClientPost
  <2> QED
    BY <1>1, <1>2, <2>1, NotesHeard
<1>6. g # 0 /\ g \in sessions => g = s /\ Unused(m, ready) /\ ~m.sco.attached
  BY <1>2, <1>3, <1>4 DEF ClientsOK
<1>7. /\ x \in MediaType /\ Same(m, x) /\ x.lock = m.lock /\ x.sco.st = "ready"
      /\ x.sco.stream = m.sco.stream /\ x.sco.attached = m.sco.attached
  <2>1. /\ a \in MediaType /\ Same(m, a) /\ a.lock = m.lock /\ ScoTo(m.sco, a.sco, "ready", 0)
    BY <1>2, ScoView
  <2> HIDE DEF a
  <2>2. /\ x \in MediaType /\ Same(a, x) /\ x.lock = a.lock /\ x.sco.st = a.sco.st
        /\ x.sco.stream = a.sco.stream /\ x.sco.attached = a.sco.attached
    BY <2>1, ActiveView
  <2>3. m.sco \in ScoType
    BY <1>2 DEF MediaType
  <2> HIDE DEF x
  <2> QED
    BY <2>1, <2>2, <2>3 DEF ScoTo, Same, ScoType
<1>8. /\ f \in MediaType /\ Same(m, f) /\ f.lock = m.lock /\ ScoTo(m.sco, f.sco, "failed", 0)
  BY <1>2, ScoView
<1> HIDE DEF x, f
<1>9. CASE Head(ready).ok /\ OfActiveCall(x) /\ x.lease.gen = s
  <2>1. m' = Grant(x, Holder) /\ sessions' = sessions /\ g = s /\ g # 0
    BY <1>1, <1>7, <1>9 DEF Same, OfActiveCall
  <2>2. /\ m' \in MediaType /\ m'.lease = m.lease /\ m'.last = m.last
        /\ m'.attached = m.attached /\ ScoTo(x.sco, m'.sco, "ready", g)
        /\ Pc(m'.lock) = "wait" /\ Drop(m'.lock) = {}
        /\ Cleaning(m.lock) => Cleaning(m'.lock)
        /\ Deferred(m'.lock, g) => Deferred(m.lock, g)
    <3>1. /\ x.lock # <<>> /\ Holder = Head(x.lock) /\ x.lease = m.lease /\ x.last = m.last
          /\ x.attached = m.attached /\ LockOK(x.lock, x.lease.gen, m.last, sessions)
      BY <1>1, <1>2, <1>7 DEF Same
    <3>2. /\ m' \in MediaType /\ m'.lease = x.lease /\ m'.last = x.last
          /\ m'.attached = x.attached /\ ScoTo(x.sco, m'.sco, "ready", x.lease.gen)
          /\ Pc(m'.lock) = "wait" /\ Drop(m'.lock) = {}
          /\ Cleaning(x.lock) => Cleaning(m'.lock)
          /\ Deferred(m'.lock, x.lease.gen) => Deferred(x.lock, x.lease.gen)
      <4>1. Holder.k \in {"acquire", "ensure"}
        BY <1>1
      <4> DEFINE y == Grant(x, Holder)
      <4>2. /\ y \in MediaType /\ y.lease = x.lease /\ y.last = x.last
            /\ y.attached = x.attached /\ ScoTo(x.sco, y.sco, "ready", x.lease.gen)
            /\ Pc(y.lock) = "wait" /\ Drop(y.lock) = {}
            /\ Cleaning(x.lock) => Cleaning(y.lock)
            /\ Deferred(y.lock, x.lease.gen) => Deferred(x.lock, x.lease.gen)
        BY <1>7, <3>1, <4>1, GrantView
      <4>3. m' = y
        BY <2>1
      <4> HIDE DEF y
      <4> QED
        BY <4>2, <4>3
    <3> QED
      BY <1>7, <3>1, <3>2
  <2>3. /\ m'.sco.st = "ready" /\ m'.sco.stream = g /\ (m'.sco.attached => m.sco.attached)
    BY <1>7, <2>1, <2>2 DEF ScoTo
  <2>4. LinkOK(m'.sco, m'.lock, sessions, link, ready')
    BY <1>1, <1>2, <1>4, <1>9, <2>2, <2>3, LinkOpened
  <2>5. StreamOK(m') /\ RevokedOK(m', ready', call.st)
    BY <1>4, <1>5, <2>2, <2>3 DEF StreamOK, RevokedOK, SameNotes
  <2>6. g \in sessions
    BY <1>2, <1>3, <1>4, <2>1 DEF LinkOK, UsersOK
  <2>7. /\ g \notin m.attached /\ ~Noted(ready', g) /\ ~m'.sco.attached
    BY <1>5, <1>6, <2>1, <2>3, <2>6 DEF Unused, SameNotes
  <2>8. \A k : ~LastNote(ready', g, k)
    BY <2>7 DEF LastNote, Noted
  <2>9. ClientShown(m', ready') /\ ~Opening(m'.lock)
    BY <2>2, <2>3, <2>7, <2>8 DEF ClientShown, Opening
  <2>10. ClientsOK(m', sessions, ready', call.st)
    BY <2>2, <2>6, <2>9 DEF ClientsOK
  <2> QED
    BY <1>1, <2>1, <2>4, <2>5, <2>10, Shown
<1>10. CASE Head(ready).ok /\ ~(OfActiveCall(x) /\ x.lease.gen = s)
  <2>1. m' = SetHead(x, Removing(Holder, D)) /\ sessions' = sessions
    BY <1>1, <1>10
  <2>2. g # 0 /\ g \in D => call.st # "active"
    <3>1. g = s /\ g # 0 => ~OfActiveCall(x)
      BY <1>7, <1>10 DEF Same
    <3> QED
      BY <1>7, <3>1 DEF Same, OfActiveCall, LeaseInv, LeaseOfCall
  <2> DEFINE new == Removing(Holder, D)
  <2>3. /\ new \in JobType /\ new.k = Holder.k /\ new.gen = Holder.gen
        /\ new.reused = Holder.reused /\ new.drop = D /\ new.pc = "removing"
    <3> HIDE DEF D
    <3> QED
      BY <1>2, <1>3 DEF JobType, Phases, Removing
  <2> HIDE DEF new
  <2>4. /\ Same(x, m') /\ m'.sco = x.sco /\ Pc(m'.lock) = "removing" /\ Drop(m'.lock) = D
        /\ Remains(m.lock, m'.lock)
    <3>1. x.lock # <<>> /\ Head(x.lock) = Holder /\ m' = SetHead(x, new)
      BY <1>1, <1>2, <1>7, <2>1 DEF new
    <3> HIDE DEF D
    <3> QED
      BY <1>7, <2>3, <3>1, SetHeadView
  <2>5. Same(m, m') /\ ~Opening(m'.lock)
    BY <1>7, <2>4 DEF Same, Opening
  <2>6. LinkOK(m'.sco, m'.lock, sessions, link, ready')
    BY <1>1, <1>2, <1>4, <1>7, <1>10, <2>4, LinkOpened DEF Remains
  <2>7. StreamOK(m')
    BY <1>4, <1>7, <2>4, <2>5 DEF StreamOK, Same, Remains
  <2>8. RevokedOK(m', ready', call.st)
    BY <1>3, <1>4, <1>5, <2>2, <2>4, <2>5 DEF RevokedOK, Same, Remains, SameNotes
  <2>9. Unused(m, ready) => Unused(m', ready')
    BY <1>5, <2>5 DEF Unused, Same, SameNotes
  <2>10. g # 0 /\ g \in sessions => Leaving(m', ready')
    BY <1>6, <2>4, <2>5 DEF Leaving, Same
  <2>11. ClientsOK(m', sessions, ready', call.st)
    BY <1>4, <2>5, <2>9, <2>10 DEF ClientsOK, Same
  <2> QED
    BY <1>1, <2>1, <2>6, <2>7, <2>8, <2>11, Shown
<1>11. CASE ~Head(ready).ok
  <2>1. m' = Abort(f, Holder) /\ sessions' = sessions \ D
    BY <1>1, <1>11
  <2>2. /\ m' \in MediaType /\ m'.sco = f.sco /\ (Same(f, m') \/ Revoked(f, m'))
        /\ Pc(m'.lock) = "wait" /\ Drop(m'.lock) = {}
        /\ Cleaning(m.lock) => Holder.k = "cleanup" \/ Cleaning(m'.lock)
        /\ \A h : Deferred(m'.lock, h) => Deferred(m.lock, h)
    <3>1. /\ f.lock # <<>> /\ Holder = Head(f.lock)
          /\ LockOK(f.lock, g, m.last, sessions)
      BY <1>1, <1>2, <1>8
    <3>2. /\ m' \in MediaType /\ m'.sco = f.sco /\ (Same(f, m') \/ Revoked(f, m'))
          /\ Pc(m'.lock) = "wait" /\ Drop(m'.lock) = {}
          /\ Cleaning(f.lock) => Holder.k = "cleanup" \/ Cleaning(m'.lock)
          /\ \A h : Deferred(m'.lock, h) => Deferred(f.lock, h)
      BY <1>8, <2>1, <3>1, AbortView
    <3> QED
      BY <1>8, <3>2
  <2>3. /\ m'.sco.st = "failed" /\ m'.sco.stream = 0 /\ ~m'.sco.attached
        /\ m'.sco.active = m.sco.active /\ ~Opening(m'.lock)
    BY <1>8, <2>2 DEF ScoTo, Opening
  <2>4. LinkOK(m'.sco, m'.lock, sessions', link, ready')
    BY <1>1, <1>2, <1>4, <1>11, <2>1, <2>2, <2>3, LinkOpened
  <2>5. CASE Revoked(f, m')
    <3>1. Revoked(m, m') /\ ScoTo(m.sco, m'.sco, "failed", 0)
      BY <1>8, <2>2, <2>5 DEF Revoked, Same
    <3>2. /\ StreamOK(m') /\ RevokedOK(m', ready', call.st)
          /\ ClientsOK(m', sessions', ready', call.st)
      BY <1>2, <1>4, <2>2, <3>1, NoneShown
    <3> QED
      BY <1>1, <2>4, <3>2, Shown
  <2>6. CASE Same(f, m')
    <3>1. Same(m, m')
      BY <1>8, <2>6 DEF Same
    <3>2. StreamOK(m') /\ RevokedOK(m', ready', call.st)
      BY <1>4, <1>5, <2>2, <2>3, <3>1 DEF StreamOK, RevokedOK, Same, SameNotes
    <3>3. Unused(m, ready) => Unused(m', ready')
      BY <1>5, <3>1 DEF Unused, Same, SameNotes
    <3>4. ClientsOK(m', sessions', ready', call.st)
      BY <1>4, <1>6, <2>1, <2>3, <3>1, <3>3 DEF ClientsOK, Same
    <3> QED
      BY <1>1, <2>4, <3>2, <3>4, Shown
  <2> QED
    BY <2>2, <2>5, <2>6
<1> QED
  BY <1>9, <1>10, <1>11

-----------------------------------------------------------------------------
(* The invariant *)

\* Callbacks of clients name a lease: only tokens and clients lead to them.
LEMMA PostsNamed == LeaseInv /\ NamedPosts /\ [Next]_vars => NamedPosts'
<1> SUFFICES ASSUME LeaseInv, NamedPosts, [Next]_vars PROVE NamedPosts'
  OBVIOUS
<1>1. ready \in Seq(PostType) /\ m.lease.gen \in Nat
  BY HolderView, MediaFacts
<1>2. CASE ready' = ready
  BY <1>2 DEF NamedPosts
<1>3. CASE ready # <<>> /\ ready' = Tail(ready)
  BY <1>1, <1>3, NotesHeard DEF NamedPosts
<1>4. ASSUME NEW e \in PostType, ready' = Append(ready, e),
             e.k \in {"attached", "detached"} => e.gen # 0
      PROVE  NamedPosts'
  BY <1>1, <1>4, PostView DEF NamedPosts, Noted, ClientPost
<1>5. \A g \in m.tokens \cup m.attached : g # 0 /\ g \in Nat
  BY MediaFacts DEF MediaOK, GensOK, MediaType
<1>6. CASE LinkJoins
  BY <1>4, <1>6, PostTypes DEF LinkJoins, Resume
<1>7. CASE LinkConnects
  BY <1>4, <1>7, PostTypes DEF LinkConnects, Health, HealthStates
<1>8. CASE LinkUp
  <2>1. ready' = ready \o <<Health("connected"), Resume(TRUE)>>
    BY <1>8 DEF LinkUp
  <2>2. SameNotes(ready, ready', 0)
    BY <1>1, <2>1, NewsTwice, PostTypes DEF Health, HealthStates, Resume
  <2> QED
    BY <2>2 DEF NamedPosts, SameNotes
<1>9. CASE LinkFails
  <2>1. ready' = ready \o <<Health("failed"), Resume(FALSE)>>
    BY <1>9 DEF LinkFails
  <2>2. SameNotes(ready, ready', 0)
    BY <1>1, <2>1, NewsTwice, PostTypes DEF Health, HealthStates, Resume
  <2> QED
    BY <2>2 DEF NamedPosts, SameNotes
<1>10. CASE SessionsRemoved
  BY <1>10, RemovalPosted DEF NamedPosts, SameNotes
<1>11. CASE BridgeFails
  BY <1>4, <1>11, PostTypes DEF BridgeFails, Health, HealthStates
<1>12. CASE ClientConnects
  <2>1. PICK g \in m.tokens : ready' = IF Admits(g) THEN Append(ready, Posted("attached", g)) ELSE ready
    BY <1>12 DEF ClientConnects
  <2>2. Posted("attached", g) \in PostType /\ Posted("attached", g).gen # 0
    BY <1>5 DEF Posted, PostType
  <2> QED
    BY <1>2, <1>4, <2>1, <2>2
<1>13. ASSUME NEW g \in m.attached, Leaves(g) PROVE NamedPosts'
  <2>1. Posted("detached", g) \in PostType /\ Posted("detached", g).gen # 0
    BY <1>5 DEF Posted, PostType
  <2> QED
    BY <1>4, <1>13, <2>1 DEF Leaves
<1>14. CASE CallEnds
  <2>1. /\ Posted("cleanup", m.lease.gen) \in PostType
        /\ Posted("cleanup", m.lease.gen).k = "cleanup"
    BY <1>1 DEF Posted, PostType
  <2> QED
    BY <1>2, <1>4, <1>14, <2>1 DEF CallEnds
<1>15. CASE StartReuses \/ StartOpens \/ StartRefused \/ ReleaseStarts \/ ExactStarts
            \/ StopStarts \/ CleanupStarts
  BY <1>2, <1>15 DEF StartReuses, StartOpens, StartRefused, ReleaseStarts, ExactStarts,
                     StopStarts, CleanupStarts
<1>16. CASE LinkHealth \/ ClientConnected \/ ClientDisconnected \/ CleanupTask \/ Opened \/ Closed
  BY <1>3, <1>16 DEF LinkHealth, ClientConnected, ClientDisconnected, CleanupTask, Opened,
                     Closed, Callback
<1>17. ASSUME NEW r \in Requests,
              \/ \E owner \in Owners : Acquire(r, owner)
              \/ \E tool \in {"ensure", "stop", "cleanup"} : Ask(r, tool)
              \/ Release(r)
       PROVE  NamedPosts'
  BY <1>2, <1>17 DEF Acquire, Ask, Release
<1>18. CASE TokenExpires \/ CallStarts \/ CallEnding \/ ReclaimFires
  BY <1>2, <1>18 DEF TokenExpires, CallStarts, CallEnding, ReclaimFires
<1>19. CASE UNCHANGED vars
  BY <1>2, <1>19 DEF vars
<1> QED
  BY <1>6, <1>7, <1>8, <1>9, <1>10, <1>11, <1>12, <1>13, <1>14, <1>15, <1>16, <1>17, <1>18,
     <1>19 DEF Next, Loop, Threads, Environment, ClientLeaves, SenderCloses

\* The two invariants and what they need of the callbacks.
AgreeInv == LeaseInv /\ ShowInv /\ NamedPosts

LEMMA NothingShown == Init => ShowInv /\ NamedPosts
<1> SUFFICES ASSUME Init PROVE ShowInv /\ NamedPosts
  OBVIOUS
<1>1. /\ m.lease.gen = 0 /\ m.last = 0 /\ m.lock = <<>>
      /\ m.sco.st = "disconnected" /\ m.sco.stream = 0 /\ ~m.sco.attached /\ ~m.sco.active
      /\ sessions = {} /\ link.st = "stopped" /\ link.users = {} /\ ready = <<>>
  BY DEF Init, NoLease
<1>2. /\ Pc(m.lock) = "wait" /\ Drop(m.lock) = {} /\ ~Opening(m.lock)
  BY <1>1 DEF Pc, Drop, Opening
<1>3. LinkOK(m.sco, m.lock, sessions, link, ready)
  BY <1>1, <1>2 DEF LinkOK, ResumeOK, UsersOK, NewsOK, ShownOK
<1>4. /\ StreamOK(m) /\ RevokedOK(m, ready, call.st) /\ ClientsOK(m, sessions, ready, call.st)
  BY <1>1, <1>2 DEF StreamOK, RevokedOK, ClientsOK
<1> QED
  BY <1>1, <1>3, <1>4 DEF ShowInv, ShowOK, NamedPosts, Noted

LEMMA NextShown == AgreeInv /\ [Next]_vars => ShowInv'
<1> SUFFICES ASSUME LeaseInv, ShowInv, NamedPosts, [Next]_vars PROVE ShowInv'
  BY DEF AgreeInv
<1>1. ASSUME Loop PROVE ShowInv'
  BY <1>1, StartReusesShown, StartOpensShown, StartRefusedShown, ReleaseStartsShown,
     ExactStartsShown, StopStartsShown, CleanupStartsShown, LinkHealthShown,
     ClientConnectedShown, ClientDisconnectedShown, CleanupTaskShown, OpenedShown,
     ClosedShown DEF Loop
<1>2. ASSUME Threads PROVE ShowInv'
  BY <1>2, LinkJoinsShown, LinkConnectsShown, LinkUpShown, LinkFailsShown,
     SessionsRemovedShown DEF Threads
<1>3. ASSUME Environment PROVE ShowInv'
  <2>1. ASSUME NEW r \in Requests, NEW owner \in Owners, Acquire(r, owner) PROVE ShowInv'
    BY <2>1, AcquireShown
  <2>2. ASSUME NEW r \in Requests, NEW tool \in {"ensure", "stop", "cleanup"}, Ask(r, tool)
        PROVE  ShowInv'
    BY <2>2, AskShown
  <2>3. ASSUME NEW r \in Requests, Release(r) PROVE ShowInv'
    BY <2>3, ReleaseShown
  <2>4. CASE ClientLeaves
    BY <2>4, LeavesShown DEF ClientLeaves
  <2> QED
    BY <1>3, <2>1, <2>2, <2>3, <2>4, BridgeFailsShown, ClientConnectsShown,
       TokenExpiresShown, CallStartsShown, CallEndingShown, CallEndsShown DEF Environment
<1>4. CASE SenderCloses
  BY <1>4, LeavesShown DEF SenderCloses
<1>5. CASE UNCHANGED vars
  BY <1>5, StandsStill, AsideShown DEF vars
<1> QED
  BY <1>1, <1>2, <1>3, <1>4, <1>5, ReclaimFiresShown DEF Next

\* With the queue and the callbacks gone, nothing is left to be put right.
LEMMA AgreesWhenShown == AgreeInv => StateAgrees
<1> SUFFICES ASSUME LeaseInv, ShowInv, Quiet PROVE
      /\ m.sco.st = "ready" <=> Up
      /\ m.sco.active => Up
      /\ m.sco.stream \in {0, m.lease.gen}
      /\ m.lease.gen \in sessions => (m.sco.attached <=> m.lease.gen \in m.attached)
  BY DEF AgreeInv, StateAgrees
<1> DEFINE g == m.lease.gen
<1>1. m.lock = <<>> /\ ready = <<>>
  BY DEF Quiet
<1>2. /\ ~Opening(m.lock) /\ ~Cleaning(m.lock) /\ ~Created(m.lock, g) /\ Drop(m.lock) = {}
      /\ ~Failing(ready) /\ ~Falling(ready) /\ ~Noted(ready, g)
  BY <1>1 DEF Opening, Pc, Cleaning, Created, Drop, Failing, Falling, Noted
<1>3. /\ LinkOK(m.sco, m.lock, sessions, link, ready) /\ StreamOK(m)
      /\ ClientsOK(m, sessions, ready, call.st)
  BY HasShown
<1>4. (m.sco.st = "ready" <=> Up) /\ (m.sco.active => Up)
  BY <1>2, <1>3 DEF LinkOK, ShownOK, Up
<1>5. g = 0 => ~Up
  <2>1. OrphansOK(m, sessions, ready) /\ \A s \in sessions : s # 0
    BY MediaFacts DEF MediaOK
  <2>2. \A s \in sessions : s = g
    BY <1>1, <2>1 DEF OrphansOK, Scheduled
  <2>3. g = 0 => sessions = {}
    BY <2>1, <2>2
  <2> QED
    BY <1>3, <2>3 DEF LinkOK, UsersOK, Up
<1>6. m.sco.stream \in {0, g}
  <2>1. CASE g = 0
    BY <1>3, <1>4, <1>5, <2>1 DEF StreamOK
  <2>2. CASE g # 0
    BY <1>2, <1>3, <2>2 DEF StreamOK
  <2> QED
    BY <2>1, <2>2
<1>7. g \in sessions => (m.sco.attached <=> g \in m.attached)
  <2>1. g \in sessions => g # 0
    BY MediaFacts
  <2>2. g \in sessions => ClientShown(m, ready)
    BY <1>2, <1>3, <2>1 DEF ClientsOK, Leaving
  <2> QED
    BY <1>2, <2>2 DEF ClientShown
<1> QED
  BY <1>4, <1>6, <1>7

\* What is shown of the link, of the lease's stream and of its client is so, or a job or
\* a callback that will put it right is on its way (audio/sco.py, audio/sidecar.py,
\* server.py), in every state, whatever the requests, the owners and the bound on calls.
THEOREM AgreementInvariant == Spec => []AgreeInv
<1>1. Init => AgreeInv
  BY InitialState, NothingShown DEF AgreeInv
<1>2. AgreeInv /\ [Next]_vars => AgreeInv'
  BY NextKeeps, PostsNamed, NextShown DEF AgreeInv
<1> QED
  BY <1>1, <1>2, PTL DEF Spec

\* When the lock is free and no callback is pending, the state published to the tools
\* agrees with the link: ready exactly when it is up, with the stream and the client of
\* the lease in force (state.py, _on_sco_health, _refresh_audio_state_after_cleanup).
THEOREM StateShowsLink == Spec => []StateAgrees
BY AgreementInvariant, AgreesWhenShown, PTL
=============================================================================
