-------------------------- MODULE RetryBackoffProofs --------------------------
(* Proofs about the retry-backoff processor: for every number of messages,  *)
(* environments and receives, every base and cap of the delay and every mix *)
(* of faults.                                                               *)
EXTENDS RetryBackoff, SqsProofs, Recursion

-----------------------------------------------------------------------------
(* The delays.                                                             *)

\* With the clamp of the exponent a delay has long reached the cap of SQS.
LEMMA PastTheClamp == Power2[30] >= MaxVisibility
<1>1. Power2[0] = 1 /\ \A n \in Nat \ {0} : Power2[n] = 2 * Power2[n - 1]
  BY Power2Recursive
<1>2. Power2[1] = 2 /\ Power2[2] = 4 /\ Power2[3] = 8 /\ Power2[4] = 16 /\ Power2[5] = 32
  BY <1>1
<1>3. Power2[6] = 64 /\ Power2[7] = 128 /\ Power2[8] = 256 /\ Power2[9] = 512
  BY <1>1, <1>2
<1>4. Power2[10] = 1024 /\ Power2[11] = 2048 /\ Power2[12] = 4096 /\ Power2[13] = 8192
  BY <1>1, <1>3
<1>5. Power2[14] = 16384 /\ Power2[15] = 32768 /\ Power2[16] = 65536
  BY <1>1, <1>4
<1> DEFINE Big == {n \in Nat : n >= 16 => Power2[n] >= 65536}
<1>6. 0 \in Big
  OBVIOUS
<1>7. ASSUME NEW n \in Nat, n \in Big PROVE n + 1 \in Big
  <2>1. Power2[n + 1] = 2 * Power2[n] /\ Power2[n] \in Nat
    BY <1>1, Power2Recursive
  <2>2. CASE n >= 16
    BY <1>7, <2>1, <2>2
  <2>3. CASE n = 15
    BY <1>5, <2>3
  <2>4. CASE n < 15
    BY <2>4
  <2> QED
    BY <2>2, <2>3, <2>4
<1> HIDE DEF Big
<1>8. \A n \in Nat : n \in Big
  BY <1>6, <1>7, Induction
<1>9. 30 \in Big /\ Power2[30] \in Nat
  BY <1>8, Power2Recursive
<1>10. Power2[30] >= 65536
  BY <1>9 DEF Big
<1> QED
  BY <1>9, <1>10 DEF MaxVisibility

\* What the caps let through.
LEMMA LimitOK ==
  ASSUME NEW cap \in Nat \ {0}
  PROVE  /\ Limit(cap) \in Nat \ {0} /\ Limit(cap) <= MaxVisibility
         /\ \A x \in Nat \ {0} : Bounded(x, cap) = Least(x, Limit(cap))
         /\ \A x \in Nat \ {0} : Least(x, Limit(cap)) \in Nat \ {0}
BY DEF Limit, Least, MaxVisibility, Bounded

\* The clamped power of compute_backoff_seconds doubles with every attempt.
LEMMA CeilingDoubles ==
  ASSUME NEW base \in Nat \ {0}, NEW cap \in Nat \ {0}
  PROVE  /\ Ceiling(1, base, cap) = Least(base, Limit(cap))
         /\ \A n \in Nat \ {0} : /\ Ceiling(n, base, cap) \in Nat \ {0}
                                 /\ Ceiling(n + 1, base, cap) =
                                      Least(2 * Ceiling(n, base, cap), Limit(cap))
<1> DEFINE L == Limit(cap)
<1>1. L \in Nat \ {0} /\ L <= MaxVisibility /\ MaxVisibility \in Nat
      /\ \A x \in Nat \ {0} : Bounded(x, cap) = Least(x, L) /\ Least(x, L) \in Nat \ {0}
  BY LimitOK DEF MaxVisibility
<1>2. \A n \in Nat : Power2[n] \in Nat \ {0} /\ base * Power2[n] \in Nat \ {0}
  BY Power2Recursive
<1> HIDE DEF L
<1>3. \A n \in Nat \ {0} : /\ Exponent(n) \in Nat
                           /\ n <= 30 => Exponent(n) = n - 1 /\ Exponent(n + 1) = n
                           /\ n >= 31 => Exponent(n) = 30 /\ Exponent(n + 1) = 30
  BY DEF Exponent, Least
<1>4. \A n \in Nat \ {0} : Ceiling(n, base, cap) = Least(base * Power2[Exponent(n)], L)
  BY <1>1, <1>2, <1>3 DEF Ceiling
<1>5. Ceiling(1, base, cap) = Least(base, L)
  <2>1. Exponent(1) = 0 /\ Power2[0] = 1 /\ base * 1 = base
    BY <1>3, Power2Recursive
  <2> QED
    BY <1>4, <2>1
<1>6. ASSUME NEW n \in Nat \ {0}
      PROVE  /\ Ceiling(n, base, cap) \in Nat \ {0}
             /\ Ceiling(n + 1, base, cap) = Least(2 * Ceiling(n, base, cap), L)
  <2>1. Ceiling(n, base, cap) \in Nat \ {0}
    BY <1>1, <1>2, <1>3, <1>4
  <2>2. CASE n <= 30
    <3>1. Power2[n] = 2 * Power2[n - 1] /\ n - 1 \in Nat
      BY Power2Recursive
    <3>2. PICK x \in Nat \ {0} : x = base * Power2[n - 1]
      BY <1>2, <3>1
    <3>3. base * Power2[n] = 2 * x
      BY <1>2, <3>1, <3>2
    <3>4. Ceiling(n, base, cap) = Least(x, L) /\ Ceiling(n + 1, base, cap) = Least(2 * x, L)
      BY <1>3, <1>4, <2>2, <3>2, <3>3
    <3>5. Least(2 * x, L) = Least(2 * Least(x, L), L)
      BY <1>1 DEF Least
    <3> QED
      BY <2>1, <3>4, <3>5
  <2>3. CASE n >= 31
    <3>1. PICK p \in Nat : p = Power2[30]
      BY <1>2
    <3>2. p >= L
      BY <1>1, <3>1, PastTheClamp
    <3>3. base * p >= L /\ base * p \in Nat
      <4>1. base * p >= 1 * p
        OBVIOUS
      <4> QED
        BY <1>1, <3>2, <4>1
    <3>4. Least(base * p, L) = L
      BY <1>1, <3>3 DEF Least
    <3>5. Ceiling(n, base, cap) = L /\ Ceiling(n + 1, base, cap) = L
      BY <1>3, <1>4, <2>3, <3>1, <3>4
    <3>6. Least(2 * L, L) = L
      BY <1>1 DEF Least
    <3> QED
      BY <2>1, <3>5, <3>6
  <2> QED
    BY <2>2, <2>3
<1> QED
  BY <1>5, <1>6 DEF L

\* So it is the documented schedule, for every attempt, base and cap.
THEOREM ScheduleIsCeiling ==
  ASSUME NEW base \in Nat \ {0}, NEW cap \in Nat \ {0}, NEW last \in Nat
  PROVE  Schedule(base, cap, last) = [n \in 1..last |-> Ceiling(n, base, cap)]
<1> DEFINE Def(g) == [n \in 1..last |-> Least(IF n = 1 THEN base ELSE 2 * g[n - 1], Limit(cap))]
           c == [n \in 1..last |-> Ceiling(n, base, cap)]
           s == Schedule(base, cap, last)
<1>1. c = Def(c)
  <2>1. ASSUME NEW n \in 1..last PROVE c[n] = Def(c)[n]
    <3>1. CASE n = 1
      BY <3>1, CeilingDoubles
    <3>2. CASE n # 1
      <4>1. n - 1 \in Nat \ {0} /\ n - 1 \in 1..last /\ (n - 1) + 1 = n
        BY <3>2
      <4>2. Ceiling((n - 1) + 1, base, cap) = Least(2 * Ceiling(n - 1, base, cap), Limit(cap))
        BY <4>1, CeilingDoubles
      <4> QED
        BY <3>2, <4>1, <4>2
    <3> QED
      BY <3>1, <3>2
  <2> QED
    BY <2>1
<1>2. s = CHOOSE g : g = Def(g)
  BY DEF Schedule
<1>3. s = Def(s)
  <2> HIDE DEF Def, s, c
  <2> QED
    BY <1>1, <1>2
<1> DEFINE Same == {n \in Nat : n \in 1..last => s[n] = Ceiling(n, base, cap)}
<1>4. 0 \in Same
  OBVIOUS
<1>5. ASSUME NEW n \in Nat, n \in Same PROVE n + 1 \in Same
  <2> SUFFICES ASSUME n + 1 \in 1..last PROVE s[n + 1] = Ceiling(n + 1, base, cap)
    OBVIOUS
  <2>1. s[n + 1] = Least(IF n + 1 = 1 THEN base ELSE 2 * s[(n + 1) - 1], Limit(cap))
    <3> HIDE DEF s
    <3> QED
      BY <1>3
  <2>2. CASE n = 0
    BY <2>1, <2>2, CeilingDoubles
  <2>3. CASE n # 0
    <3>1. s[n] = Ceiling(n, base, cap) /\ (n + 1) - 1 = n /\ n \in Nat \ {0} /\ n + 1 # 1
      BY <1>5, <2>3
    <3>2. Ceiling(n + 1, base, cap) = Least(2 * Ceiling(n, base, cap), Limit(cap))
      BY <3>1, CeilingDoubles
    <3> HIDE DEF s
    <3>3. s[n + 1] = Least(2 * s[n], Limit(cap))
      BY <2>1, <3>1
    <3> QED
      BY <3>1, <3>2, <3>3
  <2> QED
    BY <2>2, <2>3
<1> HIDE DEF Same
<1>6. \A n \in Nat : n \in Same
  BY <1>4, <1>5, Induction
<1>7. \A n \in 1..last : s[n] = Ceiling(n, base, cap)
  BY <1>6 DEF Same
<1>8. s = [n \in 1..last |-> s[n]]
  <2> HIDE DEF s
  <2> QED
    BY <1>3
<1> QED
  BY <1>7, <1>8

\* The recursive sum is a sum.
LEMMA TotalAdds ==
  ASSUME NEW last \in Nat, NEW s \in [1..last -> Nat]
  PROVE  /\ \A n \in 0..last : Total(s, n) \in Nat
         /\ \A n \in 1..last : Total(s, n) = Total(s, n - 1) + s[n]
<1> DEFINE step == [p \in Nat \X Nat |-> p[2] + IF p[1] \in 1..last THEN s[p[1]] ELSE 0]
           Def(g, n) == [i \in 0..n |-> IF i = 0 THEN 0 ELSE g[i - 1] + s[i]]
<1>1. step \in [Nat \X Nat -> Nat]
  OBVIOUS
<1>2. \A n \in 1..last : \A v \in Nat : step[<<n, v>>] = v + s[n]
  OBVIOUS
<1> HIDE DEF step
<1>3. PICK f : Follows(f, Nat, 0, step)
  BY <1>1, PrimitiveRecursion
<1>4. f \in [Nat -> Nat] /\ f[0] = 0 /\ \A n \in 1..last : f[n] = f[n - 1] + s[n]
  <2>1. f \in [Nat -> Nat] /\ f[0] = 0 /\ \A n \in Nat \ {0} : f[n] = step[<<n, f[n - 1]>>]
    BY <1>3 DEF Follows
  <2>2. ASSUME NEW n \in 1..last PROVE f[n] = f[n - 1] + s[n]
    <3>0. n - 1 \in Nat /\ n \in Nat \ {0}
      OBVIOUS
    <3>1. f[n - 1] \in Nat /\ f[n] = step[<<n, f[n - 1]>>]
      BY <2>1, <3>0
    <3> QED
      BY <1>2, <3>1
  <2> QED
    BY <2>1, <2>2
<1>5. ASSUME NEW n \in 0..last PROVE Total(s, n) = f[n]
  <2> DEFINE h == [i \in 0..n |-> f[i]]
             t == CHOOSE g : g = Def(g, n)
  <2>1. h = Def(h, n)
    <3>1. ASSUME NEW i \in 0..n PROVE h[i] = Def(h, n)[i]
      <4>1. CASE i = 0
        BY <1>4, <4>1
      <4>2. CASE i # 0
        <5>1. i \in 1..last /\ i - 1 \in 0..n
          BY <4>2
        <5> QED
          BY <1>4, <4>2, <5>1
      <4> QED
        BY <4>1, <4>2
    <3> QED
      BY <3>1
  <2>2. t = Def(t, n)
    <3> HIDE DEF Def, h
    <3> QED
      BY <2>1
  <2>3. Total(s, n) = t[n]
    BY DEF Total
  <2> HIDE DEF t
  <2> DEFINE Same == {i \in Nat : i <= n => t[i] = f[i]}
  <2>4. 0 \in Same
    BY <1>4, <2>2
  <2>5. ASSUME NEW i \in Nat, i \in Same PROVE i + 1 \in Same
    <3> SUFFICES ASSUME i + 1 <= n PROVE t[i + 1] = f[i + 1]
      OBVIOUS
    <3>1. t[i + 1] = t[i] + s[i + 1] /\ t[i] = f[i] /\ i + 1 \in 1..last /\ (i + 1) - 1 = i
      BY <2>2, <2>5
    <3> QED
      BY <1>4, <3>1
  <2> HIDE DEF Same
  <2>6. \A i \in Nat : i \in Same
    BY <2>4, <2>5, Induction
  <2> QED
    BY <2>3, <2>6 DEF Same
<1> QED
  BY <1>4, <1>5

-----------------------------------------------------------------------------
(* The inductive invariant.                                                *)

\* What the schedule says of the first n receives.
Due(n) == Total(Schedule(Base, Cap, MaxReceiveCount), n)

\* The records an invocation has processed, and a record that is processed by
\* one, or was by one that has returned.
Done(e) == Held(e) \ job[e].todo
IsDone(c) == at[c] = "deleted" \/ \E e \in Envs : c \in Done(e)

\* A processed record has taken effect, and more than once only for the crashes
\* that undid what an invocation had done.
Worked(c) ==
  /\ IsDone(c) => effects[c] > 0
  /\ effects[c] <= crashed[c] + IF IsDone(c) THEN 1 ELSE 0

\* A record that was received and not yet handled has not waited for that receive.
OnTime(c) ==
  /\ waited[c] <= Due(receives[c])
  /\ \A e \in Envs : c \in job[e].todo => waited[c] <= Due(receives[c] - 1)

GhostsOK ==
  /\ effects \in [Copies -> Nat] /\ waited \in [Copies -> Nat]
  /\ crashed \in [Copies -> Nat]
IInv == SqsInv /\ GhostsOK /\ \A c \in Copies : Worked(c) /\ OnTime(c)

\* Each receive allows for one more delay.
LEMMA DueGrows ==
  /\ \A n \in 0..MaxReceiveCount : Due(n) \in Nat
  /\ \A n \in 1..MaxReceiveCount : Due(n) = Due(n - 1) + Ceiling(n, Base, Cap)
  /\ \A n \in 1..MaxReceiveCount : Due(n - 1) <= Due(n) /\ Ceiling(n, Base, Cap) \in Nat
<1>1. Base \in Nat \ {0} /\ Cap \in Nat \ {0} /\ MaxReceiveCount \in Nat
  BY BackoffAssumption, SqsAssumption
<1> DEFINE s == Schedule(Base, Cap, MaxReceiveCount)
           D == 1..MaxReceiveCount
<1>a. s = [n \in D |-> Ceiling(n, Base, Cap)]
  BY <1>1, ScheduleIsCeiling
<1>b. \A n \in D : Ceiling(n, Base, Cap) \in Nat
  BY <1>1, CeilingDoubles
<1>2. \A n \in D : s[n] = Ceiling(n, Base, Cap) /\ Ceiling(n, Base, Cap) \in Nat
  <2> HIDE DEF s, D
  <2> QED
    BY <1>a, <1>b
<1>3. s \in [D -> Nat]
  <2> HIDE DEF s, D
  <2> QED
    BY <1>a, <1>b
<1>4. /\ \A n \in 0..MaxReceiveCount : Total(s, n) \in Nat
      /\ \A n \in D : Total(s, n) = Total(s, n - 1) + s[n]
  <2> HIDE DEF s
  <2> QED
    BY <1>1, <1>3, TotalAdds
<1>5. \A n \in 0..MaxReceiveCount : Due(n) \in Nat
  BY <1>4 DEF Due
<1>6. \A n \in D : Due(n) = Due(n - 1) + Ceiling(n, Base, Cap)
  BY <1>2, <1>4 DEF Due
<1>7. \A n \in D : n - 1 \in 0..MaxReceiveCount
  BY <1>1
<1> HIDE DEF s
<1>8. \A n \in D : Due(n - 1) <= Due(n)
  BY <1>2, <1>5, <1>6, <1>7
<1> QED
  BY <1>2, <1>5, <1>6, <1>8

LEMMA Types ==
  ASSUME IInv
  PROVE  /\ SqsInv /\ effects \in [Copies -> Nat] /\ waited \in [Copies -> Nat]
         /\ crashed \in [Copies -> Nat]
         /\ \A c \in Copies : /\ effects[c] \in Nat /\ waited[c] \in Nat /\ crashed[c] \in Nat
                              /\ receives[c] \in 0..MaxReceiveCount
         /\ faults \in Nat
         /\ \A e \in Envs : \A c \in job[e].todo :
              receives[c] \in 1..MaxReceiveCount /\ at[c] = "queue"
<1>1. \A e \in Envs : \A c \in job[e].todo :
        c \in Copies /\ c \in Held(e) /\ receives[c] > 0 /\ at[c] = "queue"
  BY SqsTypes DEF IInv, SqsInv, HeldOK
<1> QED
  BY <1>1, SqsTypes DEF IInv, GhostsOK

LEMMA InitOK == Init => IInv
<1> SUFFICES ASSUME Init PROVE IInv
  OBVIOUS
<1>1. SqsInv
  BY SqsInitOK DEF Init
<1>2. GhostsOK
  BY DEF Init, GhostsOK
<1>3. ASSUME NEW c \in Copies PROVE Worked(c) /\ OnTime(c)
  <2>1. /\ at[c] = "out" /\ receives[c] = 0 /\ effects[c] = 0 /\ waited[c] = 0 /\ crashed[c] = 0
        /\ \A e \in Envs : c \notin job[e].todo /\ c \notin Done(e)
    BY <1>3, IdleOK DEF Init, SqsInit, Done, Held
  <2>2. Due(0) \in Nat
    BY DueGrows, SqsAssumption
  <2> QED
    BY <2>1, <2>2 DEF Worked, OnTime, IsDone
<1> QED
  BY <1>1, <1>2, <1>3 DEF IInv

\* Nothing is done or undone.
LEMMA Untouched ==
  ASSUME IInv, SqsInv', UNCHANGED <<job, receives, effects, waited, crashed>>,
         \A c \in Copies : at'[c] = "deleted" <=> at[c] = "deleted"
  PROVE  IInv'
<1>1. \A c \in Copies : IsDone(c)' <=> IsDone(c)
  BY DEF IsDone, Done, Held
<1>3. \A c \in Copies : Worked(c)'
  BY <1>1 DEF IInv, Worked
<1>4. \A c \in Copies : OnTime(c)'
  BY DEF IInv, OnTime
<1> QED
  BY <1>3, <1>4 DEF IInv, GhostsOK

\* A record that is received has waited for its receives so far only.
LEMMA ReceiveKeeps ==
  ASSUME IInv, NEW e \in Envs, NEW B \in SUBSET Copies, Receive(e, B), UNCHANGED <<effects, waited, crashed>>
  PROVE  IInv'
<1>1. /\ SqsInv' /\ job[e] = Idle
      /\ at' = at /\ faults' = faults
      /\ receives' = [c \in Copies |-> receives[c] + IF c \in B THEN 1 ELSE 0]
      /\ \A c \in B : receives[c] < MaxReceiveCount
      /\ job' = [job EXCEPT ![e] = [batch |-> B, todo |-> B, failed |-> {}]]
  BY ReceiveOK DEF IInv
<1>2. /\ job'[e].batch = B /\ job'[e].todo = B /\ job'[e].failed = {}
      /\ \A f \in Envs \ {e} : job'[f] = job[f]
  BY <1>1, SqsTypes DEF IInv
<1>3. \A f \in Envs : Done(f)' = Done(f)
  BY <1>1, <1>2, IdleOK DEF Done, Held
<1>4. \A c \in Copies : IsDone(c)' <=> IsDone(c)
  BY <1>1, <1>3 DEF IsDone
<1>5. ASSUME NEW c \in Copies PROVE OnTime(c)'
  <2>1. CASE c \in B
    <3>1. receives'[c] = receives[c] + 1 /\ receives'[c] \in 1..MaxReceiveCount
          /\ receives'[c] - 1 = receives[c]
      <4>1. receives[c] \in 0..MaxReceiveCount /\ receives[c] < MaxReceiveCount
            /\ MaxReceiveCount \in Nat /\ receives'[c] = receives[c] + 1
        BY <1>1, <1>5, <2>1, Types, SqsAssumption
      <4> QED
        BY <4>1
    <3>2. Due(receives'[c] - 1) <= Due(receives'[c]) /\ Due(receives[c]) \in Nat
          /\ Due(receives'[c]) \in Nat
      BY <1>5, <3>1, DueGrows, Types
    <3>3. waited[c] <= Due(receives[c]) /\ waited[c] \in Nat
      BY <1>5, Types DEF IInv, OnTime
    <3> QED
      BY <3>1, <3>2, <3>3 DEF OnTime, Due
  <2>2. CASE c \notin B
    <3>1. receives'[c] = receives[c]
      BY <1>1, <1>5, <2>2, Types
    <3>2. \A f \in Envs : c \in job'[f].todo => c \in job[f].todo
      BY <1>2, <2>2
    <3> QED
      BY <1>5, <3>1, <3>2 DEF IInv, OnTime, Due
  <2> QED
    BY <2>1, <2>2
<1>6. \A c \in Copies : Worked(c)'
  BY <1>1, <1>4 DEF IInv, Worked
<1> QED
  BY <1>1, <1>5, <1>6 DEF IInv, GhostsOK

\* A response: what was done stays so.
LEMMA RespondKeeps ==
  ASSUME IInv, NEW e \in Envs, Respond(e), UNCHANGED <<effects, waited, crashed>>
  PROVE  IInv'
<1>1. /\ SqsInv' /\ job[e].todo = {}
      /\ at' = [c \in Copies |-> IF c \in Held(e) THEN "deleted" ELSE at[c]]
      /\ job'[e] = Idle /\ \A f \in Envs \ {e} : job'[f] = job[f]
      /\ UNCHANGED <<receives, faults>>
  BY RespondOK DEF IInv
<1>2. Done(e) = Held(e) /\ Done(e)' = {} /\ \A f \in Envs \ {e} : Done(f)' = Done(f)
  BY <1>1, IdleOK DEF Done, Held
<1>3. \A c \in Copies : IsDone(c)' <=> IsDone(c)
  BY <1>1, <1>2 DEF IsDone
<1>4. \A f \in Envs : job'[f].todo \subseteq job[f].todo
  BY <1>1, IdleOK
<1>5. \A c \in Copies : Worked(c)' /\ OnTime(c)'
  BY <1>1, <1>3, <1>4 DEF IInv, Worked, OnTime, Due
<1> QED
  BY <1>1, <1>5 DEF IInv, GhostsOK

\* A crash: what it undoes may be done once more.
LEMMA CrashKeeps ==
  ASSUME IInv, NEW e \in Envs, Die(e)
  PROVE  IInv'
<1>1. /\ SqsInv' /\ job'[e] = Idle /\ \A f \in Envs \ {e} : job'[f] = job[f]
      /\ UNCHANGED <<at, receives, effects, waited>>
  BY FailBatchOK, SqsFault DEF IInv, Die, Crash
<1>2. Done(e)' = {} /\ \A f \in Envs \ {e} : Done(f)' = Done(f)
  BY <1>1, IdleOK DEF Done, Held
<1>3. \A c \in Copies : /\ IsDone(c)' => IsDone(c)
                        /\ c \notin Done(e) => (IsDone(c) <=> IsDone(c)')
  BY <1>1, <1>2 DEF IsDone
<1>4. \A f \in Envs : job'[f].todo \subseteq job[f].todo
  BY <1>1, IdleOK
<1>5. /\ crashed' \in [Copies -> Nat]
      /\ \A c \in Copies : crashed'[c] = crashed[c] + IF c \in Done(e) THEN 1 ELSE 0
  <2>1. crashed' = [c \in Copies |-> crashed[c] + IF c \in Done(e) THEN 1 ELSE 0]
    BY DEF Die, Done, Held
  <2> QED
    BY <2>1, Types
<1>6. ASSUME NEW c \in Copies PROVE Worked(c)'
  <2>1. effects[c] \in Nat /\ crashed[c] \in Nat /\ Worked(c)
    BY <1>6, Types DEF IInv
  <2> QED
    BY <1>1, <1>3, <1>5, <1>6, <2>1 DEF Worked
<1>7. \A c \in Copies : OnTime(c)'
  BY <1>1, <1>4 DEF IInv, OnTime
<1> QED
  BY <1>1, <1>5, <1>6, <1>7 DEF IInv, GhostsOK

\* A record is processed by the invocation that holds it, and by no other.
LEMMA ProcessKeeps ==
  ASSUME IInv, NEW e \in Envs, NEW c, Process(e, c)
  PROVE  IInv'
<1>1. /\ UNCHANGED <<at, receives, hidden, faults, waited, crashed>> /\ Handled(e, c, TRUE)
      /\ effects' = [effects EXCEPT ![c] = @ + 1]
  BY DEF Process
<1>2. /\ SqsInv' /\ c \in job[e].todo /\ c \in Held(e) /\ c \in Copies
      /\ job'[e].batch = job[e].batch /\ job'[e].todo = job[e].todo \ {c}
      /\ job'[e].failed = job[e].failed
      /\ \A f \in Envs \ {e} : job'[f] = job[f]
  BY <1>1, HandledOK, SqsTypes DEF IInv
<1>3. at[c] = "queue" /\ \A f \in Envs \ {e} : c \notin Held(f)
  BY <1>2 DEF IInv, SqsInv, HeldOK
<1>4. Done(e)' = Done(e) \cup {c} /\ \A f \in Envs \ {e} : Done(f)' = Done(f)
  BY <1>2 DEF Done, Held
<1>5. ~ IsDone(c) /\ IsDone(c)'
  BY <1>2, <1>3, <1>4 DEF IsDone, Done
<1>6. \A d \in Copies \ {c} : (IsDone(d)' <=> IsDone(d)) /\ effects'[d] = effects[d]
  BY <1>1, <1>4, Types DEF IsDone
<1>7. effects'[c] = effects[c] + 1 /\ effects[c] \in Nat /\ crashed[c] \in Nat
      /\ effects' \in [Copies -> Nat]
  BY <1>1, <1>2, Types
<1>8. Worked(c)'
  BY <1>1, <1>2, <1>5, <1>7 DEF IInv, Worked
<1>9. \A d \in Copies \ {c} : Worked(d)'
  BY <1>1, <1>6 DEF IInv, Worked
<1>10. \A f \in Envs : job'[f].todo \subseteq job[f].todo
  BY <1>2
<1>11. \A d \in Copies : OnTime(d)'
  BY <1>1, <1>10 DEF IInv, OnTime, Due
<1> QED
  BY <1>1, <1>2, <1>7, <1>8, <1>9, <1>11 DEF IInv, GhostsOK

\* A record that is reported may be hidden, for the delay of its last receive.
LEMMA ReportKeeps ==
  ASSUME IInv, NEW e \in Envs, NEW c, Handled(e, c, FALSE), UNCHANGED <<at, receives, effects, crashed>>,
         faults' \in 0..MaxFaults,
         hidden' \in [Copies -> {"no", "lease", "delay"}],
         \A d \in Copies : d # c => hidden'[d] = hidden[d],
         waited' \in [Copies -> Nat],
         \A d \in Copies : d # c => waited'[d] = waited[d],
         waited'[c] = waited[c] \/ waited'[c] = waited[c] + Ceiling(receives[c], Base, Cap)
  PROVE  IInv'
<1>1. /\ SqsInv' /\ c \in job[e].todo /\ c \in Held(e) /\ c \in Copies
      /\ job'[e].batch = job[e].batch /\ job'[e].todo = job[e].todo \ {c}
      /\ job'[e].failed = job[e].failed \cup {c}
      /\ \A f \in Envs \ {e} : job'[f] = job[f]
  <2>1. SqsInv /\ UNCHANGED <<at, receives>> /\ FALSE \in BOOLEAN
        /\ \A d \in Copies \ {c} : hidden'[d] = hidden[d]
    BY DEF IInv
  <2> QED
    BY <2>1, HandledOK
<1>2. \A f \in Envs \ {e} : c \notin Held(f) /\ c \notin job[f].todo
  BY <1>1, SqsTypes DEF IInv, SqsInv, HeldOK
<1>3. Done(e)' = Done(e) /\ \A f \in Envs \ {e} : Done(f)' = Done(f)
  BY <1>1 DEF Done, Held
<1>4. \A d \in Copies : IsDone(d)' <=> IsDone(d)
  BY <1>3 DEF IsDone
<1>6. \A d \in Copies : Worked(d)'
  BY <1>4 DEF IInv, Worked
<1>7. \A d \in Copies \ {c} : OnTime(d)'
  BY <1>1 DEF IInv, OnTime, Due
<1>8. OnTime(c)'
  <2>1. receives[c] \in 1..MaxReceiveCount /\ waited[c] \in Nat /\ receives[c] - 1 \in 0..MaxReceiveCount
        /\ receives[c] \in 0..MaxReceiveCount
    <3>1. receives[c] \in 1..MaxReceiveCount /\ waited[c] \in Nat /\ MaxReceiveCount \in Nat
      BY <1>1, Types, SqsAssumption
    <3> QED
      BY <3>1
  <2>2. /\ Due(receives[c]) = Due(receives[c] - 1) + Ceiling(receives[c], Base, Cap)
        /\ Due(receives[c]) \in Nat /\ Due(receives[c] - 1) \in Nat
        /\ Ceiling(receives[c], Base, Cap) \in Nat
    BY <2>1, DueGrows
  <2>3. waited[c] <= Due(receives[c] - 1)
    BY <1>1 DEF IInv, OnTime
  <2>4. waited'[c] <= Due(receives[c])
    BY <2>1, <2>2, <2>3
  <2> QED
    BY <1>1, <1>2, <2>4 DEF OnTime, Due
<1> QED
  BY <1>1, <1>6, <1>7, <1>8 DEF IInv, GhostsOK

\* ChangeMessageVisibility is asked for the ceiling of the receive count at most.
LEMMA BackOffOK ==
  ASSUME IInv, NEW e \in Envs, NEW c, c \in job[e].todo, BackOff(e, c)
  PROVE  /\ hidden' \in [Copies -> {"no", "lease", "delay"}]
         /\ \A d \in Copies : d # c => hidden'[d] = hidden[d] /\ waited'[d] = waited[d]
         /\ waited' \in [Copies -> Nat]
         /\ waited'[c] = waited[c] \/ waited'[c] = waited[c] + Ceiling(receives[c], Base, Cap)
<1>1. c \in Copies /\ receives[c] \in 1..MaxReceiveCount
  BY Types, SqsTypes DEF IInv
<1>2. Ceiling(receives[c], Base, Cap) \in Nat
  BY <1>1, DueGrows
<1>3. PICK delay \in {0, Ceiling(receives[c], Base, Cap)} : HideAll({c}, delay)
  BY DEF BackOff
<1>4. /\ hidden' = [d \in Copies |->
           IF d \notin {c} THEN hidden[d] ELSE IF delay = 0 THEN "no" ELSE "delay"]
      /\ waited' = [d \in Copies |-> waited[d] + IF d \in {c} THEN delay ELSE 0]
  BY <1>3 DEF HideAll
<1>5. delay \in Nat
  BY <1>2
<1>6. hidden \in [Copies -> {"no", "lease", "delay"}] /\ waited \in [Copies -> Nat]
  BY Types, SqsTypes
<1> QED
  BY <1>1, <1>4, <1>5, <1>6

LEMMA HandleKeeps ==
  ASSUME IInv, NEW e \in Envs, Handle(e)
  PROVE  IInv'
<1>0. hidden \in [Copies -> {"no", "lease", "delay"}] /\ waited \in [Copies -> Nat]
      /\ faults \in 0..MaxFaults /\ faults \in Nat
  BY Types, SqsTypes
<1>1. ASSUME NEW c, Unparseable(e, c) PROVE IInv'
  <2>1. Handled(e, c, FALSE) /\ UNCHANGED <<at, receives, effects, crashed, faults, hidden, waited>>
    BY <1>1 DEF Unparseable
  <2>2. faults' \in 0..MaxFaults
    BY <1>0, <2>1
  <2> QED
    BY <1>0, <2>1, <2>2, ReportKeeps
<1>2. ASSUME NEW c \in job[e].todo, Reject(e, c) PROVE IInv'
  <2>1. Handled(e, c, FALSE) /\ UNCHANGED <<at, receives, effects, crashed, faults>> /\ BackOff(e, c)
    BY <1>2 DEF Reject, FailRecord
  <2>2. faults' \in 0..MaxFaults
    BY <1>0, <2>1
  <2> QED
    BY <1>2, <2>1, <2>2, BackOffOK, ReportKeeps
<1> QED
  BY <1>1, <1>2, ProcessKeeps, RespondKeeps DEF Handle

LEMMA DisturbKeeps ==
  ASSUME IInv, NEW e \in Envs, Disturb(e)
  PROVE  IInv'
<1>0. hidden \in [Copies -> {"no", "lease", "delay"}] /\ waited \in [Copies -> Nat]
      /\ faults \in Nat
  BY Types, SqsTypes
<1>1. ASSUME NEW c \in job[e].todo, Downstream(e, c) PROVE IInv'
  <2>1. Handled(e, c, FALSE) /\ UNCHANGED <<at, receives, effects, crashed>> /\ BackOff(e, c)
    BY <1>1 DEF Downstream, FailRecord
  <2>2. faults' \in 0..MaxFaults
    BY <1>0, <1>1, SqsFault DEF Downstream, IInv
  <2> QED
    BY <2>1, <2>2, BackOffOK, ReportKeeps
<1>2. ASSUME NEW c \in job[e].todo, KeepLease(e, c) PROVE IInv'
  <2>1. Handled(e, c, FALSE) /\ UNCHANGED <<at, receives, effects, crashed, hidden, waited>>
    BY <1>2 DEF KeepLease, FailRecord
  <2>2. faults' \in 0..MaxFaults
    BY <1>0, <1>2, SqsFault DEF KeepLease, IInv
  <2> QED
    BY <1>0, <2>1, <2>2, ReportKeeps
<1> QED
  BY <1>1, <1>2, CrashKeeps DEF Disturb

LEMMA DeliverKeeps ==
  ASSUME IInv, NEW c \in Copies, Deliver(c)
  PROVE  IInv'
<1>0. faults \in 0..MaxFaults /\ faults \in Nat /\ UNCHANGED <<effects, waited, crashed>>
  BY Types, SqsTypes DEF Deliver
<1>1. CASE Send(c)
  <2>1. Move(c, "out", "queue") /\ UNCHANGED <<receives, hidden, job, faults>>
    BY <1>1 DEF Send
  <2>2. SqsInv'
    BY <1>0, <2>1, MoveOK DEF IInv
  <2>3. \A d \in Copies : at'[d] = "deleted" <=> at[d] = "deleted"
    BY <2>1, SqsTypes DEF Move, IInv
  <2> QED
    BY <1>0, <2>1, <2>2, <2>3, Untouched
<1>2. ASSUME NEW e \in Envs, NEW B \in SUBSET Copies, Receive(e, B) PROVE IInv'
  BY <1>0, <1>2, ReceiveKeeps
<1>3. CASE Redrive(c)
  <2>1. /\ SqsInv' /\ at[c] = "queue" /\ at' = [at EXCEPT ![c] = "dlq"]
        /\ UNCHANGED <<receives, hidden, job, faults>>
    BY <1>3, RedriveOK DEF IInv
  <2>2. \A d \in Copies : at'[d] = "deleted" <=> at[d] = "deleted"
    BY <2>1, SqsTypes DEF IInv
  <2> QED
    BY <1>0, <2>1, <2>2, Untouched
<1>4. CASE Reappear(c)
  BY <1>0, <1>4, ReappearOK, Untouched DEF IInv
<1> QED
  BY <1>1, <1>2, <1>3, <1>4, SqsSteps DEF Deliver

\* IInv holds in every state of every behaviour.
THEOREM Invariance == Spec => []IInv
<1>1. IInv /\ [Next]_vars => IInv'
  <2> SUFFICES ASSUME IInv, [Next]_vars PROVE IInv'
    OBVIOUS
  <2>1. CASE Next
    BY <2>1, DeliverKeeps, HandleKeeps, DisturbKeeps DEF Next
  <2>2. CASE UNCHANGED vars
    <3>1. UNCHANGED <<at, receives, hidden, job, faults, effects, waited, crashed>>
      BY <2>2 DEF vars
    <3>2. SqsInv'
      BY <3>1 DEF IInv, SqsInv, SqsTypeOK, HeldOK, Held
    <3> QED
      BY <3>1, <3>2, Untouched, Types
  <2> QED
    BY <2>1, <2>2
<1> QED
  BY <1>1, InitOK, PTL DEF Spec

-----------------------------------------------------------------------------
(* What follows from it.                                                   *)

\* Every variable has its type, and no two invocations have a record still to
\* handle, although a backed-off record reappears under a running invocation.
THEOREM TypeCorrect == Spec => []TypeOK
<1>1. IInv => TypeOK
  <2> SUFFICES ASSUME IInv PROVE TypeOK
    OBVIOUS
  <2>1. \A e, f \in Envs : e # f => job[e].todo \cap job[f].todo = {}
    BY SqsTypes DEF IInv, SqsInv, HeldOK
  <2> QED
    BY <2>1 DEF IInv, SqsInv, GhostsOK, TypeOK
<1> QED
  BY <1>1, Invariance, PTL

\* However often a record is delivered, the work on it is repeated only for the
\* crashes that undid it.
THEOREM EffectsRepeatForCrashes == Spec => []EffectsAreOnce
<1>1. IInv => EffectsAreOnce
  <2> SUFFICES ASSUME IInv, NEW c \in Copies PROVE effects[c] <= 1 + crashed[c]
    BY DEF EffectsAreOnce
  <2>1. effects[c] \in Nat /\ crashed[c] \in Nat
    BY Types
  <2> QED
    BY <2>1 DEF IInv, Worked
<1> QED
  BY <1>1, Invariance, PTL

\* No record waits longer than the documented schedule allows for its receives,
\* with every base and cap of the delay.
THEOREM WaitsAreDue == Spec => []WaitsFollowSchedule
<1>1. IInv => WaitsFollowSchedule
  BY DEF IInv, OnTime, Due, WaitsFollowSchedule
<1> QED
  BY <1>1, Invariance, PTL

-----------------------------------------------------------------------------
(* Every step is a step of the contract, or none.                          *)

\* What the contract sees of a record.
LEMMA StatusOf ==
  ASSUME NEW c \in Copies
  PROVE  /\ at[c] = "out" => Status[c] = "absent"
         /\ at[c] = "queue" => Status[c] = "pending"
         /\ at[c] = "deleted" => Status[c] = "acknowledged"
         /\ at[c] = "dlq" => Status[c] = "dead"
         /\ at'[c] = "queue" => Status'[c] = "pending"
         /\ at'[c] = "deleted" => Status'[c] = "acknowledged"
         /\ at'[c] = "dlq" => Status'[c] = "dead"
         /\ at'[c] = at[c] => Status'[c] = Status[c]
BY DEF Status

\* Records that are moved from the queue, and no other, become what they are
\* moved to.
LEMMA Becomes ==
  ASSUME NEW S \in SUBSET Copies, NEW s, \A c \in S : Status'[c] = s,
         \A c \in Copies \ S : at'[c] = at[c], UNCHANGED <<receives, effects>>
  PROVE  Contract!Become(S, s)
<1>1. Status' = [c \in Copies |-> IF c \in S THEN s ELSE Status[c]]
  <2>1. \A c \in Copies : Status'[c] = IF c \in S THEN s ELSE Status[c]
    BY StatusOf
  <2>2. Status' = [c \in Copies |-> Status'[c]]
    BY DEF Status
  <2> HIDE DEF Status
  <2> QED
    BY <2>1, <2>2
<1>2. Effective' = Effective
  BY DEF Effective
<1> QED
  BY <1>1, <1>2 DEF Contract!Become

\* The records stay where they are.
LEMMA StatusKept ==
  ASSUME UNCHANGED at
  PROVE  Status' = Status
BY DEF Status

LEMMA Stutters ==
  ASSUME UNCHANGED <<at, receives, effects>>
  PROVE  UNCHANGED Contract!vars
BY StatusKept DEF Effective, Contract!vars

LEMMA DeliverImplements ==
  ASSUME IInv, NEW c \in Copies, Deliver(c)
  PROVE  Contract!Next \/ UNCHANGED Contract!vars
<1>0. UNCHANGED <<effects, waited, crashed>> /\ SqsInv /\ at \in [Copies -> {"out", "topic", "queue", "deleted", "dlq"}]
  BY SqsTypes DEF Deliver, IInv
<1>1. CASE Send(c)
  <2>1. at[c] = "out" /\ at' = [at EXCEPT ![c] = "queue"] /\ UNCHANGED receives
    BY <1>1 DEF Send, Move
  <2>2. at'[c] = "queue" /\ \A d \in Copies \ {c} : at'[d] = at[d]
    BY <1>0, <2>1
  <2>3. Contract!Become({c}, "pending") /\ Status[c] = "absent"
    BY <1>0, <2>1, <2>2, StatusOf, Becomes
  <2> QED
    BY <2>3 DEF Contract!Accept, Contract!Next
<1>2. ASSUME NEW e \in Envs, NEW B \in SUBSET Copies, Receive(e, B)
      PROVE  Contract!Next
  <2>1. /\ at' = at
        /\ receives' = [d \in Copies |-> receives[d] + IF d \in B THEN 1 ELSE 0]
        /\ \A d \in B : at[d] = "queue" /\ receives[d] < MaxReceiveCount
    BY <1>0, <1>2, ReceiveOK
  <2>2. \A d \in B : Status[d] = "pending"
    BY <2>1, StatusOf
  <2>3. Status' = Status /\ Effective' = Effective
    BY <1>0, <2>1, StatusKept DEF Effective
  <2>4. Contract!Attempt(B)
    BY <2>1, <2>2, <2>3 DEF Contract!Attempt, Contract!Pending
  <2> QED
    BY <2>4 DEF Contract!Next
<1>3. CASE Redrive(c)
  <2>1. /\ at[c] = "queue" /\ receives[c] = MaxReceiveCount /\ at' = [at EXCEPT ![c] = "dlq"]
        /\ UNCHANGED receives
    BY <1>0, <1>3, RedriveOK
  <2>2. at'[c] = "dlq" /\ \A d \in Copies \ {c} : at'[d] = at[d]
    BY <1>0, <2>1
  <2>3. Contract!Become({c}, "dead") /\ Status[c] = "pending"
    BY <1>0, <2>1, <2>2, StatusOf, Becomes
  <2> QED
    BY <2>1, <2>3 DEF Contract!Bury, Contract!Pending, Contract!Next
<1>4. CASE Reappear(c)
  BY <1>0, <1>4, ReappearOK, Stutters
<1> QED
  BY <1>1, <1>2, <1>3, <1>4, SqsSteps DEF Deliver

LEMMA ProcessImplements ==
  ASSUME IInv, NEW e \in Envs, NEW c \in job[e].todo, Process(e, c)
  PROVE  Contract!Next
<1>1. /\ c \in Copies /\ at[c] = "queue" /\ receives[c] > 0
      /\ effects' = [effects EXCEPT ![c] = @ + 1] /\ UNCHANGED <<at, receives>>
  BY Types, SqsTypes DEF IInv, Process
<1>2. Effective' = Effective \cup {c}
  BY <1>1, Types DEF Effective
<1>3. Status[c] = "pending" /\ Status' = Status
  BY <1>1, StatusOf, StatusKept
<1> QED
  BY <1>1, <1>2, <1>3 DEF Contract!Effect, Contract!Pending, Contract!Next

\* What a response deletes has been processed.
LEMMA RespondImplements ==
  ASSUME IInv, NEW e \in Envs, Respond(e), UNCHANGED <<effects, waited, crashed>>
  PROVE  Contract!Next
<1>1. /\ job[e].todo = {} /\ Held(e) \subseteq Copies
      /\ at' = [c \in Copies |-> IF c \in Held(e) THEN "deleted" ELSE at[c]]
      /\ \A c \in Held(e) : at[c] = "queue"
      /\ UNCHANGED receives
  BY RespondOK, SqsTypes DEF IInv
<1> PICK S \in SUBSET Copies : S = Held(e)
  BY <1>1
<1>2. S \subseteq Effective
  BY <1>1 DEF IInv, Worked, IsDone, Done, Effective
<1>3. \A c \in S : Status[c] = "pending" /\ Status'[c] = "acknowledged"
  BY <1>1, StatusOf
<1>4. Contract!Become(S, "acknowledged")
  BY <1>1, <1>3, Becomes
<1>5. Contract!Acknowledge(S)
  BY <1>2, <1>3, <1>4 DEF Contract!Acknowledge, Contract!Pending
<1> QED
  BY <1>5 DEF Contract!Next

LEMMA StepImplements ==
  ASSUME IInv, [Next]_vars
  PROVE  [Contract!Next]_(Contract!vars)
<1>1. CASE UNCHANGED vars
  BY <1>1, Stutters DEF vars
<1>2. ASSUME NEW e \in Envs, Handle(e) PROVE Contract!Next \/ UNCHANGED Contract!vars
  <2>1. ASSUME NEW c \in job[e].todo, Unparseable(e, c) \/ Reject(e, c)
        PROVE  UNCHANGED <<at, receives, effects>>
    BY <2>1 DEF Unparseable, Reject, FailRecord
  <2> QED
    BY <1>2, <2>1, Stutters, ProcessImplements, RespondImplements DEF Handle
<1>3. ASSUME NEW e \in Envs, Disturb(e) PROVE UNCHANGED Contract!vars
  <2>1. UNCHANGED <<at, receives, effects>>
    BY <1>3 DEF Disturb, Downstream, KeepLease, FailRecord, Die, Crash, FailBatch
  <2> QED
    BY <2>1, Stutters
<1> QED
  BY <1>1, <1>2, <1>3, DeliverImplements DEF Next

\* The processor implements Delivery: no record is deleted that was not
\* processed, and none is given up on before its last receive.
THEOREM Implementation == Spec => ImplementsContract
<1>1. Init => Contract!Init
  <2> SUFFICES ASSUME Init PROVE Contract!Init
    OBVIOUS
  <2>1. Status = [c \in Copies |-> "absent"]
    BY DEF Init, SqsInit, Status
  <2>2. Effective = {}
    BY DEF Init, Effective
  <2> QED
    BY <2>1, <2>2 DEF Init, SqsInit, Contract!Init
<1>2. IInv /\ [Next]_vars => [Contract!Next]_(Contract!vars)
  BY StepImplements
<1> QED
  BY <1>1, <1>2, Invariance, PTL DEF Spec, ImplementsContract, Contract!Spec
=============================================================================
