--------------------------- MODULE PreconfigRecovery ---------------------------
(***************************************************************************)
(* The theorem that no card is lost: whatever runs were cut short on it,   *)
(* there are options with which the next run prepares it completely, for   *)
(* any numbers of keys and files and any choice of the diversified keys.   *)
(*                                                                         *)
(* A run is a recursive function over its commands, so what it comes to is *)
(* proved by induction: over a SET of numbers, which follows from the      *)
(* natural numbers being well founded.                                     *)
(***************************************************************************)
EXTENDS PreconfigProofs, WellFoundedInduction

-----------------------------------------------------------------------------
(* Induction, and runs as a recursion.                                      *)

LEMMA Induction ==
  ASSUME NEW S, 0 \in S, \A n \in Nat : n \in S => n + 1 \in S
  PROVE  Nat \subseteq S
<1> DEFINE T == Nat \ S
<1>1. SUFFICES ASSUME T # {} PROVE FALSE
  OBVIOUS
<1>2. PICK x \in T : \A y \in T : ~ (<<y, x>> \in OpToRel(<, Nat))
  BY <1>1, NatLessThanWellFounded, WFMin
<1>3. x \in Nat /\ x - 1 \in Nat
  OBVIOUS
<1>4. <<x - 1, x>> \in OpToRel(<, Nat)
  BY <1>3 DEF OpToRel
<1>5. x - 1 \in S
  BY <1>2, <1>3, <1>4
<1> QED
  BY <1>3, <1>5

\* The recursion defines a function: there is one for each number of commands.
LEMMA AfterIs ==
  ASSUME NEW s, NEW t, NEW o, NEW u, Len(t) \in Nat
  PROVE  /\ After(s, t, o, u)[0] = s
         /\ \A n \in 1 .. Len(t) :
              After(s, t, o, u)[n] = Continued(After(s, t, o, u)[n - 1], t[n], o, u)
<1> DEFINE Value(g, i) == IF i = 0 THEN s ELSE Continued(g[i - 1], t[i], o, u)
           IsRun(g, n) == g = [i \in 0 .. n |-> Value(g, i)]
           S == {n \in Nat : \E g : IsRun(g, n)}
<1>1. 0 \in S
  <2> DEFINE g == [i \in 0 .. 0 |-> s]
  <2>1. IsRun(g, 0)
    OBVIOUS
  <2> QED
    BY <2>1
<1>2. ASSUME NEW n \in Nat, n \in S PROVE n + 1 \in S
  <2>1. PICK g : IsRun(g, n)
    BY <1>2
  <2> DEFINE h == [i \in 0 .. n + 1 |->
                     IF i = n + 1 THEN Continued(g[n], t[n + 1], o, u) ELSE g[i]]
  <2>2. \A i \in 0 .. n : h[i] = g[i] /\ g[i] = Value(g, i)
    BY <2>1
  <2>3. ASSUME NEW i \in 0 .. n + 1 PROVE h[i] = Value(h, i)
    <3>1. CASE i = n + 1
      BY <2>2, <3>1
    <3>2. CASE i = 0
      <4>1. 0 \in 0 .. n /\ 0 # n + 1
        OBVIOUS
      <4>2. h[0] = g[0] /\ g[0] = s
        BY <2>2, <4>1
      <4> QED
        BY <3>2, <4>2
    <3>3. CASE i # 0 /\ i # n + 1
      <4>1. i \in 0 .. n /\ i - 1 \in 0 .. n
        BY <3>3
      <4> QED
        BY <2>2, <3>3, <4>1
    <3> QED
      BY <3>1, <3>2, <3>3
  <2>4. IsRun(h, n + 1)
    BY <2>3
  <2> HIDE DEF h
  <2> QED
    BY <2>4
<1>3. Len(t) \in S
  <2> HIDE DEF S
  <2> QED
    BY <1>1, <1>2, Induction
<1>4. After(s, t, o, u) = CHOOSE g : IsRun(g, Len(t))
  BY DEF After
<1>5. IsRun(After(s, t, o, u), Len(t))
  <2> HIDE DEF IsRun
  <2> QED
    BY <1>3, <1>4
<1> QED
  BY <1>5

\* ... and only one: what goes on as the run does is the run.
LEMMA SameRun ==
  ASSUME NEW s, NEW t, NEW o, NEW u, Len(t) \in Nat, NEW g, g[0] = s,
         \A n \in 1 .. Len(t) : g[n] = Continued(g[n - 1], t[n], o, u)
  PROVE  \A n \in 0 .. Len(t) : After(s, t, o, u)[n] = g[n]
<1> DEFINE f == After(s, t, o, u)
           S == {n \in Nat : n <= Len(t) => f[n] = g[n]}
<1>1. /\ f[0] = s
      /\ \A n \in 1 .. Len(t) : f[n] = Continued(f[n - 1], t[n], o, u)
  BY AfterIs
<1> HIDE DEF f
<1>2. 0 \in S
  BY <1>1
<1>3. ASSUME NEW n \in Nat, n \in S PROVE n + 1 \in S
  <2>1. CASE n + 1 <= Len(t)
    <3>1. n + 1 \in 1 .. Len(t) /\ (n + 1) - 1 = n /\ f[n] = g[n]
      BY <1>3, <2>1
    <3> QED
      BY <1>1, <3>1
  <2> QED
    BY <2>1
<1>4. Nat \subseteq S
  <2> HIDE DEF S
  <2> QED
    BY <1>2, <1>3, Induction
<1> QED
  BY <1>4 DEF f

Run(s, t, o, u) == After(s, t, o, u)[Len(t)]

\* A run of nothing, of one command, and of one list after another.
LEMMA RunNothing == ASSUME NEW s, NEW o, NEW u PROVE Run(s, <<>>, o, u) = s
BY AfterIs DEF Run

LEMMA RunOnce ==
  ASSUME NEW s, NEW op, NEW o, NEW u
  PROVE  Run(s, Once(op), o, u) = Continued(s, <<op, 0>>, o, u)
<1> DEFINE t == Once(op)
<1>1. Len(t) = 1 /\ t[1] = <<op, 0>>
  BY DEF Once
<1> HIDE DEF t
<1>2. After(s, t, o, u)[1] = Continued(After(s, t, o, u)[1 - 1], t[1], o, u)
  BY <1>1, AfterIs
<1>3. After(s, t, o, u)[1 - 1] = s
  BY <1>1, AfterIs
<1> QED
  BY <1>1, <1>2, <1>3 DEF Run, t

LEMMA RunJoin ==
  ASSUME NEW s, NEW o, NEW u, NEW a \in Seq(Commands), NEW b \in Seq(Commands)
  PROVE  Run(s, a \o b, o, u) = Run(Run(s, a, o, u), b, o, u)
<1> DEFINE p == Len(a)
           q == Len(b)
           t == a \o b
           r == Run(s, a, o, u)
           f == After(s, a, o, u)
           h == After(r, b, o, u)
           g == [n \in 0 .. p + q |-> IF n <= p THEN f[n] ELSE h[n - p]]
<1>1. /\ p \in Nat /\ q \in Nat /\ Len(t) = p + q
      /\ \A n \in 1 .. p + q : t[n] = IF n <= p THEN a[n] ELSE b[n - p]
  BY ConcatProperties, LenProperties
<1>2. /\ f[0] = s /\ f[p] = r
      /\ \A n \in 1 .. p : f[n] = Continued(f[n - 1], a[n], o, u)
  BY <1>1, AfterIs DEF Run
<1>3. /\ h[0] = r
      /\ \A n \in 1 .. q : h[n] = Continued(h[n - 1], b[n], o, u)
  BY <1>1, AfterIs
<1>4. h[q] = Run(r, b, o, u)
  BY DEF Run
<1> HIDE DEF p, q, t, r, f, h
<1>5. g[0] = s /\ g[p + q] = h[q]
  <2>1. CASE q = 0
    BY <1>1, <1>2, <1>3, <2>1
  <2>2. CASE q # 0
    BY <1>1, <1>2, <2>2
  <2> QED
    BY <2>1, <2>2
<1>6. ASSUME NEW n \in 1 .. p + q PROVE g[n] = Continued(g[n - 1], t[n], o, u)
  <2>1. CASE n <= p
    <3>1. g[n] = f[n] /\ g[n - 1] = f[n - 1] /\ t[n] = a[n] /\ n \in 1 .. p
      BY <1>1, <2>1
    <3> QED
      BY <1>2, <3>1
  <2>2. CASE n = p + 1
    <3>1. /\ n - p = 1 /\ n - 1 = p /\ 1 \in 1 .. q /\ 1 - 1 = 0
          /\ n \in 0 .. p + q /\ p \in 0 .. p + q /\ ~ (n <= p) /\ p <= p
      BY <1>1, <2>2
    <3>2. g[n] = h[1] /\ g[n - 1] = f[p] /\ t[n] = b[1]
      BY <1>1, <3>1
    <3> QED
      BY <1>2, <1>3, <3>1, <3>2
  <2>3. CASE n > p + 1
    <3>1. /\ g[n] = h[n - p] /\ g[n - 1] = h[(n - p) - 1] /\ t[n] = b[n - p]
          /\ n - p \in 1 .. q
      BY <1>1, <2>3
    <3> QED
      BY <1>3, <3>1
  <2> QED
    BY <1>1, <2>1, <2>2, <2>3
<1> HIDE DEF g
<1>7. After(s, t, o, u)[p + q] = g[p + q]
  <2>1. Len(t) \in Nat /\ p + q \in 0 .. Len(t)
    BY <1>1
  <2>2. \A n \in 1 .. Len(t) : g[n] = Continued(g[n - 1], t[n], o, u)
    BY <1>1, <1>6
  <2>3. \A n \in 0 .. Len(t) : After(s, t, o, u)[n] = g[n]
    BY <1>5, <2>1, <2>2, SameRun
  <2> QED
    BY <2>1, <2>3
<1> QED
  BY <1>1, <1>4, <1>5, <1>7 DEF Run, t, r

\* One more command, and a list that may be left out.
LEMMA RunThen ==
  ASSUME NEW s, NEW o, NEW u, NEW a \in Seq(Commands), NEW op \in Plain
  PROVE  /\ a \o Once(op) \in Seq(Commands)
         /\ Run(s, a \o Once(op), o, u) = Continued(Run(s, a, o, u), <<op, 0>>, o, u)
<1>1. Once(op) \in Seq(Commands)
  BY OnceWithin DEF Within
<1> QED
  BY <1>1, RunJoin, RunOnce, ConcatProperties

-----------------------------------------------------------------------------
(* What a command does on a card that accepts it.                           *)

\* The tool runs well on card d, authenticated as a.
Runs(s, d, a) == s \in States /\ s.ok /\ s.card = d /\ s.auth = a

LEMMA RunsAre ==
  ASSUME NEW s, NEW d, NEW a, Runs(s, d, a)
  PROVE  /\ d \in CardType /\ a \in {"nobody", "picc", "app"}
         /\ \A b \in {"nobody", "picc", "app"} : Runs([s EXCEPT !.auth = b], d, b)
         /\ \A e \in CardType : Runs([s EXCEPT !.card = e], e, a)
         /\ \A e \in CardType, b \in {"nobody", "picc", "app"} :
              Runs([s EXCEPT !.card = e, !.auth = b], e, b)
BY DEF Runs, States

\* An authentication with the right key.
LEMMA Authenticate ==
  ASSUME NEW s, NEW d, NEW a, NEW o, NEW u, Runs(s, d, a)
  PROVE  /\ d.picc = NullDES =>
              Runs(Continued(s, <<"authFactory", 0>>, o, u), d, "picc")
         /\ d.picc = Key(o.current, TRUE, u) =>
              Runs(Continued(s, <<"authCurrent", 0>>, o, u), d, "picc")
         /\ d.picc = PiccKey(u) =>
              Runs(Continued(s, <<"authPicc", 0>>, o, u), d, "picc")
         /\ d.app /\ d.keys[0] = NullAES =>
              Runs(Continued(s, <<"authDefault", 0>>, o, u), d, "app")
         /\ d.app /\ d.keys[0] = AppKey(0, u) =>
              Runs(Continued(s, <<"authApp", 0>>, o, u), d, "app")
<1>1. s.ok /\ s.card = d
  BY DEF Runs
<1>2. Continued(s, <<"authFactory", 0>>, o, u)
        = Authenticated(s, "picc", d.picc = NullDES)
  BY <1>1 DEF Continued, Does
<1>3. Continued(s, <<"authCurrent", 0>>, o, u)
        = Authenticated(s, "picc", d.picc = Key(o.current, TRUE, u))
  BY <1>1 DEF Continued, Does
<1>4. Continued(s, <<"authPicc", 0>>, o, u)
        = Authenticated(s, "picc", d.picc = PiccKey(u))
  BY <1>1 DEF Continued, Does
<1>5. Continued(s, <<"authDefault", 0>>, o, u)
        = Authenticated(s, "app", d.app /\ d.keys[0] = NullAES)
  BY <1>1 DEF Continued, Does
<1>6. Continued(s, <<"authApp", 0>>, o, u)
        = Authenticated(s, "app", d.app /\ d.keys[0] = AppKey(0, u))
  BY <1>1 DEF Continued, Does
<1>7. \A who \in {"picc", "app"} : Runs([s EXCEPT !.auth = who], d, who)
  BY RunsAre
<1>8. \A who \in {"picc", "app"} : Authenticated(s, who, TRUE) = [s EXCEPT !.auth = who]
  BY DEF Authenticated
<1> QED
  BY <1>2, <1>3, <1>4, <1>5, <1>6, <1>7, <1>8

\* What the master of the card may do.
LEMMA Master ==
  ASSUME NEW s, NEW d, NEW o, NEW u \in Uids, Runs(s, d, "picc")
  PROVE  /\ Runs(Continued(s, <<"randomUid", 0>>, o, u),
                 [d EXCEPT !.random = TRUE], "picc")
         /\ Runs(Continued(s, <<"changePicc", 0>>, o, u),
                 [d EXCEPT !.picc = PiccKey(u)], "nobody")
         /\ Runs(Continued(s, <<"setDefault", 0>>, o, u), d, "picc")
         /\ d.app =>
              Runs(Continued(s, <<"deleteApp", 0>>, o, u), Deleted(d), "picc")
         /\ ~ d.app =>
              Runs(Continued(s, <<"createApp", 0>>, o, u),
                   [d EXCEPT !.app = TRUE, !.keys = NoKeys], "picc")
<1>1. s.ok /\ s.card = d /\ s.auth = "picc" /\ d \in CardType
  BY RunsAre DEF Runs
<1>2. /\ [d EXCEPT !.random = TRUE] \in CardType
      /\ [d EXCEPT !.picc = PiccKey(u)] \in CardType
      /\ Deleted(d) \in CardType
      /\ [d EXCEPT !.app = TRUE, !.keys = NoKeys] \in CardType
  BY <1>1, Made DEF CardType, Deleted
<1>3. Continued(s, <<"randomUid", 0>>, o, u)
        = [s EXCEPT !.card = [d EXCEPT !.random = TRUE]]
  BY <1>1 DEF Continued, Does, Written
<1>4. Continued(s, <<"changePicc", 0>>, o, u)
        = [s EXCEPT !.card = [d EXCEPT !.picc = PiccKey(u)], !.auth = "nobody"]
  <2>1. Continued(s, <<"changePicc", 0>>, o, u) = NewPiccKey(s, u)
    BY <1>1 DEF Continued, Does
  <2> QED
    BY <1>1, <2>1 DEF NewPiccKey
<1>5. Continued(s, <<"setDefault", 0>>, o, u) = [s EXCEPT !.card = d]
  BY <1>1 DEF Continued, Does, Written
<1>6. d.app => Continued(s, <<"deleteApp", 0>>, o, u) = [s EXCEPT !.card = Deleted(d)]
  <2>1. Continued(s, <<"deleteApp", 0>>, o, u)
          = Written(s, s.auth = "picc" /\ d.app, Deleted(d))
    BY <1>1 DEF Continued, Does
  <2> QED
    BY <1>1, <2>1 DEF Written
<1>7. ~ d.app => Continued(s, <<"createApp", 0>>, o, u)
                   = [s EXCEPT !.card = [d EXCEPT !.app = TRUE, !.keys = NoKeys]]
  <2>1. Continued(s, <<"createApp", 0>>, o, u)
          = Written(s, s.auth = "picc" /\ ~ d.app,
                    [d EXCEPT !.app = TRUE, !.keys = NoKeys])
    BY <1>1 DEF Continued, Does
  <2> QED
    BY <1>1, <2>1 DEF Written
<1>8. /\ \A e \in CardType : Runs([s EXCEPT !.card = e], e, "picc")
      /\ \A e \in CardType :
           Runs([s EXCEPT !.card = e, !.auth = "nobody"], e, "nobody")
  BY RunsAre
<1>9. Runs(Continued(s, <<"randomUid", 0>>, o, u),
           [d EXCEPT !.random = TRUE], "picc")
  BY <1>2, <1>3, <1>8, Zenon
<1>10. Runs(Continued(s, <<"changePicc", 0>>, o, u),
            [d EXCEPT !.picc = PiccKey(u)], "nobody")
  BY <1>2, <1>4, <1>8, Zenon
<1>11. Runs(Continued(s, <<"setDefault", 0>>, o, u), d, "picc")
  BY <1>1, <1>5, <1>8, Zenon
<1>12. d.app => Runs(Continued(s, <<"deleteApp", 0>>, o, u), Deleted(d), "picc")
  BY <1>2, <1>6, <1>8, Zenon
<1>13. ~ d.app => Runs(Continued(s, <<"createApp", 0>>, o, u),
                       [d EXCEPT !.app = TRUE, !.keys = NoKeys], "picc")
  BY <1>2, <1>7, <1>8, Zenon
<1> QED
  BY <1>9, <1>10, <1>11, <1>12, <1>13

-----------------------------------------------------------------------------
(* The remedy: a run with these options on card c.                          *)

Remedy(u, current, skip, c) ==
  [uid |-> u, current |-> current, dry |-> FALSE, skipPicc |-> skip,
   skipApp |-> FALSE, deleteFirst |-> c.app, deleteApps |-> "none",
   skipCreation |-> FALSE]

\* The tool is the master of a card with the application of card c.
Mastered(s, c) ==
  \E d \in CardType : /\ Runs(s, d, "picc")
                      /\ d.app = c.app /\ d.keys = c.keys /\ d.files = c.files

\* The last four commands before the application, on a master's card.
LEMMA Remaster ==
  ASSUME NEW s, NEW d, NEW o, NEW u \in Uids, Runs(s, d, "picc")
  PROVE  LET r1 == Continued(s, <<"changePicc", 0>>, o, u)
             r2 == Continued(r1, <<"authPicc", 0>>, o, u)
         IN  Mastered(Continued(r2, <<"setDefault", 0>>, o, u), d)
<1> DEFINE e == [d EXCEPT !.picc = PiccKey(u)]
           r1 == Continued(s, <<"changePicc", 0>>, o, u)
           r2 == Continued(r1, <<"authPicc", 0>>, o, u)
           r3 == Continued(r2, <<"setDefault", 0>>, o, u)
<1>1. d \in CardType
  BY RunsAre
<1>2. /\ e.picc = PiccKey(u) /\ e.app = d.app /\ e.keys = d.keys
      /\ e.files = d.files
  BY <1>1 DEF CardType
<1>3. Runs(r1, e, "nobody")
  BY Master
<1> HIDE DEF e, r1
<1>4. Runs(r2, e, "picc")
  BY <1>2, <1>3, Authenticate
<1> HIDE DEF r2
<1>5. Runs(r3, e, "picc")
  BY <1>4, Master
<1>6. e \in CardType
  BY <1>3, RunsAre
<1> HIDE DEF r3
<1>7. Mastered(r3, d)
  BY <1>2, <1>5, <1>6 DEF Mastered
<1> QED
  BY <1>7 DEF r1, r2, r3

\* The commands of the master part, one at a time.
LEMMA Operated ==
  {"authFactory", "authCurrent", "randomUid", "changePicc", "authPicc",
   "setDefault", "deleteApp", "deleteOther", "createApp", "authDefault", "authApp"} \subseteq Plain
BY DEF Plain

LEMMA NothingJoined ==
  /\ <<>> \in Seq(Commands)
  /\ \A t \in Seq(Commands) : t \o <<>> = t /\ <<>> \o t = t
BY ConcatEmptySeq

LEMMA OnceIsSeq == \A op \in Plain : Once(op) \in Seq(Commands)
BY OnceWithin DEF Within

\* On a card from the factory, the run hides its UID and gives it its key.
LEMMA FactoryIsMastered ==
  ASSUME NEW c \in CardType, c.picc = NullDES, NEW u \in Uids
  PROVE  LET o == Remedy("real", "none", FALSE, c)
         IN  /\ MasterKey(o) \in Seq(Commands)
             /\ Mastered(Run(Fresh(c), MasterKey(o), o, u), c)
<1> DEFINE o == Remedy("real", "none", FALSE, c)
           d == [c EXCEPT !.random = TRUE]
           t1 == Once("authFactory")
           t2 == t1 \o Once("randomUid")
           t3 == t2 \o Once("changePicc")
           t4 == t3 \o Once("authPicc")
           t5 == t4 \o Once("setDefault")
           r1 == Run(Fresh(c), t1, o, u)
           r2 == Run(Fresh(c), t2, o, u)
           r3 == Run(Fresh(c), t3, o, u)
           r4 == Run(Fresh(c), t4, o, u)
           r5 == Run(Fresh(c), t5, o, u)
<1>1. Runs(Fresh(c), c, "nobody")
  BY DEF Runs, Fresh, States
<1>2. /\ o.current = "none" /\ ~ o.dry /\ ~ o.skipPicc /\ ~ o.skipApp
  BY DEF Remedy
<1> HIDE DEF o
<1>3. t1 \in Seq(Commands) /\ r1 = Continued(Fresh(c), <<"authFactory", 0>>, o, u)
  BY Operated, OnceIsSeq, RunOnce
<1> HIDE DEF t1
<1>4. t2 \in Seq(Commands) /\ r2 = Continued(r1, <<"randomUid", 0>>, o, u)
  BY <1>3, Operated, RunThen
<1> HIDE DEF t2
<1>5. t3 \in Seq(Commands) /\ r3 = Continued(r2, <<"changePicc", 0>>, o, u)
  BY <1>4, Operated, RunThen
<1> HIDE DEF t3
<1>6. t4 \in Seq(Commands) /\ r4 = Continued(r3, <<"authPicc", 0>>, o, u)
  BY <1>5, Operated, RunThen
<1> HIDE DEF t4
<1>7. t5 \in Seq(Commands) /\ r5 = Continued(r4, <<"setDefault", 0>>, o, u)
  BY <1>6, Operated, RunThen
<1>8. MasterKey(o) = t5
  <2>1. MasterKey(o) = ((((t1 \o Once("randomUid")) \o <<>>) \o Once("changePicc"))
                          \o Once("authPicc")) \o Once("setDefault")
    BY <1>2 DEF MasterKey, When, t1
  <2>2. t2 \o <<>> = t2
    BY <1>4, NothingJoined
  <2> QED
    BY <2>1, <2>2 DEF t2, t3, t4
<1> HIDE DEF t5, r1, r2, r3, r4, r5
<1>9. Runs(r1, c, "picc")
  BY <1>1, <1>3, Authenticate
<1>10. Runs(r2, d, "picc")
  BY <1>4, <1>9, Master
<1>11. d.app = c.app /\ d.keys = c.keys /\ d.files = c.files
  BY DEF CardType
<1> HIDE DEF d
<1>12. Mastered(r5, d)
  BY <1>5, <1>6, <1>7, <1>10, Remaster
<1>13. Mastered(r5, c)
  BY <1>11, <1>12 DEF Mastered
<1> QED
  BY <1>7, <1>8, <1>13 DEF r5, o

\* A card prepared before gets its new key with the one it has.
LEMMA PreparedIsMastered ==
  ASSUME NEW c \in CardType, c.picc = OldKey
  PROVE  LET o == Remedy("real", "old", FALSE, c)
         IN  /\ MasterKey(o) \in Seq(Commands)
             /\ Mastered(Run(Fresh(c), MasterKey(o), o, "real"), c)
<1> DEFINE o == Remedy("real", "old", FALSE, c)
           u == "real"
           d == [c EXCEPT !.random = TRUE]
           t1 == Once("authCurrent")
           t2 == t1 \o Once("randomUid")
           t3 == t2 \o Once("authCurrent")
           t4 == t3 \o Once("changePicc")
           t5 == t4 \o Once("authPicc")
           t6 == t5 \o Once("setDefault")
           r1 == Run(Fresh(c), t1, o, u)
           r2 == Run(Fresh(c), t2, o, u)
           r3 == Run(Fresh(c), t3, o, u)
           r4 == Run(Fresh(c), t4, o, u)
           r5 == Run(Fresh(c), t5, o, u)
           r6 == Run(Fresh(c), t6, o, u)
<1>1. Runs(Fresh(c), c, "nobody")
  BY DEF Runs, Fresh, States
<1>2. /\ o.current = "old" /\ ~ o.dry /\ ~ o.skipPicc /\ ~ o.skipApp
      /\ u \in Uids
  BY DEF Remedy, Uids
<1> HIDE DEF o
<1>3. t1 \in Seq(Commands) /\ r1 = Continued(Fresh(c), <<"authCurrent", 0>>, o, u)
  BY Operated, OnceIsSeq, RunOnce
<1>4. /\ c.picc = Key(o.current, TRUE, u) /\ d.picc = Key(o.current, TRUE, u)
      /\ d.app = c.app /\ d.keys = c.keys /\ d.files = c.files
  BY <1>2 DEF OldKey, CardType
<1> HIDE DEF t1, u
<1>5. t2 \in Seq(Commands) /\ r2 = Continued(r1, <<"randomUid", 0>>, o, u)
  BY <1>3, Operated, RunThen
<1> HIDE DEF t2
<1>6. t3 \in Seq(Commands) /\ r3 = Continued(r2, <<"authCurrent", 0>>, o, u)
  BY <1>5, Operated, RunThen
<1> HIDE DEF t3
<1>7. t4 \in Seq(Commands) /\ r4 = Continued(r3, <<"changePicc", 0>>, o, u)
  BY <1>6, Operated, RunThen
<1> HIDE DEF t4
<1>8. t5 \in Seq(Commands) /\ r5 = Continued(r4, <<"authPicc", 0>>, o, u)
  BY <1>7, Operated, RunThen
<1> HIDE DEF t5
<1>9. t6 \in Seq(Commands) /\ r6 = Continued(r5, <<"setDefault", 0>>, o, u)
  BY <1>8, Operated, RunThen
<1>10. MasterKey(o) = t6
  BY <1>2 DEF MasterKey, When, t1, t2, t3, t4, t5
<1> HIDE DEF t6, r1, r2, r3, r4, r5, r6
<1>11. Runs(r1, c, "picc")
  BY <1>1, <1>3, <1>4, Authenticate
<1>12. Runs(r2, d, "picc")
  BY <1>2, <1>5, <1>11, Master
<1> HIDE DEF d
<1>13. Runs(r3, d, "picc")
  BY <1>4, <1>6, <1>12, Authenticate
<1>14. Mastered(r6, d)
  BY <1>2, <1>7, <1>8, <1>9, <1>13, Remaster
<1>15. Mastered(r6, c)
  BY <1>4, <1>14 DEF Mastered
<1> QED
  BY <1>9, <1>10, <1>15 DEF r6, o, u

\* A card that has its key already is left with it.
LEMMA DoneIsMastered ==
  ASSUME NEW c \in CardType, NEW u \in Uids, c.picc = PiccKey(u), NEW v
  PROVE  LET o == Remedy(v, "none", TRUE, c)
         IN  /\ MasterKey(o) \in Seq(Commands)
             /\ Mastered(Run(Fresh(c), MasterKey(o), o, u), c)
<1> DEFINE o == Remedy(v, "none", TRUE, c)
           t1 == Once("authPicc")
           t2 == t1 \o Once("setDefault")
           r1 == Run(Fresh(c), t1, o, u)
           r2 == Run(Fresh(c), t2, o, u)
<1>1. Runs(Fresh(c), c, "nobody")
  BY DEF Runs, Fresh, States
<1>2. o.current = "none" /\ ~ o.dry /\ o.skipPicc /\ ~ o.skipApp
  BY DEF Remedy
<1> HIDE DEF o
<1>3. t1 \in Seq(Commands) /\ r1 = Continued(Fresh(c), <<"authPicc", 0>>, o, u)
  BY Operated, OnceIsSeq, RunOnce
<1> HIDE DEF t1
<1>4. t2 \in Seq(Commands) /\ r2 = Continued(r1, <<"setDefault", 0>>, o, u)
  BY <1>3, Operated, RunThen
<1>5. MasterKey(o) = t2
  <2>1. MasterKey(o) = (((<<>> \o <<>>) \o <<>>) \o t1) \o Once("setDefault")
    BY <1>2 DEF MasterKey, When, t1
  <2>2. ((<<>> \o <<>>) \o <<>>) \o t1 = t1
    BY <1>3, NothingJoined
  <2> QED
    BY <2>1, <2>2
<1> HIDE DEF t2, r1, r2
<1>6. Runs(r1, c, "picc")
  BY <1>1, <1>3, Authenticate
<1>7. Runs(r2, c, "picc")
  BY <1>4, <1>6, Master
<1>8. Mastered(r2, c)
  BY <1>7 DEF Mastered
<1> QED
  BY <1>4, <1>5, <1>8 DEF r2, o

-----------------------------------------------------------------------------
(* The application: none, without its keys, with some, and with files.      *)

\* After n keys have been changed, the last one ends the authentication.
Rekeyed(s, n, u) ==
  \E d \in CardType :
    /\ Runs(s, d, IF n = NumKeys THEN "nobody" ELSE "app")
    /\ d.app /\ d.files = {}
    /\ \A i \in KeyIds : d.keys[i] = IF i >= NumKeys - n THEN AppKey(i, u)
                                                        ELSE NullAES

\* One more key is changed, from the last to the first.
LEMMA OneMoreKey ==
  ASSUME NEW s, NEW n \in Nat, n < NumKeys, NEW o, NEW u \in Uids, Rekeyed(s, n, u)
  PROVE  Rekeyed(Continued(s, Rekey[n + 1], o, u), n + 1, u)
<1> DEFINE i == NumKeys - (n + 1)
           r == Continued(s, <<"changeKey", i>>, o, u)
           a == IF i = 0 THEN "nobody" ELSE "app"
<1>1. PICK d \in CardType :
        /\ Runs(s, d, "app")
        /\ d.app /\ d.files = {}
        /\ \A j \in KeyIds : d.keys[j] = IF j >= NumKeys - n THEN AppKey(j, u)
                                                            ELSE NullAES
  BY Keys DEF Rekeyed
<1>2. i \in KeyIds /\ d.keys[i] = NullAES
  BY <1>1, Keys
<1>3. Rekey[n + 1] = <<"changeKey", i>>
  <2>1. n + 1 \in 1 .. NumKeys
    BY Keys
  <2> QED
    BY <2>1 DEF Rekey
<1>4. s \in States /\ s.ok /\ s.card = d /\ s.auth = "app"
  BY <1>1 DEF Runs
<1> DEFINE e == [d EXCEPT !.keys = [d.keys EXCEPT ![i] = AppKey(i, u)]]
<1>5. r = [s EXCEPT !.card = e, !.auth = a]
  <2>1. r = NewKey(s, i, u)
    BY <1>4 DEF Continued, Does
  <2>2. NewKey(s, i, u) = [s EXCEPT !.card.keys[i] = AppKey(i, u), !.auth = a]
    BY <1>2, <1>4 DEF NewKey
  <2> QED
    BY <1>4, <2>1, <2>2 DEF States, CardType
<1>6. /\ e \in CardType /\ e.app /\ e.files = {}
      /\ e.keys = [d.keys EXCEPT ![i] = AppKey(i, u)]
      /\ d.keys \in [KeyIds -> KeyType]
  BY <1>1, <1>2, Made DEF CardType
<1>7. \A j \in KeyIds : e.keys[j] = IF j >= NumKeys - (n + 1) THEN AppKey(j, u)
                                                              ELSE NullAES
  BY <1>1, <1>2, <1>6, Keys
<1>8. a = IF n + 1 = NumKeys THEN "nobody" ELSE "app"
  BY Keys
<1>9. a \in {"nobody", "picc", "app"}
  OBVIOUS
<1> HIDE DEF e, a, r
<1>10. Runs(r, e, a)
  <2>1. \A x \in CardType, b \in {"nobody", "picc", "app"} :
          Runs([s EXCEPT !.card = x, !.auth = b], x, b)
    BY <1>1, RunsAre
  <2>2. Runs([s EXCEPT !.card = e, !.auth = a], e, a)
    BY <1>6, <1>9, <2>1, Zenon
  <2> QED
    BY <1>5, <2>2
<1>11. Rekeyed(r, n + 1, u)
  BY <1>6, <1>7, <1>8, <1>10 DEF Rekeyed
<1> QED
  BY <1>3, <1>11 DEF r

\* ... until all are.
LEMMA AllKeys ==
  ASSUME NEW s, NEW o, NEW u \in Uids, Rekeyed(s, 0, u)
  PROVE  Rekeyed(Run(s, Rekey, o, u), NumKeys, u)
<1> DEFINE f == After(s, Rekey, o, u)
           S == {n \in Nat : n <= NumKeys => Rekeyed(f[n], n, u)}
<1>1. Len(Rekey) = NumKeys
  BY Keys DEF Rekey
<1>2. /\ f[0] = s
      /\ \A n \in 1 .. NumKeys : f[n] = Continued(f[n - 1], Rekey[n], o, u)
  BY <1>1, Keys, AfterIs
<1> HIDE DEF f
<1>3. 0 \in S
  BY <1>2
<1>4. ASSUME NEW n \in Nat, n \in S PROVE n + 1 \in S
  <2>1. CASE n + 1 <= NumKeys
    <3>1. n < NumKeys /\ n + 1 \in 1 .. NumKeys /\ (n + 1) - 1 = n
      BY <2>1, Keys
    <3>2. Rekeyed(f[n], n, u)
      BY <1>4, <3>1, Keys
    <3>3. Rekeyed(Continued(f[n], Rekey[n + 1], o, u), n + 1, u)
      BY <3>1, <3>2, OneMoreKey
    <3> QED
      BY <1>2, <3>1, <3>3
  <2> QED
    BY <2>1
<1>5. Nat \subseteq S
  <2> HIDE DEF S
  <2> QED
    BY <1>3, <1>4, Induction
<1> QED
  BY <1>1, <1>5, Keys DEF Run, f

\* The files, one after the other.
Filled(s, n) ==
  \E d \in CardType : Runs(s, d, "app") /\ d.files = 1 .. n

LEMMA OneMoreFile ==
  ASSUME NEW s, NEW n \in Nat, n < NumFiles, NEW o, NEW u, Filled(s, n)
  PROVE  Filled(Continued(s, NewFiles[n + 1], o, u), n + 1)
<1>1. PICK d \in CardType : Runs(s, d, "app") /\ d.files = 1 .. n
  BY DEF Filled
<1> DEFINE m == n + 1
           e == [d EXCEPT !.files = d.files \cup {m}]
           r == Continued(s, <<"createFile", m>>, o, u)
<1>2. NewFiles[n + 1] = <<"createFile", m>> /\ m \in 1 .. NumFiles
  BY Keys DEF NewFiles
<1>3. s.ok /\ s.card = d /\ s.auth = "app" /\ m \notin d.files
  BY <1>1 DEF Runs
<1>4. e \in CardType /\ e.files = 1 .. n + 1
  BY <1>1, <1>2 DEF CardType
<1>5. r = [s EXCEPT !.card = e]
  <2>1. r = Written(s, s.auth = "app" /\ m \notin d.files,
                    [d EXCEPT !.files = @ \cup {m}])
    BY <1>3 DEF Continued, Does
  <2> QED
    BY <1>3, <2>1 DEF Written
<1> HIDE DEF e, r
<1>6. Runs(r, e, "app")
  BY <1>1, <1>4, <1>5, RunsAre
<1> QED
  BY <1>2, <1>4, <1>6 DEF Filled, r

LEMMA AllFiles ==
  ASSUME NEW s, NEW o, NEW u, Filled(s, 0)
  PROVE  Filled(Run(s, NewFiles, o, u), NumFiles)
<1> DEFINE f == After(s, NewFiles, o, u)
           S == {n \in Nat : n <= NumFiles => Filled(f[n], n)}
<1>1. Len(NewFiles) = NumFiles
  BY Keys DEF NewFiles
<1>2. /\ f[0] = s
      /\ \A n \in 1 .. NumFiles : f[n] = Continued(f[n - 1], NewFiles[n], o, u)
  BY <1>1, Keys, AfterIs
<1> HIDE DEF f
<1>3. 0 \in S
  BY <1>2
<1>4. ASSUME NEW n \in Nat, n \in S PROVE n + 1 \in S
  <2>1. CASE n + 1 <= NumFiles
    <3>1. n < NumFiles /\ n + 1 \in 1 .. NumFiles /\ (n + 1) - 1 = n
      BY <2>1, Keys
    <3>2. Filled(f[n], n)
      BY <1>4, <3>1, Keys
    <3>3. Filled(Continued(f[n], NewFiles[n + 1], o, u), n + 1)
      BY <3>1, <3>2, OneMoreFile
    <3> QED
      BY <1>2, <3>1, <3>3
  <2> QED
    BY <2>1
<1>5. Nat \subseteq S
  <2> HIDE DEF S
  <2> QED
    BY <1>3, <1>4, Induction
<1> QED
  BY <1>1, <1>5, Keys DEF Run, f

\* The whole application part, on a card whose master the tool is.
LEMMA ApplicationSucceeds ==
  ASSUME NEW c \in CardType, c.app \/ (c.keys = NoKeys /\ c.files = {}),
         NEW v, NEW current, NEW skip, NEW u \in Uids, NEW s, Mastered(s, c)
  PROVE  LET o == Remedy(v, current, skip, c)
         IN  /\ Application(o) \in Seq(Commands)
             /\ Run(s, Application(o), o, u).ok
<1> DEFINE o == Remedy(v, current, skip, c)
           t1 == When(c.app, Once("deleteApp"))
           t2 == t1 \o Once("createApp")
           t3 == Once("authDefault") \o Rekey
           t4 == t2 \o t3
           t5 == t4 \o Once("authApp")
           t6 == t5 \o NewFiles
           r1 == Run(s, t1, o, u)
           r2 == Run(s, t2, o, u)
           r4 == Run(s, t4, o, u)
           r5 == Run(s, t5, o, u)
           r6 == Run(s, t6, o, u)
<1>1. /\ o.deleteFirst = c.app /\ o.deleteApps = "none" /\ ~ o.skipCreation
      /\ ~ o.skipApp /\ c.app \in BOOLEAN
  BY DEF Remedy, CardType
<1> HIDE DEF o
<1>2. PICK d \in CardType : /\ Runs(s, d, "picc")
                            /\ d.app = c.app /\ d.keys = c.keys /\ d.files = c.files
  BY DEF Mastered
<1>3. /\ t1 \in Seq(Commands) /\ NewFiles \in Seq(Commands)
      /\ t3 \in Seq(Commands) /\ Rekey \in Seq(Commands)
      /\ Once("authDefault") \in Seq(Commands)
  <2>1. /\ Once("deleteApp") \in Seq(Commands) /\ <<>> \in Seq(Commands)
        /\ Once("authDefault") \in Seq(Commands)
    BY Operated, OnceIsSeq
  <2>2. Rekey \in Seq(Commands) /\ NewFiles \in Seq(Commands)
    BY RekeyWithin, FilesWithin DEF Within
  <2>3. t1 \in {<<>>, Once("deleteApp")}
    BY DEF When
  <2> QED
    BY <2>1, <2>2, <2>3, ConcatProperties
<1>4. \E e \in CardType : /\ Runs(r1, e, "picc")
                          /\ ~ e.app /\ e.keys = NoKeys /\ e.files = {}
  <2>1. CASE c.app
    <3>1. r1 = Continued(s, <<"deleteApp", 0>>, o, u)
      BY <2>1, RunOnce DEF When
    <3>2. Runs(r1, Deleted(d), "picc")
      BY <1>2, <2>1, <3>1, Master
    <3>3. /\ Deleted(d).app = FALSE /\ Deleted(d).keys = NoKeys
          /\ Deleted(d).files = {}
      BY <1>2 DEF Deleted, CardType
    <3>4. Deleted(d) \in CardType
      BY <3>2, RunsAre
    <3> QED
      BY <3>2, <3>3, <3>4
  <2>2. CASE ~ c.app
    <3>1. r1 = s
      BY <2>2, RunNothing DEF When
    <3> QED
      BY <1>2, <2>2, <3>1
  <2> QED
    BY <2>1, <2>2
<1> HIDE DEF t1, t3
<1>5. t2 \in Seq(Commands) /\ r2 = Continued(r1, <<"createApp", 0>>, o, u)
  BY <1>3, Operated, RunThen
<1> HIDE DEF t2, r1, r2
<1>6. PICK e \in CardType : /\ Runs(r2, e, "picc")
                            /\ e.app /\ e.keys = NoKeys /\ e.files = {}
  <2>1. PICK e \in CardType : /\ Runs(r1, e, "picc")
                              /\ ~ e.app /\ e.keys = NoKeys /\ e.files = {}
    BY <1>4
  <2> DEFINE f == [e EXCEPT !.app = TRUE, !.keys = NoKeys]
  <2>2. Runs(r2, f, "picc")
    BY <1>5, <2>1, Master
  <2>3. f.app /\ f.keys = NoKeys /\ f.files = {}
    BY <2>1 DEF CardType
  <2> HIDE DEF f
  <2>4. f \in CardType
    BY <2>2, RunsAre
  <2> QED
    BY <2>2, <2>3, <2>4
<1> DEFINE m == Continued(r2, <<"authDefault", 0>>, o, u)
<1>7. Rekeyed(m, 0, u)
  <2>1. \A i \in KeyIds : e.keys[i] = NullAES
    BY <1>6 DEF NoKeys
  <2>2. e.keys[0] = NullAES
    BY <2>1, Keys
  <2>3. Runs(m, e, "app")
    BY <1>6, <2>2, Authenticate
  <2>4. \A i \in KeyIds : ~ (i >= NumKeys - 0)
    BY Keys
  <2>5. 0 # NumKeys
    BY Keys
  <2> HIDE DEF m
  <2> QED
    BY <1>6, <2>1, <2>3, <2>4, <2>5 DEF Rekeyed
<1>8. t4 \in Seq(Commands) /\ r4 = Run(m, Rekey, o, u)
  <2>1. t4 \in Seq(Commands) /\ r4 = Run(r2, t3, o, u)
    BY <1>3, <1>5, RunJoin, ConcatProperties DEF r2
  <2>2. Run(r2, t3, o, u) = Run(Run(r2, Once("authDefault"), o, u), Rekey, o, u)
    BY <1>3, RunJoin DEF t3
  <2>3. Run(r2, Once("authDefault"), o, u) = m
    BY RunOnce
  <2> QED
    BY <2>1, <2>2, <2>3
<1> HIDE DEF m, t4
<1>9. Rekeyed(r4, NumKeys, u)
  BY <1>7, <1>8, AllKeys
<1>10. t5 \in Seq(Commands) /\ r5 = Continued(r4, <<"authApp", 0>>, o, u)
  BY <1>8, Operated, RunThen
<1> HIDE DEF t5, r4, r5
<1>11. Filled(r5, 0)
  <2>1. PICK g \in CardType :
          /\ Runs(r4, g, "nobody") /\ g.app /\ g.files = {}
          /\ \A i \in KeyIds : g.keys[i] = IF i >= NumKeys - NumKeys
                                           THEN AppKey(i, u) ELSE NullAES
    BY <1>9 DEF Rekeyed
  <2>2. g.keys[0] = AppKey(0, u)
    BY <2>1, Keys
  <2>3. Runs(r5, g, "app")
    BY <1>10, <2>1, <2>2, Authenticate
  <2>4. 1 .. 0 = {}
    OBVIOUS
  <2> QED
    BY <2>1, <2>3, <2>4 DEF Filled
<1>12. t6 \in Seq(Commands) /\ r6 = Run(r5, NewFiles, o, u)
  BY <1>3, <1>10, RunJoin, ConcatProperties DEF r5
<1> HIDE DEF t6, r6
<1>13. r6.ok
  <2>1. Filled(r6, NumFiles)
    BY <1>11, <1>12, AllFiles
  <2> QED
    BY <2>1 DEF Filled, Runs
<1>14. Application(o) = t6
  <2>1. Application(o) = (((((t1 \o <<>>) \o <<>>) \o Once("createApp")) \o t3)
                            \o Once("authApp")) \o NewFiles
    BY <1>1 DEF Application, When, t1, t3, NewFiles
  <2>2. t1 \o <<>> = t1
    BY <1>3, NothingJoined
  <2> QED
    BY <2>1, <2>2 DEF t2, t4, t5, t6
<1> QED
  BY <1>12, <1>13, <1>14 DEF r6, o

\* ... so with the master key in order, the whole run succeeds.
LEMMA RunSucceeds ==
  ASSUME NEW c \in CardType, c.app \/ (c.keys = NoKeys /\ c.files = {}),
         NEW v, NEW current, NEW skip, NEW u \in Uids,
         MasterKey(Remedy(v, current, skip, c)) \in Seq(Commands),
         Mastered(Run(Fresh(c), MasterKey(Remedy(v, current, skip, c)),
                      Remedy(v, current, skip, c), u), c)
  PROVE  Run(Fresh(c), Plan(Remedy(v, current, skip, c)),
             Remedy(v, current, skip, c), u).ok
<1> DEFINE o == Remedy(v, current, skip, c)
           r == Run(Fresh(c), MasterKey(o), o, u)
<1>1. Plan(o) = MasterKey(o) \o Application(o)
  <2>1. ~ o.dry
    BY DEF Remedy
  <2> HIDE DEF o
  <2> QED
    BY <2>1 DEF Plan, When
<1>2. Application(o) \in Seq(Commands) /\ Run(r, Application(o), o, u).ok
  BY ApplicationSucceeds
<1> HIDE DEF o
<1> QED
  BY <1>1, <1>2, RunJoin DEF o

-----------------------------------------------------------------------------
(* Which remedy.  A PICC key made with a UID of zeros, or a run about to    *)
(* make one, means that the card hides its UID: then a run that is given no *)
(* UID takes it for zeros again.                                            *)

HiddenInv ==
  LET c == state.card IN
  /\ running /\ uid = "zeros" => c.random
  /\ c.picc = Key("picc", TRUE, "zeros") => c.random

\* What a command does to the PICC key and to the UID.
LEMMA CommandHides ==
  ASSUME PreconfigInv, Command
  PROVE  /\ state.card.random => state'.card.random
         /\ state'.card.picc \in {state.card.picc, PiccKey(uid)}
         /\ running /\ uid \in Uids /\ UNCHANGED <<running, uid>>
<1>1. /\ state \in States /\ state.card \in CardType /\ todo \in Seq(Commands)
      /\ running /\ uid \in Uids /\ UNCHANGED <<running, uid>>
  BY Progress DEF States, PreconfigInv, ToDoInv
<1> DEFINE c == state.card
           d == state'.card
           Hides == (c.random => d.random) /\ d.picc \in {c.picc, PiccKey(uid)}
<1>2. ASSUME state' = Refused(state) PROVE Hides
  BY <1>1, <1>2 DEF Refused, States
<1>3. ASSUME BecomesMaster \/ EntersApp PROVE Hides
  BY <1>1, <1>3 DEF BecomesMaster, EntersApp, States
<1>4. ASSUME SetsCard PROVE Hides
  <2> DEFINE h == Head(todo)
  <2>1. state' = Does(h, state, options, uid)
    BY DEF Command
  <2> HIDE DEF h
  <2>2. CASE h = <<"randomUid", 0>>
    <3>1. state' = Written(state, state.auth = "picc", [c EXCEPT !.random = TRUE])
      BY <2>1, <2>2 DEF Does
    <3> QED
      BY <1>1, <1>4, <3>1 DEF SetsCard, Written, States, CardType
  <2>3. CASE h = <<"setDefault", 0>>
    <3>1. state' = Written(state, state.auth = "picc", c)
      BY <2>1, <2>3 DEF Does
    <3> QED
      BY <1>1, <1>4, <3>1 DEF SetsCard, Written, States, CardType
  <2>4. CASE h = <<"deleteOther", 0>>
    <3>1. state' = Written(state, state.auth = "picc" /\ c.other,
                           [c EXCEPT !.other = FALSE])
      BY <2>1, <2>4 DEF Does
    <3>2. CASE c.other
      BY <1>1, <1>4, <3>1, <3>2 DEF SetsCard, Written, States, CardType
    <3>3. CASE ~ c.other
      BY <1>1, <1>4, <3>1, <3>3 DEF SetsCard, Written, Refused, States, CardType
    <3> QED
      BY <3>2, <3>3
  <2> QED
    BY <1>4, <2>2, <2>3, <2>4 DEF SetsCard, h
<1>5. ASSUME Reset PROVE Hides
  <2>1. PICK a \in BOOLEAN, f \in {{}, c.files} :
          state' = [state EXCEPT !.card.app = a, !.card.keys = NoKeys,
                                 !.card.files = f]
    BY <1>5 DEF Reset
  <2>2. d = [c EXCEPT !.app = a, !.keys = NoKeys, !.files = f]
    BY <1>1, <2>1 DEF States, CardType
  <2> QED
    BY <1>1, <2>2 DEF CardType
<1>6. ASSUME ChangesMaster PROVE Hides
  BY <1>1, <1>6 DEF ChangesMaster, States, CardType
<1>7. ASSUME NEW i \in KeyIds, Changes(i) PROVE Hides
  BY <1>1, <1>7 DEF Changes, States, CardType
<1>8. ASSUME NEW n \in 1 .. NumFiles, Creates(n) PROVE Hides
  BY <1>1, <1>8 DEF Creates, States, CardType
<1> HIDE DEF Hides
<1>9. Hides
  BY <1>1, <1>2, <1>3, <1>4, <1>5, <1>6, <1>7, <1>8, Outcomes
<1> QED
  BY <1>1, <1>9 DEF Hides

\* Only a run that takes the UID for zeros makes a key with it.
LEMMA ZerosMadeWithZeros ==
  ASSUME NEW u \in Uids, PiccKey(u) = Key("picc", TRUE, "zeros")
  PROVE  u = "zeros"
<1>1. Key("picc", TRUE, "zeros").uid = "zeros" /\ "zeros" # "plain"
  BY DEF Key
<1> QED
  BY <1>1, Made

LEMMA HiddenInvariant == Spec => [](PreconfigInv /\ HiddenInv)
<1>1. Init => HiddenInv
  <2>1. /\ NullDES # Key("picc", TRUE, "zeros")
        /\ Key("old", TRUE, "real") # Key("picc", TRUE, "zeros")
    BY DEF NullDES, Key
  <2>2. /\ Factory.picc = NullDES
        /\ \A c \in Prepared : c.picc = Key("old", TRUE, "real")
    BY DEF Factory, Prepared
  <2>3. \A c : Fresh(c).card = c
    BY DEF Fresh
  <2>4. ASSUME Init
        PROVE  ~ running /\ state.card.picc # Key("picc", TRUE, "zeros")
    <3>1. state.card \in {Factory} \cup Prepared /\ ~ running
      BY <2>3, <2>4, Zenon DEF Init
    <3> QED
      BY <2>1, <2>2, <3>1, Zenon
  <2> QED
    BY <2>4, Zenon DEF HiddenInv
<1>2. ASSUME PreconfigInv, HiddenInv, [Next]_vars PROVE HiddenInv'
  <2>1. CASE Start
    <3>1. PICK o \in Options : uid' = Uid(o, state.card)
      BY <2>1 DEF Start
    <3>2. uid' = "zeros" => state.card.random
      BY <3>1 DEF Uid, Options
    <3> QED
      BY <1>2, <2>1, <3>2 DEF Start, HiddenInv
  <2>2. CASE Command
    <3>1. /\ state.card.random => state'.card.random
          /\ state'.card.picc \in {state.card.picc, PiccKey(uid)}
          /\ running /\ uid \in Uids /\ UNCHANGED <<running, uid>>
      BY <1>2, <2>2, CommandHides
    <3>2. PiccKey(uid) = Key("picc", TRUE, "zeros") => uid = "zeros"
      BY <3>1, ZerosMadeWithZeros
    <3> QED
      BY <1>2, <3>1, <3>2 DEF HiddenInv
  <2>3. CASE End
    BY <1>2, <2>3 DEF End, Fresh, HiddenInv
  <2>4. CASE UNCHANGED vars
    BY <1>2, <2>4 DEF vars, HiddenInv
  <2> QED
    BY <1>2, <2>1, <2>2, <2>3, <2>4 DEF Next
<1> QED
  BY <1>1, <1>2, PreconfigInvariant, PTL DEF Spec

\* A remedy is one: all that is asked for is done.
LEMMA RemedyIs ==
  ASSUME NEW c \in CardType
  PROVE  \A v \in {"none", "real", "wrong"}, current \in {"none", "old", "picc"},
            skip \in BOOLEAN :
           /\ Remedy(v, current, skip, c) \in Remedies
           /\ Uid(Remedy(v, current, skip, c), c)
                = IF v # "none" THEN v ELSE IF c.random THEN "zeros" ELSE "real"
<1>1. c.app \in BOOLEAN
  BY DEF CardType
<1> QED
  BY <1>1 DEF Remedy, Remedies, Options, Uid

\* However many runs were cut short, wherever, and with whatever options and
\* UIDs, no card is lost: a run with the right options prepares it completely
\* (main() of nfcdoorz-preconfig to its last createFile), with any number of
\* keys and files.
THEOREM NoCardIsLost == Spec => []Recoverable
<1>1. ASSUME PreconfigInv, HiddenInv, ~ running PROVE Recoverable
  <2> DEFINE c == state.card
  <2>1. /\ c \in CardType /\ CardInv(c)
        /\ c.app \/ (c.keys = NoKeys /\ c.files = {})
        /\ c.picc \in {NullDES, OldKey} \cup {PiccKey(u) : u \in Uids}
        /\ c.picc = Key("picc", TRUE, "zeros") => c.random
    BY <1>1 DEF PreconfigInv, CardInv, HiddenInv
  <2>2. ASSUME NEW v \in {"none", "real", "wrong"},
               NEW current \in {"none", "old", "picc"}, NEW skip \in BOOLEAN,
               NEW u \in Uids, u = Uid(Remedy(v, current, skip, c), c),
               MasterKey(Remedy(v, current, skip, c)) \in Seq(Commands),
               Mastered(Run(Fresh(c), MasterKey(Remedy(v, current, skip, c)),
                            Remedy(v, current, skip, c), u), c)
        PROVE  Recoverable
    <3> HIDE DEF c
    <3> DEFINE o == Remedy(v, current, skip, c)
    <3>1. Run(Fresh(c), Plan(o), o, u).ok
      BY <2>1, <2>2, RunSucceeds
    <3>2. o \in Remedies
      BY <2>1, RemedyIs
    <3>3. u = Uid(o, c)
      BY <2>2
    <3> HIDE DEF o
    <3>4. Final(c, o) = Run(Fresh(c), Plan(o), o, u)
      BY <3>3 DEF Final, Run
    <3> QED
      BY <3>1, <3>2, <3>4 DEF Recoverable, c
  <2> HIDE DEF c
  <2>3. "real" \in Uids /\ "real" # "none"
    BY DEF Uids
  <2>4. CASE c.picc = NullDES
    <3>1. "real" = Uid(Remedy("real", "none", FALSE, c), c)
      BY <2>1, <2>3, RemedyIs
    <3> QED
      BY <2>1, <2>2, <2>3, <2>4, <3>1, FactoryIsMastered
  <2>5. CASE c.picc = OldKey
    <3>1. "real" = Uid(Remedy("real", "old", FALSE, c), c)
      BY <2>1, <2>3, RemedyIs
    <3> QED
      BY <2>1, <2>2, <2>3, <2>5, <3>1, PreparedIsMastered
  <2>6. CASE \E u \in Uids : c.picc = PiccKey(u)
    <3>1. PICK w \in Uids : c.picc = PiccKey(w)
      BY <2>6
    <3>2. \E u \in Uids, v \in {"none", "real", "wrong"} :
            /\ c.picc = PiccKey(u)
            /\ u = Uid(Remedy(v, "none", TRUE, c), c)
      <4>1. CASE ~ PiccDiversify
        <5>1. c.picc = PiccKey("real")
          BY <3>1, <4>1 DEF PiccKey, Key
        <5>2. "real" = Uid(Remedy("real", "none", TRUE, c), c)
          BY <2>1, <2>3, RemedyIs
        <5> QED
          BY <2>3, <5>1, <5>2
      <4>2. CASE w \in {"real", "wrong"}
        <5>1. w \in {"none", "real", "wrong"} /\ w # "none"
          BY <4>2
        <5>2. \A v \in {"none", "real", "wrong"} :
                Uid(Remedy(v, "none", TRUE, c), c)
                  = IF v # "none" THEN v ELSE IF c.random THEN "zeros" ELSE "real"
          BY <2>1, RemedyIs
        <5>3. w = Uid(Remedy(w, "none", TRUE, c), c)
          BY <5>1, <5>2, Zenon
        <5> QED
          BY <3>1, <5>1, <5>3
      <4>3. CASE PiccDiversify /\ w = "zeros"
        <5>1. c.random
          BY <2>1, <3>1, <4>3 DEF PiccKey
        <5>2. w = Uid(Remedy("none", "none", TRUE, c), c)
          BY <2>1, <4>3, <5>1, RemedyIs
        <5> QED
          BY <3>1, <5>2
      <4> QED
        BY <4>1, <4>2, <4>3, Keys DEF Uids
    <3>3. PICK u \in Uids, v \in {"none", "real", "wrong"} :
            /\ c.picc = PiccKey(u)
            /\ u = Uid(Remedy(v, "none", TRUE, c), c)
      BY <3>2
    <3>4. /\ MasterKey(Remedy(v, "none", TRUE, c)) \in Seq(Commands)
          /\ Mastered(Run(Fresh(c), MasterKey(Remedy(v, "none", TRUE, c)),
                          Remedy(v, "none", TRUE, c), u), c)
      BY <2>1, <3>3, DoneIsMastered
    <3> QED
      BY <2>2, <3>3, <3>4
  <2> QED
    BY <2>1, <2>4, <2>5, <2>6
<1>2. PreconfigInv /\ HiddenInv => Recoverable
  BY <1>1 DEF Recoverable
<1> QED
  BY <1>2, HiddenInvariant, PTL
=============================================================================
