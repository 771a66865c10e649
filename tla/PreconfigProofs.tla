--------------------------- MODULE PreconfigProofs ---------------------------
(***************************************************************************)
(* Theorems about Preconfig: what is on a card after any number of runs of *)
(* the tool, each ended anywhere, for any numbers of keys and files and    *)
(* any choice of the diversified keys.                                     *)
(*                                                                         *)
(* What is safe to do next depends on what the run has still to do, so the *)
(* invariant speaks of the commands to come.  They are in the order of     *)
(* Stage (Ordered), and a command that needs another one to have been done *)
(* is preceded by it as long as it has not been (Rekeys, Files).           *)
(***************************************************************************)
EXTENDS Preconfig, SequenceTheorems, TLAPS

\* The commands a run is made of.
Plain == {"authFactory", "authCurrent", "authPicc", "randomUid", "changePicc",
          "setDefault", "deleteApp", "deleteOther", "createApp", "authDefault",
          "authApp"}
ChangeKeys == {<<"changeKey", i>> : i \in KeyIds}
CreateFiles == {<<"createFile", n>> : n \in 1 .. NumFiles}
Commands == {<<op, 0>> : op \in Plain} \cup ChangeKeys \cup CreateFiles

Resets == {<<"deleteApp", 0>>, <<"createApp", 0>>}

Stage(x) ==
  CASE x[1] \in {"authFactory", "authCurrent", "randomUid", "changePicc"} -> 0
    [] x[1] = "authPicc" -> 1
    [] x[1] \in {"setDefault", "deleteApp", "deleteOther", "createApp",
                 "authDefault"} -> 2
    [] x[1] = "changeKey" -> 3 + NumKeys - x[2]
    [] x[1] = "authApp" -> 4 + NumKeys
    [] x[1] = "createFile" -> 5 + NumKeys

Ordered(t) == \A p, q \in DOMAIN t : p < q => Stage(t[p]) <= Stage(t[q])

\* Before a key is changed those after it are, unless they have been.
Rekeys(t, done) ==
  \A i \in KeyIds : <<"changeKey", i>> \in Range(t) =>
    \A j \in i + 1 .. NumKeys - 1 : j \in done \/ <<"changeKey", j>> \in Range(t)

\* Before a file is created key 0 is authenticated with, unless it has been.
Files(t, ready) ==
  Range(t) \cap CreateFiles # {} => ready \/ <<"authApp", 0>> \in Range(t)

Set(c) == {i \in KeyIds : c.keys[i] # NullAES}

\* What the run relies on: from here, and from each reset still to come.
ToDoInv ==
  /\ todo \in Seq(Commands)
  /\ Ordered(todo)
  /\ state.ok => /\ Rekeys(todo, Set(state.card))
                 /\ Files(todo, Set(state.card) = KeyIds)
                 /\ Range(todo) \cap Resets # {} =>
                      Rekeys(todo, {}) /\ Files(todo, FALSE)

CardType == [picc : KeyType, random : BOOLEAN, app : BOOLEAN,
             keys : [KeyIds -> KeyType], files : SUBSET (1 .. NumFiles),
             other : BOOLEAN]
States == [card : CardType, auth : {"nobody", "picc", "app"}, ok : BOOLEAN]
OldKey == Key("old", TRUE, "real")

CardInv(c) ==
  /\ c \in CardType
  /\ c.app \/ (c.keys = NoKeys /\ c.files = {})
  /\ c.files # {} => c.app /\ Set(c) = KeyIds
  /\ c.keys[0] # NullAES => Set(c) = KeyIds
  /\ c.picc \in {NullDES, OldKey} \cup {PiccKey(u) : u \in Uids}
  /\ PiccDiversify => \A i \in AppDiversify \cap Set(c) :
                        c.picc # NullDES /\ c.keys[i].uid = c.picc.uid

\* Which key made the tool the master of the card; with which UID the keys to
\* come are derived; and when that UID can be zeros.
UidInv ==
  LET c == state.card IN
  /\ state.auth = "app" => c.app
  /\ state.auth = "picc" =>
       c.picc \in {NullDES, Key(options.current, TRUE, uid), PiccKey(uid)}
  /\ state.ok /\ Range(todo) \cap ChangeKeys # {} =>
       <<"authPicc", 0>> \in Range(todo) \/ c.picc = PiccKey(uid)
  /\ (IF running THEN uid = "zeros" ELSE c.random) /\ c.picc = NullDES => cut
  /\ c.picc = Key("picc", TRUE, "zeros") => cut

RunTypes ==
  /\ state \in States
  /\ running \in BOOLEAN /\ cut \in BOOLEAN
  /\ options \in Options /\ uid \in Uids
  /\ ~ running => state.auth = "nobody" /\ state.ok /\ todo = <<>>

PreconfigInv == RunTypes /\ ToDoInv /\ CardInv(state.card) /\ UidInv

-----------------------------------------------------------------------------
(* The commands of a run are in the order of Stage.                         *)

LEMMA Keys == /\ NumKeys \in Nat /\ NumKeys > 0 /\ NumFiles \in Nat
              /\ KeyIds = 0 .. NumKeys - 1 /\ 0 \in KeyIds
              /\ AppDiversify \subseteq KeyIds /\ PiccDiversify \in BOOLEAN
BY ConfigAssumption, SMT DEF KeyIds

\* The stage of each command.
LEMMA Stages ==
  /\ \A op \in {"authFactory", "authCurrent", "randomUid", "changePicc"} :
       Stage(<<op, 0>>) = 0
  /\ Stage(<<"authPicc", 0>>) = 1
  /\ \A op \in {"setDefault", "deleteApp", "deleteOther", "createApp",
                "authDefault"} :
       Stage(<<op, 0>>) = 2
  /\ \A i \in KeyIds : Stage(<<"changeKey", i>>) = 3 + NumKeys - i
  /\ Stage(<<"authApp", 0>>) = 4 + NumKeys
  /\ \A n \in 1 .. NumFiles : Stage(<<"createFile", n>>) = 5 + NumKeys
BY DEF Stage

\* A list of commands in order, of the stages from lo to hi.
Within(t, lo, hi) ==
  /\ t \in Seq(Commands)
  /\ Ordered(t)
  /\ \A x \in Range(t) : lo <= Stage(x) /\ Stage(x) <= hi

LEMMA StageIsNat == \A x \in Commands : Stage(x) \in Nat
<1> SUFFICES ASSUME NEW x \in Commands PROVE Stage(x) \in Nat
  OBVIOUS
<1>1. CASE \E op \in Plain : x = <<op, 0>>
  BY <1>1, Stages, Keys DEF Plain
<1>2. CASE \E i \in KeyIds : x = <<"changeKey", i>>
  <2>1. PICK i \in KeyIds : x = <<"changeKey", i>>
    BY <1>2
  <2>2. Stage(x) = 3 + NumKeys - i
    BY <2>1, Stages
  <2> QED
    BY <2>2, Keys
<1>3. CASE \E n \in 1 .. NumFiles : x = <<"createFile", n>>
  BY <1>3, Stages, Keys
<1> QED
  BY <1>1, <1>2, <1>3 DEF Commands, ChangeKeys, CreateFiles

\* Nothing, and one command.
LEMMA EmptyWithin ==
  ASSUME NEW lo \in Nat, NEW hi \in Nat
  PROVE  Within(<<>>, lo, hi)
BY DEF Within, Ordered, Range

LEMMA OnceWithin ==
  ASSUME NEW op \in Plain
  PROVE  /\ Within(Once(op), Stage(<<op, 0>>), Stage(<<op, 0>>))
         /\ Range(Once(op)) = {<<op, 0>>}
<1> DEFINE x == <<op, 0>>
<1>1. x \in Commands /\ Stage(x) \in Nat
  BY StageIsNat DEF Commands
<1>2. Once(op) = <<x>>
  BY DEF Once
<1> HIDE DEF x
<1>3. <<x>> \in Seq(Commands) /\ Range(<<x>>) = {x} /\ Ordered(<<x>>)
  BY <1>1 DEF Range, Ordered
<1> QED
  BY <1>1, <1>2, <1>3 DEF Within, x

\* A list that may be left out.
LEMMA WhenWithin ==
  ASSUME NEW c \in BOOLEAN, NEW t, NEW lo \in Nat, NEW hi \in Nat,
         Within(t, lo, hi)
  PROVE  Within(When(c, t), lo, hi) /\ Range(When(c, t)) \subseteq Range(t)
<1>1. When(c, t) \in {t, <<>>} /\ Range(<<>>) = {}
  BY DEF When, Range
<1> QED
  BY <1>1, EmptyWithin

\* One list after another, of later stages.
LEMMA JoinWithin ==
  ASSUME NEW s, NEW t, NEW a \in Nat, NEW b \in Nat, NEW c \in Nat, NEW d \in Nat,
         Within(s, a, b), Within(t, c, d), b <= c, a <= c, b <= d
  PROVE  Within(s \o t, a, d) /\ Range(s \o t) = Range(s) \cup Range(t)
<1> DEFINE u == s \o t
<1>1. s \in Seq(Commands) /\ t \in Seq(Commands)
  BY DEF Within
<1>2. u \in Seq(Commands) /\ Range(u) = Range(s) \cup Range(t)
  BY <1>1, RangeConcatenation, ConcatProperties
<1>3. \A x \in Range(u) : Stage(x) \in Nat
  <2>1. Range(u) \subseteq Commands
    BY <1>2, RangeOfSeq
  <2> QED
    BY <2>1, StageIsNat
<1>4. \A x \in Range(u) : a <= Stage(x) /\ Stage(x) <= d
  <2>1. ASSUME NEW x \in Range(s) PROVE a <= Stage(x) /\ Stage(x) <= d
    <3>1. Stage(x) \in Nat /\ a <= Stage(x) /\ Stage(x) <= b
      BY <1>2, <1>3, <2>1 DEF Within
    <3> QED
      BY <3>1
  <2>2. ASSUME NEW x \in Range(t) PROVE a <= Stage(x) /\ Stage(x) <= d
    <3>1. Stage(x) \in Nat /\ c <= Stage(x) /\ Stage(x) <= d
      BY <1>2, <1>3, <2>2 DEF Within
    <3> QED
      BY <3>1
  <2> QED
    BY <1>2, <2>1, <2>2
<1>5. ASSUME NEW p \in DOMAIN u, NEW q \in DOMAIN u, p < q
      PROVE  Stage(u[p]) <= Stage(u[q])
  <2> DEFINE m == Len(s)
             n == Len(t)
  <2>1. /\ m \in Nat /\ n \in Nat /\ p \in 1 .. m + n /\ q \in 1 .. m + n
        /\ DOMAIN s = 1 .. m /\ DOMAIN t = 1 .. n
        /\ \A i \in 1 .. m + n : u[i] = IF i <= m THEN s[i] ELSE t[i - m]
    BY <1>1, <1>2, LenProperties, ConcatProperties
  <2> HIDE DEF m, n, u
  <2>2. CASE q <= m
    BY <1>5, <2>1, <2>2 DEF Within, Ordered
  <2>3. CASE p > m
    <3>1. /\ u[p] = t[p - m] /\ u[q] = t[q - m] /\ p - m < q - m
          /\ p - m \in DOMAIN t /\ q - m \in DOMAIN t
      BY <1>5, <2>1, <2>3
    <3> QED
      BY <3>1 DEF Within, Ordered
  <2>4. CASE p <= m /\ q > m
    <3>1. /\ u[p] = s[p] /\ u[q] = t[q - m]
          /\ p \in DOMAIN s /\ q - m \in DOMAIN t
      BY <2>1, <2>4
    <3>2. u[p] \in Range(s) /\ u[q] \in Range(t)
      BY <3>1 DEF Range
    <3>3. Stage(u[p]) <= b /\ c <= Stage(u[q])
      BY <3>2 DEF Within
    <3>4. Stage(u[p]) \in Nat /\ Stage(u[q]) \in Nat
      BY <1>2, <1>3, <3>2
    <3> QED
      BY <3>3, <3>4
  <2> QED
    BY <2>1, <2>2, <2>3, <2>4
<1> QED
  BY <1>2, <1>4, <1>5 DEF Within, Ordered

\* The keys are changed from the last to the first, and then come the files.
LEMMA RekeyWithin ==
  Within(Rekey, 4, 3 + NumKeys) /\ Range(Rekey) = ChangeKeys
<1>1. \A n \in 1 .. NumKeys : NumKeys - n \in KeyIds
  BY Keys
<1>2. Rekey \in [1 .. NumKeys -> ChangeKeys] /\ DOMAIN Rekey = 1 .. NumKeys
  BY <1>1 DEF Rekey, ChangeKeys
<1>3. Rekey \in Seq(Commands)
  <2>1. Rekey \in [1 .. NumKeys -> Commands]
    BY <1>2 DEF Commands
  <2> QED
    BY <2>1, Keys, SeqDef
<1>4. Range(Rekey) = ChangeKeys
  <2>1. ASSUME NEW i \in KeyIds PROVE <<"changeKey", i>> \in Range(Rekey)
    <3>1. NumKeys - i \in 1 .. NumKeys /\ NumKeys - (NumKeys - i) = i
      BY Keys
    <3>2. Rekey[NumKeys - i] = <<"changeKey", i>>
      BY <3>1 DEF Rekey
    <3> QED
      BY <1>2, <3>1, <3>2 DEF Range
  <2> QED
    BY <1>2, <2>1 DEF Range, ChangeKeys
<1>5. \A n \in 1 .. NumKeys : Stage(Rekey[n]) = 3 + n
  <2> SUFFICES ASSUME NEW n \in 1 .. NumKeys PROVE Stage(Rekey[n]) = 3 + n
    OBVIOUS
  <2>1. Rekey[n] = <<"changeKey", NumKeys - n>>
    BY DEF Rekey
  <2>2. Stage(Rekey[n]) = 3 + NumKeys - (NumKeys - n)
    BY <1>1, <2>1, Stages
  <2> QED
    BY <2>2, Keys
<1>6. Ordered(Rekey)
  BY <1>2, <1>5, Keys DEF Ordered
<1>7. \A x \in Range(Rekey) : 4 <= Stage(x) /\ Stage(x) <= 3 + NumKeys
  BY <1>2, <1>5, Keys DEF Range
<1> QED
  BY <1>3, <1>4, <1>6, <1>7 DEF Within

NewFiles == [n \in 1 .. NumFiles |-> <<"createFile", n>>]

LEMMA FilesWithin ==
  Within(NewFiles, 5 + NumKeys, 5 + NumKeys) /\ Range(NewFiles) = CreateFiles
<1>1. NewFiles \in [1 .. NumFiles -> Commands]
  BY DEF NewFiles, Commands, CreateFiles
<1>2. NewFiles \in Seq(Commands) /\ DOMAIN NewFiles = 1 .. NumFiles
  BY <1>1, Keys, SeqDef
<1>3. Range(NewFiles) = CreateFiles
  BY <1>2 DEF Range, NewFiles, CreateFiles
<1>4. \A n \in 1 .. NumFiles : Stage(NewFiles[n]) = 5 + NumKeys
  BY Stages DEF NewFiles
<1> QED
  BY <1>2, <1>3, <1>4, Keys DEF Within, Ordered, Range

LEMMA WidenWithin ==
  ASSUME NEW t, NEW a \in Nat, NEW b \in Nat, NEW c \in Nat, NEW d \in Nat,
         Within(t, b, c), a <= b, c <= d
  PROVE  Within(t, a, d)
<1>1. \A x \in Range(t) : Stage(x) \in Nat
  <2>1. Range(t) \subseteq Commands
    BY RangeOfSeq DEF Within
  <2> QED
    BY <2>1, StageIsNat
<1>2. ASSUME NEW x \in Range(t) PROVE a <= Stage(x) /\ Stage(x) <= d
  <2>1. Stage(x) \in Nat /\ b <= Stage(x) /\ Stage(x) <= c
    BY <1>1 DEF Within
  <2> QED
    BY <2>1
<1> QED
  BY <1>2 DEF Within

\* No key is changed and no file created with the master key.
LEMMA MasterKeyWithin ==
  ASSUME NEW o \in Options
  PROVE  Within(MasterKey(o), 0, 2) /\ <<"authPicc", 0>> \in Range(MasterKey(o))
<1> DEFINE first == IF o.current = "none" THEN "authFactory" ELSE "authCurrent"
           random == When(~ o.dry, Once("randomUid"))
           s1 == When(~ o.skipPicc, Once(first) \o random)
           s2 == When(o.current # "none", Once("authCurrent"))
           s3 == When(~ o.skipPicc /\ ~ o.dry, Once("changePicc"))
           s4 == Once("authPicc")
           s5 == When(~ o.skipApp /\ ~ o.dry, Once("setDefault"))
<1>1. MasterKey(o) = (((s1 \o s2) \o s3) \o s4) \o s5
  BY DEF MasterKey
<1>2. Within(s1, 0, 0)
  <2>1. Stage(<<first, 0>>) = 0 /\ Stage(<<"randomUid", 0>>) = 0 /\ first \in Plain
    BY Stages DEF Plain
  <2> HIDE DEF first
  <2>2. Within(Once(first), 0, 0)
    BY <2>1, OnceWithin
  <2>3. Within(Once("randomUid"), 0, 0)
    <3>1. "randomUid" \in Plain
      BY DEF Plain
    <3> QED
      BY <2>1, <3>1, OnceWithin
  <2>4. Within(random, 0, 0)
    BY <2>3, WhenWithin
  <2> HIDE DEF random
  <2>5. Within(Once(first) \o random, 0, 0)
    BY <2>2, <2>4, JoinWithin
  <2> QED
    BY <2>5, WhenWithin
<1>3. Within(s2, 0, 0)
  <2>1. "authCurrent" \in Plain /\ Stage(<<"authCurrent", 0>>) = 0
    BY Stages DEF Plain
  <2>2. Within(Once("authCurrent"), 0, 0)
    BY <2>1, OnceWithin
  <2> QED
    BY <2>2, WhenWithin
<1>4. Within(s3, 0, 0)
  <2>1. "changePicc" \in Plain /\ Stage(<<"changePicc", 0>>) = 0
    BY Stages DEF Plain
  <2>2. Within(Once("changePicc"), 0, 0)
    BY <2>1, OnceWithin
  <2> QED
    BY <2>2, WhenWithin
<1>5. Within(s4, 1, 1) /\ Range(s4) = {<<"authPicc", 0>>}
  <2>1. "authPicc" \in Plain /\ Stage(<<"authPicc", 0>>) = 1
    BY Stages DEF Plain
  <2> QED
    BY <2>1, OnceWithin
<1>6. Within(s5, 2, 2)
  <2>1. "setDefault" \in Plain /\ Stage(<<"setDefault", 0>>) = 2
    BY Stages DEF Plain
  <2>2. Within(Once("setDefault"), 2, 2)
    BY <2>1, OnceWithin
  <2> QED
    BY <2>2, WhenWithin
<1> HIDE DEF s1, s2, s3, s4, s5
<1>7. Within(s1 \o s2, 0, 0)
  BY <1>2, <1>3, JoinWithin
<1>8. Within((s1 \o s2) \o s3, 0, 0)
  BY <1>4, <1>7, JoinWithin
<1>9. /\ Within(((s1 \o s2) \o s3) \o s4, 0, 1)
      /\ <<"authPicc", 0>> \in Range(((s1 \o s2) \o s3) \o s4)
  BY <1>5, <1>8, JoinWithin
<1>10. /\ Within((((s1 \o s2) \o s3) \o s4) \o s5, 0, 2)
       /\ <<"authPicc", 0>> \in Range((((s1 \o s2) \o s3) \o s4) \o s5)
  BY <1>6, <1>9, JoinWithin
<1> QED
  BY <1>1, <1>10

\* All keys are changed or none, and key 0 is always authenticated with.
LEMMA ApplicationWithin ==
  ASSUME NEW o \in Options
  PROVE  /\ Within(Application(o), 2, 5 + NumKeys)
         /\ <<"authApp", 0>> \in Range(Application(o))
         /\ \/ ChangeKeys \subseteq Range(Application(o))
            \/ ChangeKeys \cap Range(Application(o)) = {}
<1> DEFINE s1 == When(o.deleteFirst, Once("deleteApp"))
           s2 == When(o.deleteApps = "app", Once("deleteApp"))
           s6 == When(o.deleteApps = "other", Once("deleteOther"))
           s3 == When(~ o.skipCreation, Once("createApp"))
           s4 == IF o.skipApp THEN Once("authApp")
                              ELSE Once("authDefault") \o Rekey
           s5 == Once("authApp")
           app == <<"authApp", 0>>
<1>1. Application(o) = (((((s1 \o s2) \o s6) \o s3) \o s4) \o s5) \o NewFiles
  BY DEF Application, NewFiles
<1>2. o.deleteFirst \in BOOLEAN
  BY DEF Options
<1>3. /\ Within(s1, 2, 2) /\ Range(s1) \subseteq {<<"deleteApp", 0>>}
      /\ Within(s2, 2, 2) /\ Range(s2) \subseteq {<<"deleteApp", 0>>}
  <2>1. "deleteApp" \in Plain /\ Stage(<<"deleteApp", 0>>) = 2
    BY Stages DEF Plain
  <2>2. Within(Once("deleteApp"), 2, 2) /\ Range(Once("deleteApp")) = {<<"deleteApp", 0>>}
    BY <2>1, OnceWithin
  <2> QED
    BY <1>2, <2>2, WhenWithin
<1>17. Within(s6, 2, 2) /\ Range(s6) \subseteq {<<"deleteOther", 0>>}
  <2>1. "deleteOther" \in Plain /\ Stage(<<"deleteOther", 0>>) = 2
    BY Stages DEF Plain
  <2>2. /\ Within(Once("deleteOther"), 2, 2)
        /\ Range(Once("deleteOther")) = {<<"deleteOther", 0>>}
    BY <2>1, OnceWithin
  <2> QED
    BY <2>2, WhenWithin
<1>4. Within(s3, 2, 2) /\ Range(s3) \subseteq {<<"createApp", 0>>}
  <2>1. "createApp" \in Plain /\ Stage(<<"createApp", 0>>) = 2
    BY Stages DEF Plain
  <2>2. Within(Once("createApp"), 2, 2) /\ Range(Once("createApp")) = {<<"createApp", 0>>}
    BY <2>1, OnceWithin
  <2> QED
    BY <2>2, WhenWithin
<1>5. Within(s5, 4 + NumKeys, 4 + NumKeys) /\ Range(s5) = {app}
  <2>1. "authApp" \in Plain /\ Stage(<<"authApp", 0>>) = 4 + NumKeys
    BY Stages DEF Plain
  <2> QED
    BY <2>1, OnceWithin
<1>6. /\ Within(s4, 2, 4 + NumKeys)
      /\ \/ Range(s4) = {app}
         \/ Range(s4) = {<<"authDefault", 0>>} \cup ChangeKeys
  <2>1. CASE o.skipApp
    BY <1>5, <2>1, Keys, WidenWithin
  <2>2. CASE ~ o.skipApp
    <3>1. "authDefault" \in Plain /\ Stage(<<"authDefault", 0>>) = 2
      BY Stages DEF Plain
    <3>2. /\ Within(Once("authDefault"), 2, 2)
          /\ Range(Once("authDefault")) = {<<"authDefault", 0>>}
      BY <3>1, OnceWithin
    <3>3. /\ Within(Once("authDefault") \o Rekey, 2, 3 + NumKeys)
          /\ Range(Once("authDefault") \o Rekey) = {<<"authDefault", 0>>} \cup ChangeKeys
      BY <3>2, Keys, RekeyWithin, JoinWithin
    <3>4. Within(Once("authDefault") \o Rekey, 2, 4 + NumKeys)
      BY <3>3, Keys, WidenWithin
    <3> QED
      BY <2>2, <3>3, <3>4
  <2> QED
    BY <2>1, <2>2
<1> HIDE DEF s6, s1, s2, s3, s4, s5
<1> DEFINE other == <<"deleteOther", 0>>
           t1 == s1 \o s2
           t2 == t1 \o s6
           t3 == t2 \o s3
           t4 == t3 \o s4
           t5 == t4 \o s5
           t6 == t5 \o NewFiles
<1>18. Within(t1, 2, 2) /\ Range(t1) \subseteq Resets
  BY <1>3, JoinWithin DEF Resets
<1> HIDE DEF t1
<1>7. Within(t2, 2, 2) /\ Range(t2) \subseteq Resets \cup {other}
  BY <1>17, <1>18, JoinWithin
<1> HIDE DEF t2
<1>8. Within(t3, 2, 2) /\ Range(t3) \subseteq Resets \cup {other}
  BY <1>4, <1>7, JoinWithin DEF Resets
<1> HIDE DEF t3
<1>9. Within(t4, 2, 4 + NumKeys) /\ Range(t4) = Range(t3) \cup Range(s4)
  BY <1>6, <1>8, Keys, JoinWithin
<1> HIDE DEF t4
<1>10. Within(t5, 2, 4 + NumKeys) /\ Range(t5) = Range(t4) \cup {app}
  BY <1>5, <1>9, Keys, JoinWithin
<1> HIDE DEF t5
<1>11. Within(t6, 2, 5 + NumKeys) /\ Range(t6) = Range(t5) \cup CreateFiles
  BY <1>10, Keys, FilesWithin, JoinWithin
<1>12. t6 = Application(o)
  BY <1>1 DEF t1, t2, t3, t4, t5
<1> HIDE DEF t6
<1>13. Range(t6) = Range(t3) \cup Range(s4) \cup {app} \cup CreateFiles
  BY <1>9, <1>10, <1>11
<1>14. ChangeKeys \cap (Resets \cup {app, other, <<"authDefault", 0>>}
                          \cup CreateFiles) = {}
  BY DEF ChangeKeys, Resets, CreateFiles
<1>15. ChangeKeys \subseteq Range(t6) \/ ChangeKeys \cap Range(t6) = {}
  BY <1>6, <1>8, <1>13, <1>14
<1> HIDE DEF app, other
<1>16. app \in Range(t6)
  BY <1>13
<1> QED
  BY <1>11, <1>12, <1>15, <1>16 DEF app

\* What a run has to do when it starts.
LEMMA Planned ==
  ASSUME NEW o \in Options
  PROVE  /\ Plan(o) \in Seq(Commands) /\ Ordered(Plan(o))
         /\ <<"authPicc", 0>> \in Range(Plan(o))
         /\ Rekeys(Plan(o), {}) /\ Files(Plan(o), FALSE)
<1> DEFINE m == MasterKey(o)
           a == Application(o)
           p == Plan(o)
<1>1. Within(m, 0, 2) /\ <<"authPicc", 0>> \in Range(m)
  BY MasterKeyWithin
<1>2. /\ Within(a, 2, 5 + NumKeys) /\ <<"authApp", 0>> \in Range(a)
      /\ ChangeKeys \subseteq Range(a) \/ ChangeKeys \cap Range(a) = {}
  BY ApplicationWithin
<1>3. p = m \o (IF o.dry THEN <<>> ELSE a)
  BY DEF Plan, When
<1> HIDE DEF m, a, p
<1>4. Range(m) \cap (ChangeKeys \cup CreateFiles) = {}
  <2>1. ASSUME NEW i \in KeyIds PROVE <<"changeKey", i>> \notin Range(m)
    BY <1>1, Stages, Keys DEF Within
  <2>2. ASSUME NEW n \in 1 .. NumFiles PROVE <<"createFile", n>> \notin Range(m)
    BY <1>1, Stages, Keys DEF Within
  <2> QED
    BY <2>1, <2>2 DEF ChangeKeys, CreateFiles
<1>5. CASE o.dry
  <2>1. Within(p, 0, 2) /\ Range(p) = Range(m)
    <3>1. Within(<<>>, 2, 2) /\ Range(<<>>) = {}
      BY EmptyWithin DEF Range
    <3> QED
      BY <1>1, <1>3, <1>5, <3>1, JoinWithin
  <2> QED
    BY <1>1, <1>4, <2>1 DEF Within, Rekeys, Files, ChangeKeys, p
<1>6. CASE ~ o.dry
  <2>1. Within(p, 0, 5 + NumKeys) /\ Range(p) = Range(m) \cup Range(a)
    BY <1>1, <1>2, <1>3, <1>6, Keys, JoinWithin
  <2>2. Rekeys(p, {})
    <3>1. ASSUME NEW i \in KeyIds, <<"changeKey", i>> \in Range(p),
                 NEW j \in i + 1 .. NumKeys - 1
          PROVE  <<"changeKey", j>> \in Range(p)
      <4>1. <<"changeKey", i>> \in ChangeKeys
        BY DEF ChangeKeys
      <4>2. ChangeKeys \subseteq Range(a)
        BY <1>2, <1>4, <2>1, <3>1, <4>1
      <4>3. j \in KeyIds
        BY Keys
      <4> QED
        BY <2>1, <4>2, <4>3 DEF ChangeKeys
    <3> QED
      BY <3>1 DEF Rekeys
  <2> QED
    BY <1>1, <1>2, <2>1, <2>2 DEF Within, Files, p
<1> QED
  BY <1>5, <1>6 DEF p

-----------------------------------------------------------------------------
(* A command either fails, or does one of seven things.                     *)

BecomesMaster ==
  /\ Head(todo) \in {<<"authFactory", 0>>, <<"authCurrent", 0>>, <<"authPicc", 0>>}
  /\ state.card.picc \in {NullDES, Key(options.current, TRUE, uid), PiccKey(uid)}
  /\ Head(todo) = <<"authPicc", 0>> => state.card.picc = PiccKey(uid)
  /\ state' = [state EXCEPT !.auth = "picc"]

EntersApp ==
  /\ Head(todo) \in {<<"authDefault", 0>>, <<"authApp", 0>>}
  /\ Head(todo) = <<"authApp", 0>> => state.card.keys[0] = AppKey(0, uid)
  /\ state.card.app
  /\ state' = [state EXCEPT !.auth = "app"]

SetsCard ==
  /\ Head(todo) \in {<<"randomUid", 0>>, <<"setDefault", 0>>, <<"deleteOther", 0>>}
  /\ state.auth = "picc"
  /\ \E r, a \in BOOLEAN :
       state' = [state EXCEPT !.card.random = r, !.card.other = a]

Reset ==
  /\ Head(todo) \in Resets
  /\ state.auth = "picc"
  /\ \E a \in BOOLEAN, f \in {{}, state.card.files} :
       /\ f = {} \/ ~ state.card.app
       /\ state' = [state EXCEPT !.card.app = a, !.card.keys = NoKeys,
                                 !.card.files = f]

ChangesMaster ==
  /\ Head(todo) = <<"changePicc", 0>>
  /\ state.auth = "picc"
  /\ state' = [state EXCEPT !.card.picc = PiccKey(uid), !.auth = "nobody"]

Changes(i) ==
  /\ Head(todo) = <<"changeKey", i>>
  /\ state.auth = "app"
  /\ \E a \in {"nobody", "app"} :
       state' = [state EXCEPT !.card.keys[i] = AppKey(i, uid), !.auth = a]

Creates(n) ==
  /\ Head(todo) = <<"createFile", n>>
  /\ state.auth = "app"
  /\ state' = [state EXCEPT !.card.files = @ \cup {n}]

LEMMA Outcomes ==
  ASSUME state \in States, todo \in Seq(Commands), Command
  PROVE  \/ state' = Refused(state)
         \/ BecomesMaster \/ EntersApp \/ SetsCard \/ Reset \/ ChangesMaster
         \/ \E i \in KeyIds : Changes(i)
         \/ \E n \in 1 .. NumFiles : Creates(n)
<1> DEFINE h == Head(todo)
           c == state.card
<1>1. h \in Commands /\ state' = Does(h, state, options, uid)
  BY HeadTailProperties DEF Command
<1> HIDE DEF h
<1>2. CASE h \in {<<"authFactory", 0>>, <<"authCurrent", 0>>, <<"authPicc", 0>>}
  <2>1. CASE h = <<"authFactory", 0>>
    <3>1. state' = Authenticated(state, "picc", c.picc = NullDES)
      BY <1>1, <2>1 DEF Does
    <3>2. h # <<"authPicc", 0>>
      BY <2>1
    <3> QED
      BY <2>1, <3>1, <3>2 DEF Authenticated, BecomesMaster, h
  <2>2. CASE h = <<"authCurrent", 0>>
    <3>1. state' = Authenticated(state, "picc", c.picc = Key(options.current, TRUE, uid))
      BY <1>1, <2>2 DEF Does
    <3>2. h # <<"authPicc", 0>>
      BY <2>2
    <3> QED
      BY <2>2, <3>1, <3>2 DEF Authenticated, BecomesMaster, h
  <2>3. CASE h = <<"authPicc", 0>>
    <3>1. state' = Authenticated(state, "picc", c.picc = PiccKey(uid))
      BY <1>1, <2>3 DEF Does
    <3> QED
      BY <2>3, <3>1 DEF Authenticated, BecomesMaster, h
  <2> QED
    BY <1>2, <2>1, <2>2, <2>3
<1>3. CASE h \in {<<"authDefault", 0>>, <<"authApp", 0>>}
  <2>1. CASE h = <<"authDefault", 0>>
    <3>1. state' = Authenticated(state, "app", c.app /\ c.keys[0] = NullAES)
      BY <1>1, <2>1 DEF Does
    <3>2. CASE c.app /\ c.keys[0] = NullAES
      BY <2>1, <3>1, <3>2 DEF Authenticated, EntersApp, h
    <3>3. CASE ~ (c.app /\ c.keys[0] = NullAES)
      BY <3>1, <3>3 DEF Authenticated
    <3> QED
      BY <3>2, <3>3
  <2>2. CASE h = <<"authApp", 0>>
    <3>1. state' = Authenticated(state, "app", c.app /\ c.keys[0] = AppKey(0, uid))
      BY <1>1, <2>2 DEF Does
    <3>2. CASE c.app /\ c.keys[0] = AppKey(0, uid)
      BY <2>2, <3>1, <3>2 DEF Authenticated, EntersApp, h
    <3>3. CASE ~ (c.app /\ c.keys[0] = AppKey(0, uid))
      BY <3>1, <3>3 DEF Authenticated
    <3> QED
      BY <3>2, <3>3
  <2> QED
    BY <1>3, <2>1, <2>2
<1>4. CASE h = <<"randomUid", 0>>
  <2>1. state' = Written(state, state.auth = "picc", [c EXCEPT !.random = TRUE])
    BY <1>1, <1>4 DEF Does
  <2>2. /\ c.other \in BOOLEAN
        /\ [c EXCEPT !.random = TRUE] = [c EXCEPT !.random = TRUE, !.other = c.other]
    BY DEF States, CardType
  <2> QED
    BY <1>4, <2>1, <2>2 DEF Written, SetsCard, h
<1>5. CASE h = <<"setDefault", 0>>
  <2>1. state' = Written(state, state.auth = "picc", c)
    BY <1>1, <1>5 DEF Does
  <2>2. /\ c.random \in BOOLEAN /\ c.other \in BOOLEAN
        /\ [c EXCEPT !.random = c.random, !.other = c.other] = c
    BY DEF States, CardType
  <2>3. CASE state.auth = "picc"
    <3>1. state' = [state EXCEPT !.card = [c EXCEPT !.random = c.random,
                                                    !.other = c.other]]
      BY <2>1, <2>2, <2>3 DEF Written
    <3>2. state' = [state EXCEPT !.card.random = c.random, !.card.other = c.other]
      BY <3>1
    <3> QED
      BY <1>5, <2>2, <2>3, <3>2 DEF SetsCard, h
  <2>4. CASE state.auth # "picc"
    BY <2>1, <2>4 DEF Written
  <2> QED
    BY <2>3, <2>4
<1>11. CASE h = <<"deleteOther", 0>>
  <2>1. state' = Written(state, state.auth = "picc" /\ c.other,
                         [c EXCEPT !.other = FALSE])
    BY <1>1, <1>11 DEF Does
  <2>2. /\ c.random \in BOOLEAN
        /\ [c EXCEPT !.other = FALSE] = [c EXCEPT !.random = c.random, !.other = FALSE]
    BY DEF States, CardType
  <2> QED
    BY <1>11, <2>1, <2>2 DEF Written, SetsCard, h
<1>6. CASE h = <<"deleteApp", 0>>
  <2>1. state' = Written(state, state.auth = "picc" /\ c.app, Deleted(c))
    BY <1>1, <1>6 DEF Does
  <2> QED
    BY <1>6, <2>1 DEF Written, Deleted, Reset, Resets, h
<1>7. CASE h = <<"createApp", 0>>
  <2>1. state' = Written(state, state.auth = "picc" /\ ~ c.app,
                         [c EXCEPT !.app = TRUE, !.keys = NoKeys])
    BY <1>1, <1>7 DEF Does
  <2>2. [c EXCEPT !.app = TRUE, !.keys = NoKeys]
          = [c EXCEPT !.app = TRUE, !.keys = NoKeys, !.files = c.files]
    BY DEF States, CardType
  <2> QED
    BY <1>7, <2>1, <2>2 DEF Written, Reset, Resets, h
<1>8. CASE h = <<"changePicc", 0>>
  <2>1. state' = NewPiccKey(state, uid)
    BY <1>1, <1>8 DEF Does
  <2> QED
    BY <1>8, <2>1 DEF NewPiccKey, ChangesMaster, h
<1>9. CASE h \in ChangeKeys
  <2>1. PICK i \in KeyIds : h = <<"changeKey", i>>
    BY <1>9 DEF ChangeKeys
  <2>2. state' = NewKey(state, i, uid)
    BY <1>1, <2>1 DEF Does
  <2>3. state' = Refused(state) \/ Changes(i)
    BY <2>1, <2>2 DEF NewKey, Changes, h
  <2> QED
    BY <2>3
<1>10. CASE h \in CreateFiles
  <2>1. PICK n \in 1 .. NumFiles : h = <<"createFile", n>>
    BY <1>10 DEF CreateFiles
  <2>2. state' = Written(state, state.auth = "app" /\ n \notin c.files,
                         [c EXCEPT !.files = @ \cup {n}])
    BY <1>1, <2>1 DEF Does
  <2>3. state' = Refused(state) \/ Creates(n)
    BY <2>1, <2>2 DEF Written, Creates, h
  <2> QED
    BY <2>3
<1> QED
  BY <1>1, <1>2, <1>3, <1>4, <1>5, <1>6, <1>7, <1>8, <1>9, <1>10, <1>11
     DEF Commands, Plain

-----------------------------------------------------------------------------
(* Each of them keeps the invariant.                                        *)

\* What the keys are made of.
LEMMA Made ==
  /\ NullDES \in KeyType /\ NullDES.base = "des"
  /\ NullAES \in KeyType /\ NullAES.base = "aes"
  /\ OldKey \in KeyType /\ OldKey.base = "old" /\ OldKey.uid = "real"
  /\ \A u \in Uids : /\ PiccKey(u) \in KeyType /\ PiccKey(u).base = "picc"
                     /\ PiccKey(u).uid = IF PiccDiversify THEN u ELSE "plain"
  /\ \A i \in KeyIds, u \in Uids :
       /\ AppKey(i, u) \in KeyType /\ AppKey(i, u).base = "app"
       /\ AppKey(i, u).uid = IF i \in AppDiversify THEN u ELSE "plain"
  /\ NoKeys \in [KeyIds -> KeyType]
<1>1. NullAES \in KeyType
  BY DEF NullAES, Key, KeyType, Uids
<1>2. NoKeys \in [KeyIds -> KeyType]
  BY <1>1 DEF NoKeys
<1>3. \A u \in Uids : /\ PiccKey(u) \in KeyType /\ PiccKey(u).base = "picc"
                      /\ PiccKey(u).uid = IF PiccDiversify THEN u ELSE "plain"
  BY DEF PiccKey, Key, KeyType
<1>4. \A i \in KeyIds, u \in Uids :
        /\ AppKey(i, u) \in KeyType /\ AppKey(i, u).base = "app"
        /\ AppKey(i, u).uid = IF i \in AppDiversify THEN u ELSE "plain"
  BY DEF AppKey, Key, KeyType
<1> QED
  BY <1>1, <1>2, <1>3, <1>4 DEF NullDES, NullAES, OldKey, Key, KeyType, Uids

\* The rest of a list in order.
LEMMA Rest ==
  ASSUME NEW t \in Seq(Commands), t # <<>>, Ordered(t)
  PROVE  /\ Tail(t) \in Seq(Commands) /\ Ordered(Tail(t)) /\ Head(t) \in Commands
         /\ Range(t) = Range(Tail(t)) \cup {Head(t)}
         /\ \A x \in Range(Tail(t)) : Stage(Head(t)) <= Stage(x)
<1> DEFINE s == Tail(t)
           n == Len(t)
<1>1. /\ s \in Seq(Commands) /\ Head(t) \in Commands /\ Head(t) = t[1]
      /\ n \in Nat /\ n > 0 /\ DOMAIN t = 1 .. n /\ DOMAIN s = 1 .. n - 1
      /\ \A p \in 1 .. n - 1 : s[p] = t[p + 1]
  BY HeadTailProperties, EmptySeq, LenProperties
<1> HIDE DEF s, n
<1>2. Ordered(s)
  <2> SUFFICES ASSUME NEW p \in 1 .. n - 1, NEW q \in 1 .. n - 1, p < q
               PROVE  Stage(s[p]) <= Stage(s[q])
    BY <1>1 DEF Ordered
  <2>1. p + 1 \in DOMAIN t /\ q + 1 \in DOMAIN t /\ p + 1 < q + 1
    BY <1>1
  <2> QED
    BY <1>1, <2>1 DEF Ordered
<1>3. Range(t) = Range(s) \cup {t[1]}
  <2>1. ASSUME NEW p \in 1 .. n PROVE t[p] \in Range(s) \cup {t[1]}
    <3>1. CASE p = 1
      BY <3>1
    <3>2. CASE p > 1
      <4>1. p - 1 \in 1 .. n - 1 /\ s[p - 1] = t[p]
        BY <1>1, <3>2
      <4> QED
        BY <1>1, <4>1 DEF Range
    <3> QED
      BY <1>1, <3>1, <3>2
  <2>2. ASSUME NEW p \in 1 .. n - 1 PROVE s[p] \in Range(t)
    <3>1. p + 1 \in DOMAIN t /\ s[p] = t[p + 1]
      BY <1>1
    <3> QED
      BY <3>1 DEF Range
  <2>3. t[1] \in Range(t)
    BY <1>1 DEF Range
  <2> QED
    BY <1>1, <2>1, <2>2, <2>3 DEF Range
<1>4. ASSUME NEW x \in Range(s) PROVE Stage(t[1]) <= Stage(x)
  <2>1. PICK p \in 1 .. n - 1 : x = s[p]
    BY <1>1 DEF Range
  <2>2. 1 \in DOMAIN t /\ p + 1 \in DOMAIN t /\ 1 < p + 1 /\ x = t[p + 1]
    BY <1>1, <2>1
  <2> QED
    BY <2>2 DEF Ordered
<1> QED
  BY <1>1, <1>2, <1>3, <1>4 DEF s

\* What any command does to the run.
LEMMA Progress ==
  ASSUME PreconfigInv, Command
  PROVE  /\ running /\ state.ok /\ state \in States /\ todo' \in Seq(Commands)
         /\ Ordered(todo') /\ Head(todo) \in Commands
         /\ Range(todo) = Range(todo') \cup {Head(todo)}
         /\ \A x \in Range(todo') : Stage(Head(todo)) <= Stage(x)
         /\ options \in Options /\ uid \in Uids
         /\ UNCHANGED <<running, options, uid, cut>>
BY Rest DEF PreconfigInv, RunTypes, ToDoInv, Command

\* A command that leaves the keys of the application alone.
LEMMA KeysStay ==
  ASSUME PreconfigInv, Command, Head(todo) \notin ChangeKeys \cup Resets,
         Set(state'.card) = Set(state.card),
         Head(todo) = <<"authApp", 0>> => Set(state.card) = KeyIds
  PROVE  ToDoInv'
<1> DEFINE h == Head(todo)
           done == Set(state.card)
<1>1. /\ state.ok /\ todo' \in Seq(Commands) /\ Ordered(todo')
      /\ Range(todo) = Range(todo') \cup {h}
      /\ \A x \in Range(todo') : Stage(h) <= Stage(x)
  BY Progress
<1>2. /\ Rekeys(todo, done) /\ Files(todo, done = KeyIds)
      /\ Range(todo) \cap Resets # {} => Rekeys(todo, {}) /\ Files(todo, FALSE)
  BY <1>1 DEF PreconfigInv, ToDoInv
<1> HIDE DEF h, done
<1>3. \A i \in KeyIds : h # <<"changeKey", i>>
  BY DEF ChangeKeys, h
<1>4. ASSUME NEW d, Rekeys(todo, d) PROVE Rekeys(todo', d)
  <2> SUFFICES ASSUME NEW i \in KeyIds, <<"changeKey", i>> \in Range(todo'),
                      NEW j \in i + 1 .. NumKeys - 1
               PROVE  j \in d \/ <<"changeKey", j>> \in Range(todo')
    BY DEF Rekeys
  <2>1. j \in d \/ <<"changeKey", j>> \in Range(todo)
    BY <1>1, <1>4 DEF Rekeys
  <2>2. j \in KeyIds
    BY Keys
  <2> QED
    BY <1>1, <1>3, <2>1, <2>2
<1>5. Files(todo', done = KeyIds)
  <2>1. CASE h = <<"authApp", 0>>
    BY <2>1 DEF Files, h, done
  <2>2. CASE h # <<"authApp", 0>>
    BY <1>1, <1>2, <2>2 DEF Files
  <2> QED
    BY <2>1, <2>2
<1>6. Range(todo') \cap Resets # {} => Rekeys(todo', {}) /\ Files(todo', FALSE)
  <2> SUFFICES ASSUME Range(todo') \cap Resets # {}
               PROVE  Rekeys(todo', {}) /\ Files(todo', FALSE)
    OBVIOUS
  <2>1. Rekeys(todo, {}) /\ Files(todo, FALSE)
    BY <1>1, <1>2
  <2>2. PICK x \in Resets : x \in Range(todo')
    OBVIOUS
  <2>3. Stage(x) = 2 /\ Stage(h) <= 2
    BY <1>1, <2>2, Stages DEF Resets
  <2>4. h # <<"authApp", 0>>
    BY <2>3, Stages, Keys
  <2> QED
    BY <1>1, <1>4, <2>1, <2>4 DEF Files
<1> QED
  BY <1>1, <1>2, <1>4, <1>5, <1>6 DEF ToDoInv, done

\* A command that leaves the PICC key alone.
LEMMA MasterStays ==
  ASSUME PreconfigInv, Command, state'.card.picc = state.card.picc,
         state'.auth = "app" => state'.card.app,
         state'.auth = "picc" => state.card.picc \in
           {NullDES, Key(options.current, TRUE, uid), PiccKey(uid)},
         state'.ok /\ Head(todo) = <<"authPicc", 0>> =>
           state.card.picc = PiccKey(uid)
  PROVE  UidInv'
<1>1. /\ state.ok /\ running /\ UNCHANGED <<running, options, uid, cut>>
      /\ Range(todo) = Range(todo') \cup {Head(todo)}
  BY Progress
<1>2. state'.ok /\ Range(todo') \cap ChangeKeys # {} =>
        <<"authPicc", 0>> \in Range(todo') \/ state.card.picc = PiccKey(uid)
  BY <1>1 DEF PreconfigInv, UidInv
<1>3. /\ uid = "zeros" /\ state.card.picc = NullDES => cut
      /\ state.card.picc = Key("picc", TRUE, "zeros") => cut
  BY <1>1 DEF PreconfigInv, UidInv
<1>4. running' /\ uid' = uid /\ options' = options /\ cut' = cut
  BY <1>1
<1> QED
  BY <1>2, <1>3, <1>4 DEF UidInv

LEMMA TypesStay ==
  ASSUME PreconfigInv, Command, state' \in States
  PROVE  RunTypes'
BY Progress DEF RunTypes, PreconfigInv

LEMMA RefusedKeeps ==
  ASSUME PreconfigInv, Command, state' = Refused(state)
  PROVE  PreconfigInv'
<1>1. /\ state' \in States /\ state'.card = state.card /\ state'.auth = "nobody"
      /\ ~ state'.ok
  BY Progress DEF Refused, States
<1>2. RunTypes' /\ UidInv'
  BY <1>1, MasterStays, TypesStay
<1>3. ToDoInv'
  BY <1>1, Progress DEF ToDoInv
<1>4. CardInv(state.card)'
  BY <1>1 DEF PreconfigInv
<1> QED
  BY <1>2, <1>3, <1>4 DEF PreconfigInv

LEMMA BecomesMasterKeeps ==
  ASSUME PreconfigInv, Command, BecomesMaster
  PROVE  PreconfigInv'
<1>1. /\ state' \in States /\ state'.card = state.card /\ state'.auth = "picc"
      /\ state'.ok = state.ok
  BY Progress DEF BecomesMaster, States
<1>2. RunTypes' /\ UidInv'
  BY <1>1, MasterStays, TypesStay DEF BecomesMaster
<1>3. /\ Head(todo) \notin ChangeKeys \cup Resets
      /\ Head(todo) # <<"authApp", 0>>
  BY DEF BecomesMaster, ChangeKeys, Resets
<1>4. ToDoInv'
  BY <1>1, <1>3, KeysStay
<1>5. CardInv(state.card)'
  BY <1>1 DEF PreconfigInv
<1> QED
  BY <1>2, <1>4, <1>5 DEF PreconfigInv

LEMMA EntersAppKeeps ==
  ASSUME PreconfigInv, Command, EntersApp
  PROVE  PreconfigInv'
<1>1. /\ state' \in States /\ state'.card = state.card /\ state'.auth = "app"
      /\ state'.ok = state.ok /\ state.card.app
  BY Progress DEF EntersApp, States
<1>2. /\ Head(todo) \notin ChangeKeys \cup Resets
      /\ Head(todo) # <<"authPicc", 0>>
  BY DEF EntersApp, ChangeKeys, Resets
<1>3. RunTypes' /\ UidInv'
  BY <1>1, <1>2, MasterStays, TypesStay
<1>4. Head(todo) = <<"authApp", 0>> => Set(state.card) = KeyIds
  <2> SUFFICES ASSUME Head(todo) = <<"authApp", 0>>
               PROVE  Set(state.card) = KeyIds
    OBVIOUS
  <2>1. state.card.keys[0].base = "app"
    BY Keys, Made, Progress DEF EntersApp
  <2>2. state.card.keys[0] # NullAES
    BY <2>1, Made
  <2> QED
    BY <2>2 DEF PreconfigInv, CardInv
<1>5. ToDoInv'
  BY <1>1, <1>2, <1>4, KeysStay
<1>6. CardInv(state.card)'
  BY <1>1 DEF PreconfigInv
<1> QED
  BY <1>3, <1>5, <1>6 DEF PreconfigInv

LEMMA SetsCardKeeps ==
  ASSUME PreconfigInv, Command, SetsCard
  PROVE  PreconfigInv'
<1> DEFINE c == state.card
           d == state'.card
<1>1. PICK r \in BOOLEAN, a \in BOOLEAN :
        state' = [state EXCEPT !.card.random = r, !.card.other = a]
  BY DEF SetsCard
<1>2. /\ state \in States /\ c \in CardType /\ state.auth = "picc"
  BY Progress DEF SetsCard, States
<1>3. /\ state' \in States /\ d = [c EXCEPT !.random = r, !.other = a]
      /\ state'.auth = "picc" /\ state'.ok = state.ok
  BY <1>1, <1>2 DEF States, CardType
<1>4. /\ d \in CardType /\ d.picc = c.picc /\ d.app = c.app /\ d.keys = c.keys
      /\ d.files = c.files
  BY <1>2, <1>3 DEF CardType
<1>5. CardInv(c)
  BY DEF PreconfigInv
<1>6. /\ Head(todo) \notin ChangeKeys \cup Resets
      /\ Head(todo) # <<"authPicc", 0>> /\ Head(todo) # <<"authApp", 0>>
  BY DEF SetsCard, ChangeKeys, Resets
<1> HIDE DEF c, d
<1>7. RunTypes' /\ UidInv'
  <2>1. c.picc \in {NullDES, Key(options.current, TRUE, uid), PiccKey(uid)}
    BY <1>2 DEF PreconfigInv, UidInv, c
  <2> QED
    BY <1>3, <1>4, <1>6, <2>1, MasterStays, TypesStay DEF c, d
<1>8. Set(d) = Set(c)
  BY <1>4 DEF Set
<1>9. ToDoInv'
  BY <1>6, <1>8, KeysStay DEF c, d
<1>10. CardInv(d)
  BY <1>4, <1>5, <1>8 DEF CardInv
<1> QED
  BY <1>7, <1>9, <1>10 DEF PreconfigInv, d

LEMMA ResetKeeps ==
  ASSUME PreconfigInv, Command, Reset
  PROVE  PreconfigInv'
<1> DEFINE c == state.card
           d == state'.card
           h == Head(todo)
<1>1. PICK a \in BOOLEAN, f \in {{}, c.files} :
        /\ f = {} \/ ~ c.app
        /\ state' = [state EXCEPT !.card.app = a, !.card.keys = NoKeys,
                                  !.card.files = f]
  BY DEF Reset
<1>2. /\ state \in States /\ c \in CardType /\ state.auth = "picc" /\ state.ok
  BY Progress DEF Reset, States
<1>3. /\ state'.auth = "picc" /\ state'.ok
      /\ d = [c EXCEPT !.app = a, !.keys = NoKeys, !.files = f]
      /\ state' = [state EXCEPT !.card = d]
  BY <1>1, <1>2 DEF States, CardType
<1>4. /\ d.picc = c.picc /\ d.keys = NoKeys /\ d.files = {} /\ d \in CardType
  <2>1. f = {}
    BY <1>1 DEF PreconfigInv, CardInv
  <2> QED
    BY <1>2, <1>3, <2>1, Made DEF CardType
<1>5. state' \in States
  BY <1>2, <1>3, <1>4 DEF States
<1>6. CardInv(c)
  BY DEF PreconfigInv
<1>7. Set(d) = {} /\ d.keys[0] = NullAES
  BY <1>4, Keys DEF Set, NoKeys
<1>8. RunTypes' /\ UidInv'
  <2>1. c.picc \in {NullDES, Key(options.current, TRUE, uid), PiccKey(uid)}
    BY <1>2 DEF PreconfigInv, UidInv
  <2>2. h # <<"authPicc", 0>>
    BY DEF Reset, Resets
  <2> QED
    BY <1>3, <1>4, <1>5, <2>1, <2>2, MasterStays, TypesStay
<1>9. ToDoInv'
  <2> HIDE DEF h
  <2>1. /\ todo' \in Seq(Commands) /\ Ordered(todo')
        /\ Range(todo) = Range(todo') \cup {h}
    BY Progress DEF h
  <2>2. h \in Resets /\ h # <<"authApp", 0>> /\ \A i \in KeyIds : h # <<"changeKey", i>>
    BY DEF Reset, Resets, h
  <2>3. Rekeys(todo, {}) /\ Files(todo, FALSE)
    BY <1>2, <2>1, <2>2 DEF PreconfigInv, ToDoInv
  <2>4. Rekeys(todo', {})
    <3> SUFFICES ASSUME NEW i \in KeyIds, <<"changeKey", i>> \in Range(todo'),
                        NEW j \in i + 1 .. NumKeys - 1
                 PROVE  <<"changeKey", j>> \in Range(todo')
      BY DEF Rekeys
    <3>1. <<"changeKey", j>> \in Range(todo)
      BY <2>1, <2>3 DEF Rekeys
    <3>2. j \in KeyIds
      BY Keys
    <3> QED
      BY <2>1, <2>2, <3>1, <3>2
  <2>5. Files(todo', FALSE)
    BY <2>1, <2>2, <2>3 DEF Files
  <2>6. Files(todo', Set(d) = KeyIds)
    BY <2>5 DEF Files
  <2> QED
    BY <1>7, <2>1, <2>4, <2>5, <2>6 DEF ToDoInv
<1> HIDE DEF c, d
<1>10. CardInv(d)
  BY <1>4, <1>6, <1>7 DEF CardInv
<1> QED
  BY <1>8, <1>9, <1>10 DEF PreconfigInv, d

LEMMA ChangesMasterKeeps ==
  ASSUME PreconfigInv, Command, ChangesMaster
  PROVE  PreconfigInv'
<1> DEFINE c == state.card
           d == state'.card
           h == Head(todo)
<1>1. /\ state' = [state EXCEPT !.card.picc = PiccKey(uid), !.auth = "nobody"]
      /\ h = <<"changePicc", 0>>
  BY DEF ChangesMaster
<1>2. /\ state \in States /\ c \in CardType /\ state.auth = "picc" /\ state.ok
      /\ running /\ uid \in Uids /\ UNCHANGED <<running, options, uid, cut>>
      /\ Range(todo) = Range(todo') \cup {h}
  BY Progress DEF ChangesMaster, States
<1>3. /\ state'.auth = "nobody" /\ state'.ok
      /\ d = [c EXCEPT !.picc = PiccKey(uid)]
  BY <1>1, <1>2 DEF States, CardType
<1>4. PiccKey(uid) \in KeyType
  BY <1>2, Made
<1>5. /\ d \in CardType /\ d.picc = PiccKey(uid) /\ d.app = c.app
      /\ d.keys = c.keys /\ d.files = c.files
  BY <1>2, <1>3, <1>4 DEF CardType
<1>6. state' \in States
  BY <1>1, <1>2, <1>3, <1>5 DEF States
<1>7. CardInv(c) /\ UidInv
  BY DEF PreconfigInv
<1>8. c.picc \in {NullDES, Key(options.current, TRUE, uid), PiccKey(uid)}
  BY <1>2, <1>7 DEF UidInv
<1>9. Set(d) = Set(c)
  BY <1>5 DEF Set
<1>10. RunTypes'
  BY <1>6, TypesStay
<1>11. ToDoInv'
  <2>1. /\ h \notin ChangeKeys \cup Resets /\ h # <<"authApp", 0>>
    BY <1>1 DEF ChangeKeys, Resets
  <2> QED
    BY <1>9, <2>1, KeysStay
<1>12. UidInv'
  <2>1. ASSUME PiccKey(uid) = Key("picc", TRUE, "zeros") PROVE cut
    <3>1. PiccDiversify /\ uid = "zeros"
      BY <1>2, <2>1, Keys DEF PiccKey, Key
    <3>2. CASE c.picc = NullDES
      BY <1>2, <1>7, <3>1, <3>2 DEF UidInv
    <3>3. CASE c.picc = PiccKey(uid)
      BY <1>7, <2>1, <3>3 DEF UidInv
    <3>4. CASE c.picc = Key(options.current, TRUE, uid)
      <4>1. c.picc.uid = "zeros" /\ c.picc.base = options.current
        BY <3>1, <3>4 DEF Key
      <4>2. c.picc \in {NullDES, OldKey} \cup {PiccKey(u) : u \in Uids}
        BY <1>7 DEF CardInv
      <4>3. CASE \E u \in Uids : c.picc = PiccKey(u)
        <5>1. c.picc = PiccKey("zeros")
          BY <3>1, <4>1, <4>3, Made
        <5> QED
          BY <1>7, <2>1, <3>1, <5>1 DEF UidInv
      <4> QED
        BY <3>2, <4>1, <4>2, <4>3, Made
    <3> QED
      BY <1>8, <3>2, <3>3, <3>4
  <2>2. PiccKey(uid) # NullDES
    BY <1>2, Made
  <2> QED
    BY <1>2, <1>3, <1>5, <2>1, <2>2 DEF UidInv
<1> HIDE DEF c, d
<1>13. CardInv(d)
  <2>1. ASSUME PiccDiversify, NEW i \in AppDiversify \cap Set(d)
        PROVE  d.picc # NullDES /\ d.keys[i].uid = d.picc.uid
    <3>1. i \in AppDiversify \cap Set(c) /\ d.keys[i] = c.keys[i]
      BY <1>5, <1>9
    <3>2. c.picc # NullDES /\ c.keys[i].uid = c.picc.uid
      BY <1>7, <2>1, <3>1 DEF CardInv
    <3>3. c.picc.uid = uid
      <4>1. c.picc = Key(options.current, TRUE, uid) => c.picc.uid = uid
        BY DEF Key
      <4> QED
        <5>1. c.picc = PiccKey(uid) => c.picc.uid = uid
          BY <1>2, <2>1, Made
        <5> QED
          BY <1>8, <3>2, <4>1, <5>1
    <3> QED
      BY <1>2, <1>5, <2>1, <3>1, <3>2, <3>3, Made
  <2>2. d.picc \in {PiccKey(u) : u \in Uids}
    BY <1>2, <1>5
  <2> QED
    BY <1>5, <1>7, <1>9, <2>1, <2>2 DEF CardInv
<1> QED
  BY <1>10, <1>11, <1>12, <1>13 DEF PreconfigInv, d

\* When a key is changed, those after it are, and the PICC key is the one that
\* is made with the UID of the run.
LEMMA BeforeAChange ==
  ASSUME PreconfigInv, Command, NEW i \in KeyIds, Head(todo) = <<"changeKey", i>>
  PROVE  /\ \A j \in i + 1 .. NumKeys - 1 : j \in Set(state.card)
         /\ state.card.picc = PiccKey(uid)
         /\ Range(todo') \cap Resets = {}
<1> DEFINE h == Head(todo)
<1>1. /\ state.ok /\ Range(todo) = Range(todo') \cup {h}
      /\ \A x \in Range(todo') : Stage(h) <= Stage(x)
  BY Progress
<1>2. Stage(h) = 3 + NumKeys - i /\ h \in ChangeKeys /\ h = <<"changeKey", i>>
  BY Stages DEF ChangeKeys
<1> HIDE DEF h
<1>3. ASSUME NEW j \in i + 1 .. NumKeys - 1 PROVE j \in Set(state.card)
  <2>1. j \in KeyIds /\ j # i
    BY Keys
  <2>2. Stage(<<"changeKey", j>>) = 3 + NumKeys - j
    BY <2>1, Stages
  <2>3. ~ (Stage(h) <= Stage(<<"changeKey", j>>))
    BY <1>2, <2>1, <2>2, Keys
  <2>4. <<"changeKey", j>> \notin Range(todo)
    BY <1>1, <1>2, <2>1, <2>3
  <2>5. Rekeys(todo, Set(state.card))
    BY <1>1 DEF PreconfigInv, ToDoInv
  <2>6. <<"changeKey", i>> \in Range(todo)
    BY <1>1, <1>2
  <2> QED
    BY <2>4, <2>5, <2>6 DEF Rekeys
<1>4. state.card.picc = PiccKey(uid)
  <2>1. ~ (Stage(h) <= Stage(<<"authPicc", 0>>)) /\ h # <<"authPicc", 0>>
    BY <1>2, Stages, Keys
  <2>2. <<"authPicc", 0>> \notin Range(todo)
    BY <1>1, <2>1
  <2>3. Range(todo) \cap ChangeKeys # {}
    BY <1>1, <1>2
  <2> QED
    BY <1>1, <2>2, <2>3 DEF PreconfigInv, UidInv
<1>5. Range(todo') \cap Resets = {}
  <2>1. \A x \in Resets : Stage(x) = 2
    BY Stages DEF Resets
  <2>2. \A x \in Resets : ~ (Stage(h) <= Stage(x))
    BY <1>2, <2>1, Keys
  <2> QED
    BY <1>1, <2>2
<1> QED
  BY <1>3, <1>4, <1>5

LEMMA ChangesKeeps ==
  ASSUME PreconfigInv, Command, NEW i \in KeyIds, Changes(i)
  PROVE  PreconfigInv'
<1> DEFINE c == state.card
           d == state'.card
           h == Head(todo)
<1>1. PICK a \in {"nobody", "app"} :
        state' = [state EXCEPT !.card.keys[i] = AppKey(i, uid), !.auth = a]
  BY DEF Changes
<1>2. /\ state \in States /\ c \in CardType /\ state.auth = "app" /\ state.ok
      /\ uid \in Uids /\ Range(todo) = Range(todo') \cup {h}
      /\ todo' \in Seq(Commands) /\ Ordered(todo') /\ h = <<"changeKey", i>>
  BY Progress DEF Changes, States
<1>3. /\ state'.auth = a /\ state'.ok
      /\ d = [c EXCEPT !.keys = [c.keys EXCEPT ![i] = AppKey(i, uid)]]
      /\ state' = [state EXCEPT !.card = d, !.auth = a]
  BY <1>1, <1>2 DEF States, CardType
<1>4. /\ AppKey(i, uid) \in KeyType /\ AppKey(i, uid) # NullAES
      /\ i \in AppDiversify => AppKey(i, uid).uid = uid
  <2>1. AppKey(i, uid).base = "app"
    BY <1>2, Made
  <2> QED
    BY <1>2, <2>1, Made
<1>5. /\ d \in CardType /\ d.picc = c.picc /\ d.app = c.app /\ d.files = c.files
      /\ d.keys = [c.keys EXCEPT ![i] = AppKey(i, uid)]
      /\ c.keys \in [KeyIds -> KeyType]
  <2>1. c.keys \in [KeyIds -> KeyType]
    BY <1>2 DEF CardType
  <2>2. [c.keys EXCEPT ![i] = AppKey(i, uid)] \in [KeyIds -> KeyType]
    BY <1>4, <2>1
  <2> QED
    BY <1>2, <1>3, <2>1, <2>2 DEF CardType
<1>6. state' \in States
  BY <1>2, <1>3, <1>5 DEF States
<1>7. CardInv(c) /\ c.app
  BY <1>2 DEF PreconfigInv, UidInv
<1>8. /\ \A j \in i + 1 .. NumKeys - 1 : j \in Set(c)
      /\ c.picc = PiccKey(uid) /\ Range(todo') \cap Resets = {}
  BY <1>2, BeforeAChange
<1>9. Set(d) = Set(c) \cup {i} /\ Set(c) \subseteq KeyIds
  BY <1>4, <1>5 DEF Set
<1>10. RunTypes' /\ UidInv'
  <2>1. h # <<"authPicc", 0>>
    BY <1>2
  <2> QED
    BY <1>3, <1>5, <1>6, <1>7, <2>1, MasterStays, TypesStay
<1> HIDE DEF c, d
<1>11. ToDoInv'
  <2> HIDE DEF h
  <2>1. Rekeys(todo, Set(c)) /\ Files(todo, Set(c) = KeyIds)
    BY <1>2 DEF PreconfigInv, ToDoInv, c
  <2>2. Rekeys(todo', Set(d))
    <3> SUFFICES ASSUME NEW k \in KeyIds, <<"changeKey", k>> \in Range(todo'),
                        NEW j \in k + 1 .. NumKeys - 1
                 PROVE  j \in Set(d) \/ <<"changeKey", j>> \in Range(todo')
      BY DEF Rekeys
    <3>1. j \in Set(c) \/ <<"changeKey", j>> \in Range(todo)
      BY <1>2, <2>1 DEF Rekeys
    <3>2. CASE j = i
      BY <1>9, <3>2
    <3>3. CASE j # i
      BY <1>2, <1>9, <3>1, <3>3
    <3> QED
      BY <3>2, <3>3
  <2>3. Files(todo', Set(d) = KeyIds)
    <3>1. h # <<"authApp", 0>>
      BY <1>2
    <3>2. Set(c) = KeyIds => Set(d) = KeyIds
      BY <1>9
    <3> QED
      BY <1>2, <2>1, <3>1, <3>2 DEF Files
  <2> QED
    BY <1>2, <1>8, <2>2, <2>3 DEF ToDoInv, d
<1>12. CardInv(d)
  <2>1. ASSUME d.keys[0] # NullAES PROVE Set(d) = KeyIds
    <3>1. CASE i = 0
      <4>1. \A j \in KeyIds : j = i \/ j \in i + 1 .. NumKeys - 1
        BY <3>1, Keys
      <4> QED
        BY <1>8, <1>9, <4>1
    <3>2. CASE i # 0
      <4>1. c.keys[0] # NullAES
        BY <1>5, <2>1, <3>2, Keys
      <4> QED
        BY <1>7, <1>9, <4>1 DEF CardInv
    <3> QED
      BY <3>1, <3>2
  <2>2. d.files # {} => d.app /\ Set(d) = KeyIds
    BY <1>5, <1>7, <1>9 DEF CardInv
  <2>3. ASSUME PiccDiversify, NEW j \in AppDiversify \cap Set(d)
        PROVE  d.picc # NullDES /\ d.keys[j].uid = d.picc.uid
    <3>1. d.picc # NullDES /\ d.picc.uid = uid
      BY <1>2, <1>5, <1>8, <2>3, Made
    <3>2. CASE j = i
      BY <1>4, <1>5, <2>3, <3>1, <3>2
    <3>3. CASE j # i
      BY <1>5, <1>7, <1>9, <2>3, <3>1, <3>3 DEF CardInv
    <3> QED
      BY <3>2, <3>3
  <2> QED
    BY <1>5, <1>7, <2>1, <2>2, <2>3 DEF CardInv
<1> QED
  BY <1>10, <1>11, <1>12 DEF PreconfigInv, d

LEMMA CreatesKeeps ==
  ASSUME PreconfigInv, Command, NEW n \in 1 .. NumFiles, Creates(n)
  PROVE  PreconfigInv'
<1> DEFINE c == state.card
           d == state'.card
           h == Head(todo)
<1>1. /\ state \in States /\ c \in CardType /\ state.auth = "app" /\ state.ok
      /\ Range(todo) = Range(todo') \cup {h} /\ h = <<"createFile", n>>
      /\ \A x \in Range(todo') : Stage(h) <= Stage(x)
  BY Progress DEF Creates, States
<1>2. /\ state'.auth = "app" /\ state'.ok
      /\ d = [c EXCEPT !.files = c.files \cup {n}]
      /\ state' = [state EXCEPT !.card = d]
  BY <1>1 DEF Creates, States, CardType
<1>3. /\ d \in CardType /\ d.picc = c.picc /\ d.app = c.app /\ d.keys = c.keys
      /\ d.files = c.files \cup {n}
  BY <1>1, <1>2 DEF CardType
<1>4. state' \in States
  BY <1>1, <1>2, <1>3 DEF States
<1>5. CardInv(c) /\ c.app
  BY <1>1 DEF PreconfigInv, UidInv
<1>6. Set(d) = Set(c)
  BY <1>3 DEF Set
<1>7. h \notin ChangeKeys \cup Resets /\ h # <<"authPicc", 0>> /\ h # <<"authApp", 0>>
  BY <1>1 DEF ChangeKeys, Resets
<1>8. Set(c) = KeyIds
  <2>1. Stage(h) = 5 + NumKeys /\ Stage(<<"authApp", 0>>) = 4 + NumKeys
    BY <1>1, Stages
  <2>2. ~ (Stage(h) <= Stage(<<"authApp", 0>>))
    BY <2>1, Keys
  <2>3. <<"authApp", 0>> \notin Range(todo)
    BY <1>1, <1>7, <2>2
  <2>4. h \in CreateFiles /\ h \in Range(todo)
    BY <1>1 DEF CreateFiles
  <2>5. Files(todo, Set(c) = KeyIds)
    BY <1>1 DEF PreconfigInv, ToDoInv
  <2> QED
    BY <2>3, <2>4, <2>5 DEF Files
<1>9. RunTypes' /\ UidInv'
  BY <1>2, <1>3, <1>4, <1>5, <1>7, MasterStays, TypesStay
<1>10. ToDoInv'
  BY <1>6, <1>7, KeysStay
<1> HIDE DEF c, d
<1>11. CardInv(d)
  BY <1>3, <1>5, <1>6, <1>8 DEF CardInv
<1> QED
  BY <1>9, <1>10, <1>11 DEF PreconfigInv, d

LEMMA CommandKeeps == PreconfigInv /\ Command => PreconfigInv'
<1> SUFFICES ASSUME PreconfigInv, Command PROVE PreconfigInv'
  OBVIOUS
<1>1. state \in States /\ todo \in Seq(Commands)
  BY DEF PreconfigInv, RunTypes, ToDoInv
<1> QED
  BY <1>1, Outcomes, RefusedKeeps, BecomesMasterKeeps, EntersAppKeeps,
     SetsCardKeeps, ResetKeeps, ChangesMasterKeeps, ChangesKeeps, CreatesKeeps

\* With nothing left to do nothing is relied on.
LEMMA NothingToDo == <<>> \in Seq(Commands) /\ Ordered(<<>>) /\ Range(<<>>) = {}
BY DEF Ordered, Range

\* The cards there are before the first run.
LEMMA FactoryIsSound ==
  /\ Factory \in CardType /\ CardInv(Factory)
  /\ Factory.picc = NullDES /\ Factory.random = FALSE
<1>1. /\ Factory \in CardType /\ Factory.keys = NoKeys /\ Factory.files = {}
      /\ Factory.picc = NullDES /\ Factory.random = FALSE
  BY Made DEF Factory, CardType
<1>2. Set(Factory) = {} /\ Factory.keys[0] = NullAES
  BY <1>1, Keys DEF Set, NoKeys
<1> QED
  BY <1>1, <1>2 DEF CardInv

LEMMA PreparedAreSound ==
  ASSUME NEW c \in Prepared
  PROVE  c \in CardType /\ CardInv(c) /\ c.picc = OldKey
<1>1. /\ c \in [picc : {OldKey}, random : {TRUE}, app : BOOLEAN,
               keys : {NoKeys, ConfiguredKeys, EarlierKeys},
               files : SUBSET (1 .. NumFiles), other : BOOLEAN]
      /\ c.app \/ c.keys = NoKeys
      /\ c.keys = NoKeys => c.files = {}
  BY DEF Prepared, OldKey
<1>2. /\ ConfiguredKeys \in [KeyIds -> KeyType]
      /\ EarlierKeys \in [KeyIds -> KeyType]
      /\ \A i \in KeyIds :
           /\ ConfiguredKeys[i] # NullAES /\ EarlierKeys[i] # NullAES
           /\ EarlierKeys[i].uid = "real"
           /\ i \in AppDiversify => ConfiguredKeys[i].uid = "real"
  <2>1. "real" \in Uids
    BY DEF Uids
  <2>2. /\ Key("earlier", TRUE, "real") \in KeyType
        /\ Key("earlier", TRUE, "real") # NullAES
        /\ Key("earlier", TRUE, "real").uid = "real"
    BY <2>1 DEF Key, KeyType, NullAES
  <2>3. \A i \in KeyIds :
          /\ AppKey(i, "real") \in KeyType /\ AppKey(i, "real") # NullAES
          /\ i \in AppDiversify => AppKey(i, "real").uid = "real"
    BY <2>1, Made
  <2> QED
    BY <2>2, <2>3 DEF ConfiguredKeys, EarlierKeys, AppKey
<1>3. c \in CardType
  BY <1>1, <1>2, Made DEF CardType
<1>4. c.keys = NoKeys => Set(c) = {} /\ c.keys[0] = NullAES
  BY Keys DEF Set, NoKeys
<1>5. c.keys \in {ConfiguredKeys, EarlierKeys} => Set(c) = KeyIds
  BY <1>2 DEF Set
<1>6. \A i \in AppDiversify \cap Set(c) : c.keys[i].uid = c.picc.uid
  <2> SUFFICES ASSUME NEW i \in AppDiversify \cap Set(c)
               PROVE  c.keys[i].uid = "real"
    BY <1>1, Made
  <2>1. i \in KeyIds /\ c.keys # NoKeys
    BY <1>4, Keys
  <2> QED
    BY <1>1, <1>2, <2>1
<1>7. OldKey # NullDES /\ c.picc = OldKey
  BY <1>1, Made
<1> QED
  BY <1>1, <1>3, <1>4, <1>5, <1>6, <1>7 DEF CardInv

LEMMA PreconfigInit == Init => PreconfigInv
<1> SUFFICES ASSUME Init PROVE PreconfigInv
  OBVIOUS
<1> DEFINE c == state.card
<1>1. /\ state = Fresh(c) /\ c \in {Factory} \cup Prepared
      /\ state.auth = "nobody" /\ state.ok /\ running = FALSE /\ cut = FALSE
      /\ options = NoOptions /\ uid = "zeros" /\ todo = <<>>
  BY DEF Init, Fresh
<1>2. /\ c \in CardType /\ CardInv(c)
      /\ (c.picc = NullDES /\ c.random = FALSE) \/ c.picc = OldKey
  <2>1. CASE c = Factory
    BY <2>1, FactoryIsSound
  <2>2. CASE c \in Prepared
    BY <2>2, PreparedAreSound
  <2> QED
    BY <1>1, <2>1, <2>2
<1>3. RunTypes
  <2>1. options \in Options /\ uid \in Uids
    BY <1>1 DEF Options, NoOptions, Uids
  <2>2. state \in States
    BY <1>1, <1>2 DEF States, Fresh
  <2> QED
    BY <1>1, <2>1, <2>2 DEF RunTypes
<1>4. ToDoInv
  BY <1>1, NothingToDo DEF ToDoInv, Rekeys, Files
<1>5. CardInv(c)
  BY <1>2
<1>6. UidInv
  <2>1. c.picc # Key("picc", TRUE, "zeros")
    BY <1>2 DEF NullDES, OldKey, Key
  <2>2. NullDES # OldKey
    BY DEF NullDES, OldKey, Key
  <2> QED
    BY <1>1, <1>2, <2>1, <2>2, NothingToDo DEF UidInv
<1> QED
  BY <1>3, <1>4, <1>5, <1>6 DEF PreconfigInv

LEMMA StartKeeps == PreconfigInv /\ Start => PreconfigInv'
<1> SUFFICES ASSUME PreconfigInv, Start PROVE PreconfigInv'
  OBVIOUS
<1>1. PICK o \in Options :
        options' = o /\ uid' = Uid(o, state.card) /\ todo' = Plan(o)
  BY DEF Start
<1>2. /\ ~ running /\ running' = TRUE /\ state' = state /\ cut' = cut
      /\ state \in States /\ state.auth = "nobody" /\ state.ok
      /\ state.card \in CardType /\ cut \in BOOLEAN
  BY DEF Start, PreconfigInv, RunTypes, States
<1>3. /\ todo' \in Seq(Commands) /\ Ordered(todo')
      /\ <<"authPicc", 0>> \in Range(todo')
      /\ Rekeys(todo', {}) /\ Files(todo', FALSE)
  BY <1>1, Planned
<1>4. uid' \in Uids /\ (uid' = "zeros" => state.card.random)
  BY <1>1 DEF Uid, Uids, Options
<1>5. RunTypes'
  BY <1>1, <1>2, <1>4 DEF RunTypes
<1>6. ToDoInv'
  <2>1. Rekeys(todo', Set(state.card))
    BY <1>3 DEF Rekeys
  <2>2. Files(todo', Set(state.card) = KeyIds)
    BY <1>3 DEF Files
  <2> QED
    BY <1>2, <1>3, <2>1, <2>2 DEF ToDoInv
<1>7. CardInv(state.card)'
  BY <1>2 DEF PreconfigInv
<1>8. UidInv'
  BY <1>2, <1>3, <1>4 DEF UidInv, PreconfigInv
<1> QED
  BY <1>5, <1>6, <1>7, <1>8 DEF PreconfigInv

LEMMA EndKeeps == PreconfigInv /\ End => PreconfigInv'
<1> SUFFICES ASSUME PreconfigInv, End PROVE PreconfigInv'
  OBVIOUS
<1>1. /\ running /\ running' = FALSE /\ state' = Fresh(state.card)
      /\ options' = NoOptions /\ uid' = "zeros" /\ todo' = <<>>
      /\ cut' = (cut \/ (state.card.random /\ state.card.picc = NullDES))
      /\ state.card \in CardType /\ cut \in BOOLEAN
  BY DEF End, PreconfigInv, RunTypes, States
<1>2. /\ state' \in States /\ state'.card = state.card
      /\ state'.auth = "nobody" /\ state'.ok
  BY <1>1 DEF Fresh, States
<1>3. cut' \in BOOLEAN /\ (cut => cut')
  <2>1. state.card.random \in BOOLEAN
    BY <1>1 DEF CardType
  <2> QED
    BY <1>1, <2>1
<1>4. RunTypes'
  <2>1. NoOptions \in Options /\ "zeros" \in Uids
    BY DEF NoOptions, Options, Uids
  <2> QED
    BY <1>1, <1>2, <1>3, <2>1 DEF RunTypes
<1>5. ToDoInv'
  BY <1>1, NothingToDo DEF ToDoInv, Rekeys, Files
<1>6. CardInv(state.card)'
  BY <1>2 DEF PreconfigInv
<1>7. UidInv'
  <2>1. /\ Range(todo') \cap ChangeKeys = {}
        /\ state.card.picc = Key("picc", TRUE, "zeros") => cut
    BY <1>1, NothingToDo DEF PreconfigInv, UidInv
  <2> QED
    BY <1>1, <1>2, <1>3, <2>1 DEF UidInv
<1> QED
  BY <1>4, <1>5, <1>6, <1>7 DEF PreconfigInv

\* The invariant, of every run of the tool over any number of runs.
LEMMA PreconfigInvariant == Spec => []PreconfigInv
<1>1. PreconfigInv /\ UNCHANGED vars => PreconfigInv'
  <2> SUFFICES ASSUME PreconfigInv, UNCHANGED vars PROVE PreconfigInv'
    OBVIOUS
  <2>1. CardInv(state.card)' /\ RunTypes'
    BY DEF vars, PreconfigInv, RunTypes
  <2>2. ToDoInv' /\ UidInv'
    BY DEF vars, PreconfigInv, ToDoInv, UidInv
  <2> QED
    BY <2>1, <2>2 DEF PreconfigInv
<1>2. PreconfigInv /\ [Next]_vars => PreconfigInv'
  BY <1>1, StartKeeps, CommandKeeps, EndKeeps DEF Next
<1> QED
  BY <1>2, PreconfigInit, PTL DEF Spec

-----------------------------------------------------------------------------
(* The theorems.                                                            *)

\* What is on the card, who is authenticated and what is still to do have the
\* types the code gives them, and where there is no application there are
\* neither keys nor files.
THEOREM PreconfigTypeCorrect == Spec => []TypeOK
<1>1. PreconfigInv => TypeOK
  <2> SUFFICES ASSUME PreconfigInv PROVE TypeOK
    OBVIOUS
  <2>1. Commands \subseteq Operations \X Nat
    <3>1. \A i \in KeyIds : <<"changeKey", i>> \in Operations \X Nat
      BY Keys DEF Operations
    <3>2. \A n \in 1 .. NumFiles : <<"createFile", n>> \in Operations \X Nat
      BY Keys DEF Operations
    <3>3. \A op \in Plain : <<op, 0>> \in Operations \X Nat
      BY DEF Plain, Operations
    <3> QED
      BY <3>1, <3>2, <3>3 DEF Commands, ChangeKeys, CreateFiles
  <2>2. todo \in Seq(Operations \X Nat)
    <3>1. todo \in [1 .. Len(todo) -> Commands] /\ Len(todo) \in Nat
      BY LenProperties DEF PreconfigInv, ToDoInv
    <3>2. todo \in [1 .. Len(todo) -> Operations \X Nat]
      BY <2>1, <3>1
    <3> QED
      BY <3>1, <3>2, SeqDef
  <2> QED
    BY <2>2 DEF PreconfigInv, RunTypes, States, CardInv, CardType, TypeOK
<1> QED
  BY <1>1, PreconfigInvariant, PTL

\* However many runs were cut short and wherever (connect() to the last
\* createFile), files lie only in an application all of whose keys have been
\* changed, and an application whose key 0 has been changed has no default key
\* left: the loop over app.keys ends with key 0.
THEOREM FilesFollowTheKeys == Spec => []KeysBeforeFiles
<1>1. PreconfigInv => KeysBeforeFiles
  BY DEF PreconfigInv, CardInv, Set, KeysBeforeFiles
<1> QED
  BY <1>1, PreconfigInvariant, PTL

\* With a diversified PICC key, the keys on a card are all made with the UID
\* its PICC key is made with, whatever UIDs the runs were given or read.
THEOREM OneUidForAllKeys == Spec => []OneUidPerCard
<1>1. PreconfigInv => OneUidPerCard
  <2> SUFFICES ASSUME PreconfigInv, PiccDiversify, NEW i \in AppDiversify,
                      state.card.keys[i] # NullAES
               PROVE  state.card.keys[i].uid = state.card.picc.uid
    BY DEF OneUidPerCard
  <2>1. i \in AppDiversify \cap Set(state.card)
    BY Keys DEF Set
  <2> QED
    BY <2>1 DEF PreconfigInv, CardInv
<1> QED
  BY <1>1, PreconfigInvariant, PTL

\* A PICC key made with a UID of zeros is on a card only after a run that
\* ended between the random UID and the new PICC key.
THEOREM ZeroKeysComeOfACut == Spec => []ZeroKeysNeedACut
<1>1. PreconfigInv => ZeroKeysNeedACut
  BY DEF PreconfigInv, UidInv, ZeroKeysNeedACut
<1> QED
  BY <1>1, PreconfigInvariant, PTL
=============================================================================
