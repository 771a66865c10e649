------------------------------ MODULE Preconfig ------------------------------
(***************************************************************************)
(* nfcdoorz-preconfig (src/apps/nfcdoorz-preconfig.cpp, lib/adapter.cpp)   *)
(* and the DESFire card it prepares.  A run is a list of commands chosen   *)
(* by its options; the first that fails ends the tool, and the card may be *)
(* taken away before any of them.  The tool may be run again, with any     *)
(* options.  A key is what it was made of: a base key and, if it is        *)
(* diversified, the UID the tool took for the card's.                      *)
(***************************************************************************)
EXTENDS Integers, Sequences

CONSTANTS NumKeys,        \* app.keys.size()
          NumFiles,       \* app.files.size()
          PiccDiversify,  \* config.picc.key.diversify
          AppDiversify    \* the ids of the diversified keys of the app

ASSUME ConfigAssumption ==
  /\ NumKeys \in Nat \ {0} /\ NumFiles \in Nat
  /\ PiccDiversify \in BOOLEAN /\ AppDiversify \subseteq 0 .. NumKeys - 1

KeyIds == 0 .. NumKeys - 1

-----------------------------------------------------------------------------
(* Keys and UIDs.                                                          *)

\* The card's, all zeros, and one an operator mistypes.
Uids == {"real", "zeros", "wrong"}

Key(base, diversify, uid) ==
  [base |-> base, uid |-> IF diversify THEN uid ELSE "plain"]
NullDES == Key("des", FALSE, "zeros")
NullAES == Key("aes", FALSE, "zeros")

PiccKey(uid) == Key("picc", PiccDiversify, uid)
EarlyAppKey(i, uid) == Key("app", i \in AppDiversify, "zeros")
                                               \* fault: derived without _uid
AppKey(i, uid) == Key("app", i \in AppDiversify, uid)

\* The options, current being the base of --current-picc-key and deleteApps
\* the application --delete-app names: the configured one, or any other.
Options ==
  [uid : {"none", "real", "wrong"}, current : {"none", "old", "picc"},
   dry : BOOLEAN, skipPicc : BOOLEAN, skipApp : BOOLEAN,
   deleteFirst : BOOLEAN, deleteApps : {"none", "app", "other"},
   skipCreation : BOOLEAN]
NoOptions ==
  [uid |-> "none", current |-> "none", dry |-> FALSE, skipPicc |-> FALSE,
   skipApp |-> FALSE, deleteFirst |-> FALSE, deleteApps |-> "none",
   skipCreation |-> FALSE]

\* setUID or, if that leaves zeros, the UID of the card; a random one is too
\* short for setUID, which fails, and nobody looks.
NeverRead(o, c) == IF o.uid # "none" THEN o.uid ELSE "zeros"
                                               \* fault: getUID is not called
Uid(o, c) ==
  IF o.uid # "none" THEN o.uid ELSE IF c.random THEN "zeros" ELSE "real"

-----------------------------------------------------------------------------
(* The commands of a run, in their order.                                  *)

Once(op) == << <<op, 0>> >>
When(condition, commands) == IF condition THEN commands ELSE <<>>

ForwardOrder == [n \in 1 .. NumKeys |-> <<"changeKey", n - 1>>]
                                               \* fault: key 0 is changed first
Rekey == [n \in 1 .. NumKeys |-> <<"changeKey", NumKeys - n>>]

MasterKey(o) ==
  When(~ o.skipPicc,
    Once(IF o.current = "none" THEN "authFactory" ELSE "authCurrent")
      \o When(~ o.dry, Once("randomUid")))
  \o When(o.current # "none", Once("authCurrent"))
  \o When(~ o.skipPicc /\ ~ o.dry, Once("changePicc"))
  \o Once("authPicc")
  \o When(~ o.skipApp /\ ~ o.dry, Once("setDefault"))

Application(o) ==
  When(o.deleteFirst, Once("deleteApp"))
  \o When(o.deleteApps = "app", Once("deleteApp"))
  \o When(o.deleteApps = "other", Once("deleteOther"))
  \o When(~ o.skipCreation, Once("createApp"))
  \o (IF o.skipApp THEN Once("authApp") ELSE Once("authDefault") \o Rekey)
  \o Once("authApp")
  \o [n \in 1 .. NumFiles |-> <<"createFile", n>>]

Plan(o) == MasterKey(o) \o When(~ o.dry, Application(o))

-----------------------------------------------------------------------------
(* What the card does with a command: s is the card, who is authenticated, *)
(* and whether all went well.                                              *)

Refused(s) == [s EXCEPT !.auth = "nobody", !.ok = FALSE]
Authenticated(s, who, matches) ==
  IF matches THEN [s EXCEPT !.auth = who] ELSE Refused(s)
Written(s, allowed, c) == IF allowed THEN [s EXCEPT !.card = c] ELSE Refused(s)

\* Changing the key one is authenticated with ends the authentication; any
\* other key is changed by the difference to the old one, which must be right.
NewKey(s, i, uid) ==
  IF s.auth = "app" /\ (i = 0 \/ s.card.keys[i] = NullAES)
  THEN [s EXCEPT !.card.keys[i] = AppKey(i, uid),
                 !.auth = IF i = 0 THEN "nobody" ELSE "app"]
  ELSE Refused(s)
PlainNewPiccKey(s, uid) ==                     \* fault: changeKey does not derive
  IF s.auth = "picc"
  THEN [s EXCEPT !.card.picc = Key("picc", FALSE, uid), !.auth = "nobody"]
  ELSE Refused(s)
NewPiccKey(s, uid) ==
  IF s.auth = "picc"
  THEN [s EXCEPT !.card.picc = PiccKey(uid), !.auth = "nobody"]
  ELSE Refused(s)

NoKeys == [i \in KeyIds |-> NullAES]
KeptFiles(c) == [c EXCEPT !.app = FALSE, !.keys = NoKeys]
                                               \* fault: the files stay
Deleted(c) == [c EXCEPT !.app = FALSE, !.keys = NoKeys, !.files = {}]

Does(command, s, o, uid) ==
  LET c == s.card
      op == command[1]
      master == s.auth = "picc"
  IN
  CASE op = "authFactory" -> Authenticated(s, "picc", c.picc = NullDES)
    [] op = "authCurrent" -> Authenticated(s, "picc",
                               c.picc = Key(o.current, TRUE, uid))
    [] op = "authPicc"    -> Authenticated(s, "picc", c.picc = PiccKey(uid))
    [] op = "randomUid"   -> Written(s, master, [c EXCEPT !.random = TRUE])
    [] op = "changePicc"  -> NewPiccKey(s, uid)
    [] op = "setDefault"  -> Written(s, master, c)
    [] op = "deleteApp"   -> Written(s, master /\ c.app, Deleted(c))
    [] op = "deleteOther" -> Written(s, master /\ c.other,
                               [c EXCEPT !.other = FALSE])
    [] op = "createApp"   -> Written(s, master /\ ~ c.app,
                               [c EXCEPT !.app = TRUE, !.keys = NoKeys])
    [] op = "authDefault" -> Authenticated(s, "app",
                               c.app /\ c.keys[0] = NullAES)
    [] op = "authApp"     -> Authenticated(s, "app",
                               c.app /\ c.keys[0] = AppKey(0, uid))
    [] op = "changeKey"   -> NewKey(s, command[2], uid)
    [] op = "createFile"  -> Written(s, s.auth = "app" /\ command[2] \notin c.files,
                               [c EXCEPT !.files = @ \cup {command[2]}])

-----------------------------------------------------------------------------
VARIABLES
  state,    \* the card, who is authenticated, and whether all went well
  running,  \* the tool is running
  options,  \* the options of the run
  uid,      \* _uid of its Adapter
  todo,     \* its commands still to come
  cut       \* a run ended between the random UID and the new PICC key

vars == <<state, running, options, uid, todo, cut>>

\* New from the factory, or prepared before with another PICC key: with the
\* application or without it, its keys the configured ones, others or not yet
\* changed, any files in it, and with another application or without one.
Factory == [picc |-> NullDES, random |-> FALSE, app |-> FALSE,
            keys |-> NoKeys, files |-> {}, other |-> FALSE]
ConfiguredKeys == [i \in KeyIds |-> Key("app", i \in AppDiversify, "real")]
EarlierKeys == [i \in KeyIds |-> Key("earlier", TRUE, "real")]
Prepared ==
  {c \in [picc : {Key("old", TRUE, "real")}, random : {TRUE}, app : BOOLEAN,
          keys : {NoKeys, ConfiguredKeys, EarlierKeys},
          files : SUBSET (1 .. NumFiles), other : BOOLEAN] :
     /\ c.app \/ c.keys = NoKeys
     /\ c.keys = NoKeys => c.files = {}}

Fresh(c) == [card |-> c, auth |-> "nobody", ok |-> TRUE]

Init ==
  /\ \E c \in {Factory} \cup Prepared : state = Fresh(c)
  /\ running = FALSE /\ cut = FALSE
  /\ options = NoOptions
  /\ uid = "zeros" /\ todo = <<>>

\* connect(), getUID().
Start ==
  /\ ~ running /\ running' = TRUE
  /\ \E o \in Options :
       options' = o /\ uid' = Uid(o, state.card) /\ todo' = Plan(o)
  /\ UNCHANGED <<state, cut>>

Command ==
  /\ running /\ state.ok /\ todo # <<>>
  /\ state' = Does(Head(todo), state, options, uid)
  /\ todo' = Tail(todo)
  /\ UNCHANGED <<running, options, uid, cut>>

\* A run ends: done, or at a command that failed (errx), or because the card
\* or the tool is gone.
End ==
  /\ running /\ running' = FALSE
  /\ state' = Fresh(state.card)
  /\ options' = NoOptions /\ uid' = "zeros" /\ todo' = <<>>
  /\ cut' = (cut \/ (state.card.random /\ state.card.picc = NullDES))

Next == Start \/ Command \/ End
Spec == Init /\ [][Next]_vars

-----------------------------------------------------------------------------
KeyType == [base : {"des", "aes", "old", "picc", "app", "earlier"},
            uid : Uids \cup {"plain"}]

Operations == {"authFactory", "authCurrent", "authPicc", "randomUid", "changePicc",
               "setDefault", "deleteApp", "deleteOther", "createApp",
               "authDefault", "authApp", "changeKey", "createFile"}

\* Types; and where there is no application there are no keys and no files.
TypeOK ==
  /\ state.card \in [picc : KeyType, random : BOOLEAN, app : BOOLEAN,
                     keys : [KeyIds -> KeyType], files : SUBSET (1 .. NumFiles),
                     other : BOOLEAN]
  /\ state.card.app \/ (state.card.keys = NoKeys /\ state.card.files = {})
  /\ state.auth \in {"nobody", "picc", "app"} /\ state.ok \in BOOLEAN
  /\ running \in BOOLEAN /\ cut \in BOOLEAN
  /\ options \in Options /\ uid \in Uids
  /\ todo \in Seq(Operations \X Nat)

\* Files lie only in an application whose keys are all in place, and key 0,
\* the key all later runs must authenticate with, is never changed before the
\* others: however often a preparation was cut short, an application that
\* takes its configured key 0 holds no default key any more.
KeysBeforeFiles ==
  LET c == state.card
      default == {i \in KeyIds : c.keys[i] = NullAES} IN
  /\ c.files # {} => c.app /\ default = {}
  /\ c.keys[0] # NullAES => default = {}

\* With a diversified PICC key, all keys of a card are made with the UID its
\* PICC key is made with, over any number of runs with different UIDs.
OneUidPerCard ==
  LET c == state.card IN
  PiccDiversify =>
    \A i \in AppDiversify : c.keys[i] # NullAES => c.keys[i].uid = c.picc.uid

\* Keys made with a UID of zeros, which is what the tool takes for the UID of
\* a card that hides its own, come only of a run that ended between hiding it
\* and changing the PICC key.
ZeroKeysNeedACut == state.card.picc = Key("picc", TRUE, "zeros") => cut

\* A run of the commands from s, after each of them: the first that fails ends it.
Continued(s, command, o, u) == IF s.ok THEN Does(command, s, o, u) ELSE s
After(s, commands, o, u) ==
  LET after[n \in 0 .. Len(commands)] ==
        IF n = 0 THEN s ELSE Continued(after[n - 1], commands[n], o, u)
  IN  after
Final(c, o) == LET t == Plan(o) IN After(Fresh(c), t, o, Uid(o, c))[Len(t)]

Remedies ==
  {o \in Options : /\ ~ (o.dry \/ o.skipApp \/ o.skipCreation)
                   /\ o.deleteApps = "none"}

\* After any number of runs that ended anywhere there are options with which
\* the tool prepares the card completely.
Recoverable ==
  ~ running => \E o \in Remedies : Final(state.card, o).ok
=============================================================================
