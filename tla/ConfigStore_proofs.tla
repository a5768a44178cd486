------------------------- MODULE ConfigStore_proofs -------------------------
(***************************************************************************)
(* Theorems about the configuration store, for any documents and values on *)
(* any platform: a device at rest that is clean runs with what it was      *)
(* asked to keep, or that as the firmware adjusts it, and has it in its    *)
(* file; and cut writes cost a setting no more than its return to the      *)
(* default, a number its last digits and a list its last entries.          *)
(***************************************************************************)
EXTENDS ConfigStore, TLAPS

------------------------------------------------------------------------------
(* The inductive invariant.                                                 *)

\* A configuration: every setting has a value, the numbers and the list of
\* networks one of their types.
IsConfig(c) ==
    /\ c = [f \in Settings |-> c[f]]
    /\ c["sleep"] \in Nat32 /\ c["rate"] \in Nat32 /\ c["slow"] \in Nat32
    /\ IsList(c["nets"])

\* Who writes: the boot sequence and loop(), or the web task.
Boots   == {"fresh", "embedded", "rewrite"}
Whys(t) == IF t = "loop"
           THEN Boots \cup {"import", "save", "role", "remote", "remoteRole"}
           ELSE {"web"}

\* A write under way, for one of these reasons; once its file is open it has
\* a configuration to write, or what it was given.
IsWrite(w, whys) ==
    /\ w = [why |-> w.why, at |-> w.at, doc |-> w.doc, mixed |-> w.mixed]
    /\ w.why \in whys
    /\ w.at \in {"open", "flush"}
    /\ w.mixed \in BOOLEAN
    /\ IsDocument(w.doc)
    /\ w.at = "flush" /\ ~Given(w) => IsConfig(w.doc)
    /\ w.why = "embedded" => w.doc = Embedded

StoreTypeOK ==
    /\ IsConfig(ram)
    /\ file = NoFile \/ IsDocument(file)
    /\ writing = [t \in Tasks |-> writing[t]]
    /\ \A t \in Tasks : writing[t] = Idle \/ IsWrite(writing[t], Whys(t))
    /\ console = [mode |-> console.mode, dirty |-> console.dirty,
                  pasting |-> console.pasting]
    /\ console.dirty \in BOOLEAN
    /\ console.mode = "kiss" => ~console.dirty
    /\ phase \in {"boot", "running", "halt"}
    /\ cut \in BOOLEAN
    /\ \A w \in wanted : IsConfig(w)
    /\ wanted # {}

\* While the device boots, only the boot sequence writes.
BootAlone ==
    /\ phase = "boot" => ~up /\ ~Busy("web") /\ ~console.dirty
    /\ phase = "boot" /\ Busy("loop")
          => Booting(writing["loop"]) /\ ~writing["loop"].mixed
    /\ Booting(writing["loop"]) => phase = "boot"

\* Two writes that are in the file at once both know it.
BothMixed ==
    Flushing("loop") /\ Flushing("web")
        => writing["loop"].mixed /\ writing["web"].mixed

\* While a save is under way, what is in RAM was asked for.
SaveAsked == writing["loop"].why = "save" => ram \in wanted

\* What the file means to the next boot.
MeaningOf(f) == IF f = NoFile THEN Default ELSE Meaning(f)

\* This configuration, given or adjusted.
Same(c, w) == c = w \/ c = Adjusted(w)

\* The file, a clean RAM and a rewrite of the boot all mean this.
AllMean(w) ==
    /\ ~Flushing("loop") /\ ~Flushing("web") => Same(MeaningOf(file), w)
    /\ phase = "running" /\ ~console.dirty => Same(ram, w)
    /\ Booting(writing["loop"]) => Same(Meaning(Output(writing["loop"])), w)

\* When one configuration is all that was asked for, and no write was cut,
\* everything means it.
OneMeaning == ~cut => \A w \in wanted : wanted = {w} => AllMean(w)

FileThere == phase = "running" /\ ~cut => file # NoFile

\* What a file may hold of a setting that was given v: the value, the one it
\* was adjusted to, and after cuts what is left of those, adjusted or not.
Worn(f, v, h) == Borne(f, v, h) \cup (IF h THEN Spoiled(f, v) ELSE {})

\* Every setting of this configuration was asked for, or is the default,
\* adjusted or worn by cuts: as RAM has it, or as a file may.
Harmless(c, ws, h) ==
    \A f \in Settings : \E w \in ws \cup {Default} : c[f] \in Borne(f, w[f], h)

Legible(c, ws, h) ==
    \A f \in Settings : \E w \in ws \cup {Default} : c[f] \in Worn(f, w[f], h)

AllHarmless ==
    /\ Legible(MeaningOf(file), wanted, cut)
    /\ phase = "running" /\ ~console.dirty => Harmless(ram, wanted, cut)
    /\ Booting(writing["loop"])
          => Legible(Meaning(Output(writing["loop"])), wanted, cut)

IInv ==
    /\ StoreTypeOK
    /\ BootAlone
    /\ BothMixed
    /\ SaveAsked
    /\ OneMeaning
    /\ FileThere
    /\ AllHarmless

------------------------------------------------------------------------------
(* Values: lists, and what a device accepts.                                *)

\* A list without entries, and one with a single entry.
LEMMA ShortLists ==
    /\ IsList(<<>>)
    /\ \A s, p : s # "" => IsList(<<[ssid |-> s, password |-> p]>>)
<1>1. IsList(<<>>)
  <2>1. 0 \in 0 .. 5 /\ <<>> = [i \in 1 .. 0 |-> <<>>[i]]
    BY SMT
  <2>2. \A i \in 1 .. 0 : FALSE
    BY SMT
  <2>3. QED
    BY <2>1, <2>2, Zenon DEF IsList
<1>2. ASSUME NEW s, NEW p, s # ""
      PROVE  IsList(<<[ssid |-> s, password |-> p]>>)
  <2> DEFINE r == [ssid |-> s, password |-> p]
             u == <<r>>
  <2>1. 1 \in 0 .. 5 /\ u = [i \in 1 .. 1 |-> u[i]] /\ u[1] = r
    BY SMT
  <2>2. DOMAIN r = {"ssid", "password"} /\ r.ssid # ""
    BY <1>2, Zenon
  <2>3. \A i \in 1 .. 1 : i = 1
    BY SMT
  <2> HIDE DEF r, u
  <2>4. \A i \in 1 .. 1 : DOMAIN u[i] = {"ssid", "password"} /\ u[i].ssid # ""
    BY <2>1, <2>2, <2>3
  <2>5. IsList(u)
    BY <2>1, <2>4, Zenon DEF IsList
  <2>6. QED
    BY <2>5 DEF u, r
<1>3. QED
  BY <1>1, <1>2

\* An entry without its password keeps its name.
LEMMA Blanked ==
    ASSUME NEW s, NEW r, r = [ssid |-> s, password |-> ""]
    PROVE  DOMAIN r = {"ssid", "password"} /\ r.ssid = s
BY Zenon

\* A shorter list is left of the list, with its last password or without.
LEMMA ShorterIsLeft ==
    ASSUME NEW v, NEW m \in {0} \cup DOMAIN v, NEW open \in BOOLEAN
    PROVE  Shorter(v, m, open) \in Broken(v)
<1>1. Shorter(v, m, open) \in {Shorter(v, m, o) : o \in BOOLEAN}
  BY Zenon
<1>2. QED
  BY <1>1, Zenon DEF Broken

\* What is left of a list is one, and what is left of that was left already.
LEMMA BrokenTwice ==
    ASSUME NEW v, IsList(v), NEW u \in Broken(v)
    PROVE  IsList(u) /\ Broken(u) \subseteq Broken(v)
<1>1. PICK n \in 0 .. 5 :
         /\ v = [i \in 1 .. n |-> v[i]]
         /\ \A i \in 1 .. n :
               DOMAIN v[i] = {"ssid", "password"} /\ v[i].ssid # ""
  BY Zenon DEF IsList
<1>2. PICK m \in {0} \cup DOMAIN v, open \in BOOLEAN :
         u = Shorter(v, m, open)
  BY Zenon DEF Broken
<1>3. DOMAIN v = 1 .. n
  BY <1>1, Zenon
<1>4. m \in 0 .. 5 /\ m <= n /\ m \in Nat
  BY <1>3, SMT
<1>5. \A i \in 1 .. m : i \in 1 .. n
  BY <1>4, SMT
<1>6. /\ DOMAIN u = 1 .. m
      /\ \A i \in 1 .. m : u[i] = IF open /\ i = m
             THEN [ssid |-> v[i].ssid, password |-> ""] ELSE v[i]
  BY <1>2, Zenon DEF Shorter
<1>7. ASSUME NEW i \in 1 .. m
      PROVE  /\ DOMAIN u[i] = {"ssid", "password"} /\ u[i].ssid # ""
             /\ u[i].ssid = v[i].ssid
  <2>1. DOMAIN v[i] = {"ssid", "password"} /\ v[i].ssid # ""
    BY <1>1, <1>5
  <2>2. CASE open /\ i = m
    <3>1. u[i] = [ssid |-> v[i].ssid, password |-> ""]
      BY <1>6, <2>2
    <3>2. QED
      BY <2>1, <3>1, Blanked
  <2>3. CASE ~(open /\ i = m)
    <3>1. u[i] = v[i]
      BY <1>6, <2>3
    <3>2. QED
      BY <2>1, <3>1
  <2>4. QED
    BY <2>2, <2>3
<1>8. u = [i \in 1 .. m |-> u[i]]
  BY <1>2, <1>6, Zenon DEF Shorter
<1>9. IsList(u)
  BY <1>4, <1>7, <1>8, Zenon DEF IsList
<1>10. ASSUME NEW x \in Broken(u) PROVE x \in Broken(v)
  <2>1. PICK k \in {0} \cup DOMAIN u, more \in BOOLEAN :
           x = Shorter(u, k, more)
    BY Zenon DEF Broken
  <2>2. k \in {0} \cup DOMAIN v /\ k \in Nat /\ k <= m
    <3>1. DOMAIN u = 1 .. m /\ k \in {0} \cup DOMAIN u
      BY <1>6
    <3>2. QED
      BY <1>3, <1>4, <3>1, SMT
  <2>3. \A i \in 1 .. k : i \in 1 .. m /\ (i = m => i = k)
    BY <1>4, <2>2, SMT
  <2> DEFINE both == more \/ (open /\ k = m)
  <2>4. ASSUME NEW i \in 1 .. k
        PROVE  (IF more /\ i = k
                THEN [ssid |-> u[i].ssid, password |-> ""] ELSE u[i])
                  = IF both /\ i = k
                    THEN [ssid |-> v[i].ssid, password |-> ""] ELSE v[i]
    <3>1. i \in 1 .. m /\ (i = m => i = k)
      BY <2>3
    <3>2. CASE more /\ i = k
      BY <1>7, <3>1, <3>2, Zenon
    <3>3. CASE ~(more /\ i = k) /\ open /\ i = m
      BY <1>6, <3>1, <3>3, Zenon
    <3>4. CASE ~(more /\ i = k) /\ ~(open /\ i = m)
      BY <1>6, <3>1, <3>4, Zenon
    <3>5. QED
      BY <3>2, <3>3, <3>4
  <2>5. both \in BOOLEAN
    BY <2>1, <1>2
  <2> HIDE DEF both
  <2>6. x = Shorter(v, k, both)
    BY <2>1, <2>4, Zenon DEF Shorter
  <2>7. QED
    BY <2>2, <2>5, <2>6, ShorterIsLeft
<1>11. QED
  BY <1>9, <1>10

\* Of one network a cut leaves the name.
LEMMA NameIsLeft ==
    ASSUME NEW s, NEW p
    PROVE  <<[ssid |-> s, password |-> ""]>>
              \in Broken(<<[ssid |-> s, password |-> p]>>)
<1> DEFINE v == <<[ssid |-> s, password |-> p]>>
           u == <<[ssid |-> s, password |-> ""]>>
<1>1. 1 \in DOMAIN v /\ v[1].ssid = s
  BY SMT
<1>2. u = [i \in 1 .. 1 |-> u[i]] /\ u[1] = [ssid |-> s, password |-> ""]
  BY SMT
<1>3. \A i \in 1 .. 1 : i = 1
  BY SMT
<1> HIDE DEF u, v
<1>4. \A i \in 1 .. 1 : u[i] = IF TRUE /\ i = 1
         THEN [ssid |-> v[i].ssid, password |-> ""] ELSE v[i]
  BY <1>1, <1>2, <1>3, Zenon
<1>5. u = Shorter(v, 1, TRUE)
  BY <1>2, <1>4, Zenon DEF Shorter
<1>6. u \in Broken(v)
  BY <1>1, <1>5, ShorterIsLeft
<1>7. QED
  BY <1>6 DEF u, v

\* What a device settles on, it accepts.
LEMMA FitFacts ==
    ASSUME NEW n \in Nat32
    PROVE  /\ Fit(n) \in Nat32 /\ Fit(Fit(n)) = Fit(n)
           /\ Upgraded(n) \in Nat32 /\ Upgraded(Upgraded(n)) = Upgraded(n)
BY SMT DEF Fit, Upgraded, Nat32

------------------------------------------------------------------------------
(* Documents and what they mean.                                            *)

\* The keys, by name.
LEMMA TheKeys ==
    /\ Keys = {"sleep", "path", "oldPath", "rate", "minutes", "digi",
               "digipeating", "slow", "nets", "ssid", "password", "role", "remote"}
    /\ Settings \subseteq Keys
<1>1. Len(KeyOrder) = 13
  BY SMT DEF KeyOrder
<1>2. 1 .. 13 = {1, 2, 3, 4, 5, 6, 7, 8, 9, 10, 11, 12, 13}
  BY SMT
<1>3. Keys = {KeyOrder[i] : i \in {1, 2, 3, 4, 5, 6, 7, 8, 9, 10, 11, 12, 13}}
  BY <1>1, <1>2 DEF Keys, FirstKeys
<1>4. /\ KeyOrder[1] = "sleep" /\ KeyOrder[2] = "path" /\ KeyOrder[3] = "oldPath"
      /\ KeyOrder[4] = "rate" /\ KeyOrder[5] = "minutes" /\ KeyOrder[6] = "digi"
      /\ KeyOrder[7] = "digipeating" /\ KeyOrder[8] = "slow"
      /\ KeyOrder[9] = "nets" /\ KeyOrder[10] = "ssid"
      /\ KeyOrder[11] = "password" /\ KeyOrder[12] = "role"
      /\ KeyOrder[13] = "remote"
  BY SMT DEF KeyOrder
<1>5. Keys = {"sleep", "path", "oldPath", "rate", "minutes", "digi",
               "digipeating", "slow", "nets", "ssid", "password", "role", "remote"}
  BY <1>3, <1>4, SMTT(60)
<1>6. QED
  BY <1>5 DEF Settings

\* The defaults are a configuration, and accepted.
LEMMA DefaultIsConfig == IsConfig(Default) /\ Adjusted(Default) = Default
<1>1. /\ Default = [f \in Settings |-> Default[f]]
      /\ Default["rate"] = 900 /\ Default["slow"] = 120
      /\ Default["sleep"] = IF Platform = "tbeam1w" THEN 60 ELSE 29
      /\ Default["nets"] = <<>>
  BY SMT DEF Default, Settings
<1>2. IsConfig(Default)
  <2>1. 900 \in Nat32 /\ 120 \in Nat32 /\ 60 \in Nat32 /\ 29 \in Nat32
    BY SMT DEF Nat32
  <2>2. QED
    BY <1>1, <2>1, ShortLists DEF IsConfig
<1>3. Fit(120) = 120
  BY SMT DEF Fit
<1>4. Upgraded(Default["sleep"]) = Default["sleep"]
  BY <1>1, SMT DEF Upgraded
<1>5. \A f \in Settings : Fitted(f, Default[f]) = Default[f]
  BY <1>1, <1>3, <1>4, SMT DEF Fitted
<1>6. QED
  BY <1>1, <1>2, <1>5, SMT DEF Adjusted

\* Two functions of the settings are the same when their values are.
LEMMA SameFunctions ==
    ASSUME NEW c, NEW d, c = [f \in Settings |-> c[f]],
           d = [f \in Settings |-> d[f]], \A f \in Settings : c[f] = d[f]
    PROVE  c = d
BY SMT

\* A configuration adjusted is one, and adjusted once and for all.
LEMMA AdjustedFacts ==
    ASSUME NEW c, IsConfig(c)
    PROVE  /\ IsConfig(Adjusted(c))
           /\ \A f \in Settings : Adjusted(c)[f] = Fitted(f, c[f])
           /\ Adjusted(Adjusted(c)) = Adjusted(c)
<1> DEFINE a == Adjusted(c)
<1>1. a = [f \in Settings |-> Fitted(f, c[f])]
  BY DEF Adjusted
<1>2. a = [f \in Settings |-> a[f]] /\ \A f \in Settings : a[f] = Fitted(f, c[f])
  BY <1>1, SMT
<1>3. /\ a["slow"] = Fit(c["slow"]) /\ a["sleep"] = Upgraded(c["sleep"])
      /\ a["rate"] = c["rate"] /\ a["nets"] = c["nets"]
  BY <1>2, SMT DEF Fitted, Settings
<1>4. c["slow"] \in Nat32 /\ c["sleep"] \in Nat32
  BY DEF IsConfig
<1>5. IsConfig(a)
  BY <1>2, <1>3, <1>4, FitFacts DEF IsConfig
<1>6. /\ Fitted("slow", a["slow"]) = a["slow"]
      /\ Fitted("sleep", a["sleep"]) = a["sleep"]
  BY <1>3, <1>4, FitFacts, SMT DEF Fitted
<1>7. ASSUME NEW f \in Settings PROVE Fitted(f, a[f]) = a[f]
  <2>1. CASE f = "slow" \/ f = "sleep"
    BY <1>6, <2>1
  <2>2. CASE f # "slow" /\ f # "sleep"
    BY <2>2, SMT DEF Fitted
  <2>3. QED
    BY <2>1, <2>2
<1> HIDE DEF a
<1>8. Adjusted(a) = a
  BY <1>2, <1>7, SMT DEF Adjusted
<1>9. QED
  BY <1>2, <1>5, <1>8 DEF a

\* The settings, one by one.
LEMMA SameSettings ==
    ASSUME NEW c, NEW d, c = [f \in Settings |-> c[f]],
           d = [f \in Settings |-> d[f]],
           c["sleep"] = d["sleep"],
           c["path"] = d["path"], c["rate"] = d["rate"], c["digi"] = d["digi"],
           c["slow"] = d["slow"],
           c["nets"] = d["nets"], c["role"] = d["role"],
           c["remote"] = d["remote"]
    PROVE  c = d
<1>1. \A f \in Settings : c[f] = d[f]
  BY DEF Settings
<1>2. QED
  BY <1>1, SameFunctions, Zenon

\* The network of an older file.
OneNetwork(doc) ==
    IF doc["ssid"] = "" THEN <<>>
    ELSE <<[ssid |-> doc["ssid"], password |-> Value(doc, "password", "")]>>

\* The keys of older firmware, and what they say.
LEMMA OlderValues ==
    /\ DOMAIN OlderKey = {"path", "rate", "digi", "nets"}
    /\ OlderKey["path"] = "oldPath" /\ OlderKey["rate"] = "minutes"
    /\ OlderKey["digi"] = "digipeating" /\ OlderKey["nets"] = "ssid"
    /\ \A doc : /\ Translated("path", doc) = doc["oldPath"]
                /\ Translated("rate", doc) = 60 * doc["minutes"]
                /\ Translated("digi", doc)
                      = IF doc["digipeating"] THEN "wide1" ELSE "off"
                /\ Translated("nets", doc) = OneNetwork(doc)
<1>1. /\ DOMAIN OlderKey = {"path", "rate", "digi", "nets"}
      /\ OlderKey["path"] = "oldPath" /\ OlderKey["rate"] = "minutes"
      /\ OlderKey["digi"] = "digipeating" /\ OlderKey["nets"] = "ssid"
  BY SMT DEF OlderKey
<1>2. ASSUME NEW doc
      PROVE  /\ Translated("path", doc) = doc["oldPath"]
             /\ Translated("rate", doc) = 60 * doc["minutes"]
             /\ Translated("digi", doc)
                   = IF doc["digipeating"] THEN "wide1" ELSE "off"
  BY SMT DEF Translated
<1>3. ASSUME NEW doc PROVE Translated("nets", doc) = OneNetwork(doc)
  BY SMT DEF Translated, OneNetwork
<1>4. QED
  BY <1>1, <1>2, <1>3

\* The value a document gives to each setting.
LEMMA MeaningValues ==
    ASSUME NEW doc
    PROVE  /\ Meaning(doc) = [f \in Settings |-> Meaning(doc)[f]]
           /\ \A f \in Settings : f \in DOMAIN doc => Meaning(doc)[f] = doc[f]
           /\ "path" \notin DOMAIN doc => Meaning(doc)["path"] =
                 IF "oldPath" \in DOMAIN doc THEN doc["oldPath"]
                 ELSE Default["path"]
           /\ "rate" \notin DOMAIN doc => Meaning(doc)["rate"] =
                 IF "minutes" \in DOMAIN doc THEN 60 * doc["minutes"]
                 ELSE Default["rate"]
           /\ "digi" \notin DOMAIN doc => Meaning(doc)["digi"] =
                 IF "digipeating" \in DOMAIN doc
                 THEN IF doc["digipeating"] THEN "wide1" ELSE "off"
                 ELSE Default["digi"]
           /\ "nets" \notin DOMAIN doc => Meaning(doc)["nets"] =
                 IF "ssid" \in DOMAIN doc THEN OneNetwork(doc)
                 ELSE Default["nets"]
           /\ \A f \in {"sleep", "slow", "role", "remote"} :
                 f \notin DOMAIN doc => Meaning(doc)[f] = Default[f]
<1>1. Meaning(doc) = [f \in Settings |-> Meaning(doc)[f]]
  BY SMT DEF Meaning
<1>2. ASSUME NEW f \in Settings
      PROVE  Meaning(doc)[f] =
                IF f \in DOMAIN doc THEN doc[f]
                ELSE IF f \in DOMAIN OlderKey /\ OlderKey[f] \in DOMAIN doc
                     THEN Translated(f, doc)
                ELSE Default[f]
  BY Zenon DEF Meaning
<1>3. /\ "path" \in Settings /\ "rate" \in Settings /\ "digi" \in Settings
      /\ "nets" \in Settings
      /\ "path" \in DOMAIN OlderKey /\ "rate" \in DOMAIN OlderKey
      /\ "digi" \in DOMAIN OlderKey /\ "nets" \in DOMAIN OlderKey
      /\ \A f \in {"sleep", "slow", "role", "remote"} :
            f \in Settings /\ f \notin DOMAIN OlderKey
  BY OlderValues, SMT DEF Settings
<1>4. "path" \notin DOMAIN doc => Meaning(doc)["path"] =
         IF "oldPath" \in DOMAIN doc THEN doc["oldPath"] ELSE Default["path"]
  BY <1>2, <1>3, OlderValues, Zenon
<1>5. "rate" \notin DOMAIN doc => Meaning(doc)["rate"] =
         IF "minutes" \in DOMAIN doc THEN 60 * doc["minutes"]
         ELSE Default["rate"]
  BY <1>2, <1>3, OlderValues, Zenon
<1>6. "digi" \notin DOMAIN doc => Meaning(doc)["digi"] =
         IF "digipeating" \in DOMAIN doc
         THEN IF doc["digipeating"] THEN "wide1" ELSE "off"
         ELSE Default["digi"]
  BY <1>2, <1>3, OlderValues, Zenon
<1>7. "nets" \notin DOMAIN doc => Meaning(doc)["nets"] =
         IF "ssid" \in DOMAIN doc THEN OneNetwork(doc) ELSE Default["nets"]
  BY <1>2, <1>3, OlderValues, Zenon
<1>8. \A f \in {"sleep", "slow", "role", "remote"} :
         f \notin DOMAIN doc => Meaning(doc)[f] = Default[f]
  BY <1>2, <1>3, Zenon
<1>9. \A f \in Settings : f \in DOMAIN doc => Meaning(doc)[f] = doc[f]
  BY <1>2, Zenon
<1>10. QED
  BY <1>1, <1>4, <1>5, <1>6, <1>7, <1>8, <1>9

\* A document of any generation means a configuration.
LEMMA MeaningIsConfig ==
    ASSUME NEW doc, IsDocument(doc)
    PROVE  IsConfig(Meaning(doc))
<1>1. ASSUME NEW k \in {"sleep", "slow"} PROVE Meaning(doc)[k] \in Nat32
  <2>1. k \in Settings /\ Default[k] \in Nat32
    BY <1>1, DefaultIsConfig DEF IsConfig, Settings
  <2>2. k \in DOMAIN doc => doc[k] \in Nat32
    BY <1>1 DEF IsDocument
  <2>3. k \in {"sleep", "slow", "role", "remote"}
    BY <1>1
  <2>4. QED
    BY <2>1, <2>2, <2>3, MeaningValues
<1>2. Meaning(doc)["rate"] \in Nat32
  <2>1. "rate" \in Settings /\ Default["rate"] \in Nat32
    BY DefaultIsConfig DEF IsConfig, Settings
  <2>2. /\ "rate" \in DOMAIN doc => doc["rate"] \in Nat32
        /\ "minutes" \in DOMAIN doc => 60 * doc["minutes"] \in Nat32
    BY DEF IsDocument
  <2>3. QED
    BY <2>1, <2>2, MeaningValues, Zenon
<1>3. IsList(Meaning(doc)["nets"])
  <2>1. "nets" \in Settings /\ IsList(Default["nets"])
    BY DefaultIsConfig DEF IsConfig, Settings
  <2>2. "nets" \in DOMAIN doc => IsList(doc["nets"])
    BY DEF IsDocument
  <2>3. IsList(OneNetwork(doc))
    BY ShortLists DEF OneNetwork
  <2>4. QED
    BY <2>1, <2>2, <2>3, MeaningValues, Zenon
<1>4. QED
  BY <1>1, <1>2, <1>3, MeaningValues DEF IsConfig

\* What readFile() reads is what the document means, adjusted.
LEMMA ReadMeans ==
    ASSUME NEW doc, IsDocument(doc)
    PROVE  Read(doc) = Adjusted(Meaning(doc))
<1>1. /\ Read(doc) = [f \in Settings |-> Read(doc)[f]]
      /\ Read(doc)["sleep"] = Upgraded(Value(doc, "sleep", 29))
      /\ Read(doc)["path"]
            = Value(doc, "path", Value(doc, "oldPath", Default.path))
      /\ Read(doc)["rate"] = ReadRate(doc)
      /\ Read(doc)["digi"] = ReadDigi(doc)
      /\ Read(doc)["slow"] = Fit(Value(doc, "slow", 120))
      /\ Read(doc)["nets"] = ReadNetworks(doc)
      /\ Read(doc)["role"] = Value(doc, "role", Default.role)
      /\ Read(doc)["remote"] = Value(doc, "remote", Default.remote)
  BY SMT DEF Read, Settings
<1>2. /\ Default["rate"] = 900 /\ Default["digi"] = "off"
      /\ Default["nets"] = <<>> /\ Default["slow"] = 120
      /\ Default["sleep"] = IF Platform = "tbeam1w" THEN 60 ELSE 29
  BY SMT DEF Default
<1>3. \A f \in Settings : f \in DOMAIN doc => Meaning(doc)[f] = doc[f]
  BY MeaningValues
<1>4. /\ "sleep" \in Settings /\ "path" \in Settings /\ "rate" \in Settings
      /\ "digi" \in Settings /\ "slow" \in Settings /\ "nets" \in Settings
      /\ "role" \in Settings /\ "remote" \in Settings
  BY DEF Settings
<1> DEFINE a == Adjusted(Meaning(doc))
<1>5. a = [f \in Settings |-> a[f]] /\ \A f \in Settings :
         a[f] = Fitted(f, Meaning(doc)[f])
  BY MeaningIsConfig, AdjustedFacts DEF IsConfig
<1>6. /\ a["sleep"] = Upgraded(Meaning(doc)["sleep"])
      /\ a["slow"] = Fit(Meaning(doc)["slow"])
      /\ a["path"] = Meaning(doc)["path"] /\ a["rate"] = Meaning(doc)["rate"]
      /\ a["digi"] = Meaning(doc)["digi"] /\ a["nets"] = Meaning(doc)["nets"]
      /\ a["role"] = Meaning(doc)["role"]
      /\ a["remote"] = Meaning(doc)["remote"]
  BY <1>4, <1>5, SMT DEF Fitted
<1> HIDE DEF a
<1>7. Read(doc)["sleep"] = a["sleep"]
  <2>1. CASE "sleep" \in DOMAIN doc
    BY <1>1, <1>3, <1>4, <1>6, <2>1, Zenon DEF Value
  <2>2. CASE "sleep" \notin DOMAIN doc
    <3>1. Meaning(doc)["sleep"] = Default["sleep"]
      BY <2>2, MeaningValues
    <3>2. Upgraded(Default["sleep"]) = Upgraded(29)
      BY <1>2, SMT DEF Upgraded
    <3>3. QED
      BY <1>1, <1>6, <2>2, <3>1, <3>2, Zenon DEF Value
  <2>3. QED
    BY <2>1, <2>2
<1>8. Read(doc)["slow"] = a["slow"]
  <2>1. CASE "slow" \in DOMAIN doc
    BY <1>1, <1>3, <1>4, <1>6, <2>1, Zenon DEF Value
  <2>2. CASE "slow" \notin DOMAIN doc
    <3>1. Meaning(doc)["slow"] = Default["slow"]
      BY <2>2, MeaningValues
    <3>2. Value(doc, "slow", 120) = 120
      BY <2>2 DEF Value
    <3>3. QED
      BY <1>1, <1>2, <1>6, <3>1, <3>2
  <2>3. QED
    BY <2>1, <2>2
<1>9. Read(doc)["path"] = a["path"]
  <2>1. CASE "path" \in DOMAIN doc
    BY <1>1, <1>3, <1>4, <1>6, <2>1, Zenon DEF Value
  <2>2. CASE "path" \notin DOMAIN doc
    BY <1>1, <1>6, <2>2, MeaningValues, Zenon DEF Value
  <2>3. QED
    BY <2>1, <2>2
<1>10. Read(doc)["rate"] = a["rate"]
  <2>1. ReadRate(doc) = IF "rate" \in DOMAIN doc THEN doc["rate"]
           ELSE IF "minutes" \in DOMAIN doc THEN doc["minutes"] * 60 ELSE 900
    BY SMT DEF ReadRate, Value
  <2>2. "minutes" \in DOMAIN doc => doc["minutes"] * 60 = 60 * doc["minutes"]
    BY SMT DEF IsDocument
  <2>3. CASE "rate" \in DOMAIN doc
    BY <1>1, <1>3, <1>4, <1>6, <2>1, <2>3, Zenon
  <2>4. CASE "rate" \notin DOMAIN doc
    <3>1. Meaning(doc)["rate"] = IF "minutes" \in DOMAIN doc
             THEN 60 * doc["minutes"] ELSE Default["rate"]
      BY <2>4, MeaningValues, Zenon
    <3>2. ReadRate(doc) = IF "minutes" \in DOMAIN doc
             THEN doc["minutes"] * 60 ELSE 900
      BY <2>1, <2>4
    <3>3. CASE "minutes" \in DOMAIN doc
      BY <1>1, <1>6, <2>2, <3>1, <3>2, <3>3
    <3>4. CASE "minutes" \notin DOMAIN doc
      BY <1>1, <1>2, <1>6, <3>1, <3>2, <3>4
    <3>5. QED
      BY <3>3, <3>4
  <2>5. QED
    BY <2>3, <2>4
<1>11. Read(doc)["digi"] = a["digi"]
  <2>1. CASE "digi" \in DOMAIN doc
    BY <1>1, <1>3, <1>4, <1>6, <2>1, Zenon DEF Value, ReadDigi
  <2>2. CASE "digi" \notin DOMAIN doc /\ "digipeating" \in DOMAIN doc
    BY <1>1, <1>6, <2>2, MeaningValues, Zenon DEF Value, ReadDigi
  <2>3. CASE "digi" \notin DOMAIN doc /\ "digipeating" \notin DOMAIN doc
    <3>1. Meaning(doc)["digi"] = Default["digi"]
      BY <2>3, MeaningValues, Zenon
    <3>2. ReadDigi(doc) = "off"
      BY <2>3, Zenon DEF Value, ReadDigi
    <3>3. QED
      BY <1>1, <1>2, <1>6, <3>1, <3>2
  <2>4. QED
    BY <2>1, <2>2, <2>3
<1>12. Read(doc)["nets"] = a["nets"]
  <2>1. CASE "nets" \in DOMAIN doc
    BY <1>1, <1>3, <1>4, <1>6, <2>1, Zenon DEF Value, ReadNetworks
  <2>2. CASE "nets" \notin DOMAIN doc /\ "ssid" \in DOMAIN doc
    <3>1. Meaning(doc)["nets"] = OneNetwork(doc)
      BY <2>2, MeaningValues, Zenon
    <3>2. Value(doc, "ssid", "") = doc["ssid"]
      BY <2>2, Zenon DEF Value
    <3>3. ReadNetworks(doc) = OneNetwork(doc)
      BY <2>2, <3>2, SMT DEF Value, ReadNetworks, OneNetwork
    <3>4. QED
      BY <1>1, <1>6, <3>1, <3>3
  <2>3. CASE "nets" \notin DOMAIN doc /\ "ssid" \notin DOMAIN doc
    <3>1. ReadNetworks(doc) = <<>>
      BY <2>3, SMT DEF Value, ReadNetworks
    <3>2. Meaning(doc)["nets"] = Default["nets"]
      BY <2>3, MeaningValues, Zenon
    <3>3. QED
      BY <1>1, <1>2, <1>6, <3>1, <3>2
  <2>4. QED
    BY <2>1, <2>2, <2>3
<1>13. ASSUME NEW f \in {"role", "remote"}
       PROVE  Value(doc, f, Default[f]) = Meaning(doc)[f]
  BY <1>3, <1>4, <1>13, MeaningValues DEF Value
<1>14. Read(doc)["role"] = a["role"] /\ Read(doc)["remote"] = a["remote"]
  BY <1>1, <1>6, <1>13
<1>15. Read(doc) = a
  BY <1>1, <1>5, <1>7, <1>8, <1>9, <1>10, <1>11, <1>12, <1>14, SameSettings, Zenon
<1>16. QED
  BY <1>15 DEF a

\* A configuration written out means itself.
LEMMA DocumentMeans ==
    ASSUME NEW c, IsConfig(c)
    PROVE  Document(c) = c /\ IsDocument(c) /\ Meaning(c) = c
<1>1. Document(c) = c
  BY SMT DEF Document, Restrict, IsConfig
<1>2. DOMAIN c = Settings /\ c = [f \in Settings |-> c[f]]
  BY Zenon DEF IsConfig
<1>3. IsDocument(c)
  <2>1. "minutes" \notin Settings
    BY DEF Settings
  <2>2. \A k \in {"sleep", "rate", "slow"} : c[k] \in Nat32
    BY DEF IsConfig
  <2>3. IsList(c["nets"])
    BY DEF IsConfig
  <2>4. DOMAIN c \subseteq Keys
    BY <1>2, TheKeys
  <2>5. QED
    BY <1>2, <2>1, <2>2, <2>3, <2>4 DEF IsDocument
<1>4. Meaning(c) = c
  <2>1. \A f \in Settings : Meaning(c)[f] = c[f]
    BY <1>2, MeaningValues
  <2>2. Meaning(c) = [f \in Settings |-> Meaning(c)[f]]
    BY MeaningValues
  <2>3. QED
    BY <1>2, <2>1, <2>2, SameFunctions
<1>5. QED
  BY <1>1, <1>3, <1>4

\* The embedded document means the defaults.
LEMMA EmbeddedMeans == IsDocument(Embedded) /\ Meaning(Embedded) = Default
<1>1. /\ DOMAIN Embedded = Settings \ {"remote"}
      /\ \A f \in Settings \ {"remote"} : Embedded[f] = Default[f]
  BY SMT DEF Embedded, Restrict
<1>2. IsDocument(Embedded)
  <2>1. "minutes" \notin DOMAIN Embedded
    BY <1>1 DEF Settings
  <2>2. DOMAIN Embedded \subseteq Keys
    BY <1>1, TheKeys
  <2>3. \A k \in {"sleep", "rate", "slow"} : Embedded[k] \in Nat32
    BY <1>1, DefaultIsConfig DEF IsConfig, Settings
  <2>4. IsList(Embedded["nets"])
    BY <1>1, DefaultIsConfig DEF IsConfig, Settings
  <2>5. QED
    BY <2>1, <2>2, <2>3, <2>4 DEF IsDocument
<1>3. Meaning(Embedded) = Default
  <2>1. \A f \in Settings \ {"remote"} : Meaning(Embedded)[f] = Default[f]
    BY <1>1, MeaningValues
  <2>2. Meaning(Embedded)["remote"] = Default["remote"]
    BY <1>1, MeaningValues
  <2>3. QED
    BY <2>1, <2>2, MeaningValues, DefaultIsConfig, SameFunctions, Zenon DEF IsConfig
<1>4. QED
  BY <1>2, <1>3

\* An empty document means the defaults.
LEMMA EmptyMeans == IsDocument(<<>>) /\ Meaning(<<>>) = Default
<1>1. DOMAIN <<>> = {}
  BY SMT
<1>2. IsDocument(<<>>)
  BY <1>1, SMT DEF IsDocument
<1>3. Meaning(<<>>) = Default
  <2>1. \A f \in Settings : Meaning(<<>>)[f] = Default[f]
    BY <1>1, Zenon DEF Meaning
  <2>2. QED
    BY <2>1, MeaningValues, DefaultIsConfig, SameFunctions, Zenon DEF IsConfig
<1>4. QED
  BY <1>2, <1>3

------------------------------------------------------------------------------
(* Cut documents.                                                           *)

\* A number that lost its last digits is a number still.
LEMMA ShortenedInNat32 ==
    ASSUME NEW n \in Nat32, NEW m \in Shortened(n)
    PROVE  m \in Nat32
<1>1. PICK p \in Powers : m = n \div p
  BY SMT DEF Shortened
<1>2. QED
  BY <1>1, SMT DEF Nat32, Powers

\* Digits lost twice are digits lost.
LEMMA ShortenedTwice ==
    ASSUME NEW n \in Nat32, NEW m \in Shortened(n), NEW k \in Shortened(m)
    PROVE  m \in Nat32 /\ k \in Shortened(n)
<1>1. PICK p \in Powers : m = n \div p /\ m # 0
  BY SMT DEF Shortened
<1>2. PICK q \in Powers : k = m \div q /\ k # 0
  BY SMT DEF Shortened
<1>3. m \in Nat32
  BY <1>1, SMT DEF Nat32, Powers
<1>4. \E r \in Powers : k = n \div r
  BY <1>1, <1>2, SMTT(60) DEF Nat32, Powers
<1>5. QED
  BY <1>2, <1>3, <1>4 DEF Shortened

\* So are those lost by the minutes of an older file, then by the seconds.
LEMMA TrimmedTwice ==
    ASSUME NEW n \in Nat32, NEW m \in Trimmed(n)
    PROVE  m \in Nat32 /\ Shortened(m) \subseteq Trimmed(n)
<1>1. \A x \in InMinutes(n) : x \in Nat32
  <2>1. SUFFICES ASSUME NEW j \in Shortened(n \div 60) PROVE 60 * j \in Nat32
    BY DEF InMinutes
  <2>2. n \div 60 \in Nat /\ 60 * (n \div 60) <= n
    BY SMT DEF Nat32
  <2>3. PICK p \in Powers : j = (n \div 60) \div p
    BY SMT DEF Shortened
  <2>4. j \in Nat /\ j <= n \div 60
    BY <2>2, <2>3, SMT DEF Powers
  <2>5. QED
    BY <2>2, <2>4, SMT DEF Nat32
<1>2. CASE m \in Shortened(n)
  <2>1. \A k \in Shortened(m) : m \in Nat32 /\ k \in Shortened(n)
    BY <1>2, ShortenedTwice
  <2>2. m \in Nat32
    BY <1>2, ShortenedInNat32
  <2>3. QED
    BY <2>1, <2>2 DEF Trimmed
<1>3. CASE m \in InMinutes(n)
  BY <1>1, <1>3 DEF Trimmed
<1>4. CASE \E x \in InMinutes(n) : m \in Shortened(x)
  <2>1. PICK x \in InMinutes(n) : m \in Shortened(x)
    BY <1>4
  <2>2. x \in Nat32
    BY <1>1, <2>1
  <2>3. m \in Nat32
    BY <2>1, <2>2, ShortenedInNat32
  <2>4. Shortened(m) \subseteq Shortened(x)
    BY <2>1, <2>2, ShortenedTwice
  <2>5. QED
    BY <2>1, <2>3, <2>4 DEF Trimmed
<1>5. QED
  BY <1>2, <1>3, <1>4 DEF Trimmed

\* A voltage that lost its decimal, and then digits, may lose more.
LEMMA VoltsTwice ==
    ASSUME NEW n \in Nat32, NEW m \in ShortVolts(n)
    PROVE  m \in Nat32 /\ ShortVolts(m) \subseteq ShortVolts(n)
<1>1. n \div 10 \in Nat32 /\ 10 * (n \div 10) <= n
  BY SMT DEF Nat32
<1>2. PICK k \in {n \div 10} \cup Shortened(n \div 10) : m = 10 * k
  BY DEF ShortVolts
<1>3. k \in Nat32 /\ k <= n \div 10
  <2>1. CASE k = n \div 10
    BY <1>1, <2>1, SMT DEF Nat32
  <2>2. CASE k \in Shortened(n \div 10)
    <3>1. PICK p \in Powers : k = (n \div 10) \div p
      BY <2>2, SMT DEF Shortened
    <3>2. QED
      BY <1>1, <3>1, SMT DEF Nat32, Powers
  <2>3. QED
    BY <1>2, <2>1, <2>2
<1>4. m \in Nat32 /\ m \div 10 = k
  BY <1>1, <1>2, <1>3, SMT DEF Nat32
<1>5. Shortened(k) \subseteq Shortened(n \div 10)
  BY <1>1, <1>2, ShortenedTwice
<1>6. {k} \cup Shortened(k) \subseteq {n \div 10} \cup Shortened(n \div 10)
  BY <1>2, <1>5
<1>7. ShortVolts(m) = {10 * j : j \in {k} \cup Shortened(k)}
  BY <1>4 DEF ShortVolts
<1>8. QED
  BY <1>4, <1>6, <1>7, Zenon DEF ShortVolts

\* What a cut leaves of the slow rate, adjusted or not, at any time.
LEMMA SlowTwice ==
    ASSUME NEW n \in Nat32, NEW x \in Worn("slow", n, TRUE)
    PROVE  Shortened(x) \subseteq Worn("slow", n, TRUE)
<1> DEFINE S == Shortened(n) \cup Shortened(Fit(n)) \cup Shortened(10)
<1>1. Worn("slow", n, TRUE) = {n} \cup {Fit(k) : k \in {n} \cup S} \cup S
  BY SMT DEF Worn, Borne, Spoiled, Fitted
<1>2. Fit(n) \in Nat32 /\ 10 \in Nat32
  BY FitFacts, SMT DEF Nat32
<1>3. ASSUME NEW k \in S PROVE k \in Nat32 /\ Shortened(k) \subseteq S
  <2>1. CASE k \in Shortened(n)
    BY <2>1, ShortenedInNat32, ShortenedTwice
  <2>2. CASE k \in Shortened(Fit(n))
    BY <1>2, <2>2, ShortenedInNat32, ShortenedTwice
  <2>3. CASE k \in Shortened(10)
    BY <1>2, <2>3, ShortenedInNat32, ShortenedTwice
  <2>4. QED
    BY <2>1, <2>2, <2>3
<1>4. ASSUME NEW k \in S PROVE Shortened(Fit(k)) \subseteq S
  <2>1. k \in Nat32
    BY <1>3
  <2>2. CASE k < 10
    <3>1. Fit(k) = 10
      BY <2>2 DEF Fit
    <3>2. QED
      BY <3>1
  <2>3. CASE k >= 10 /\ k <= 3600
    <3>1. Fit(k) = k
      BY <2>1, <2>3, SMT DEF Fit, Nat32
    <3>2. QED
      BY <1>3, <3>1
  <2>4. CASE k > 3600
    <3>1. Fit(k) = 3600
      BY <2>1, <2>4, SMT DEF Fit, Nat32
    <3>2. CASE k \in Shortened(n)
      <4>1. PICK p \in Powers : k = n \div p
        BY <3>2, SMT DEF Shortened
      <4>2. n > 3600
        BY <2>4, <4>1, SMT DEF Nat32, Powers
      <4>3. Fit(n) = 3600
        BY <4>2, SMT DEF Fit, Nat32
      <4>4. QED
        BY <3>1, <4>3
    <3>3. CASE k \in Shortened(Fit(n)) \/ k \in Shortened(10)
      <4>1. PICK p \in Powers : k = Fit(n) \div p \/ k = 10 \div p
        BY <3>3, SMT DEF Shortened
      <4>2. Fit(n) <= 3600
        BY SMT DEF Fit, Nat32
      <4>3. k <= 3600
        BY <1>2, <4>1, <4>2, SMT DEF Nat32, Powers
      <4>4. QED
        BY <2>1, <2>4, <4>3, SMT DEF Nat32
    <3>4. QED
      BY <3>2, <3>3
  <2>5. QED
    BY <2>1, <2>2, <2>3, <2>4, SMT DEF Nat32
<1> HIDE DEF S
<1>5. Shortened(n) \subseteq S /\ Shortened(Fit(n)) \subseteq S
  BY DEF S
<1>6. CASE x = n \/ x = Fit(n)
  BY <1>1, <1>5, <1>6
<1>7. CASE x \in S
  BY <1>1, <1>3, <1>7
<1>8. CASE \E k \in S : x = Fit(k)
  BY <1>1, <1>4, <1>8
<1>9. QED
  BY <1>1, <1>6, <1>7, <1>8

\* What a cut leaves of the sleep voltage, adjusted or not, at any time.
LEMMA SleepTwice ==
    ASSUME NEW n \in Nat32, NEW x \in Worn("sleep", n, TRUE)
    PROVE  ShortVolts(x) \subseteq Worn("sleep", n, TRUE)
<1> DEFINE S == ShortVolts(n) \cup ShortVolts(Upgraded(n))
<1>1. Worn("sleep", n, TRUE) = {n} \cup {Upgraded(k) : k \in {n} \cup S} \cup S
  BY SMT DEF Worn, Borne, Spoiled, Fitted
<1>2. Upgraded(n) \in Nat32
  BY FitFacts
<1>3. ASSUME NEW k \in S PROVE k \in Nat32 /\ ShortVolts(k) \subseteq S
  <2>1. CASE k \in ShortVolts(n)
    BY <2>1, VoltsTwice
  <2>2. CASE k \in ShortVolts(Upgraded(n))
    BY <1>2, <2>2, VoltsTwice
  <2>3. QED
    BY <2>1, <2>2
<1>4. ASSUME NEW k \in S
      PROVE  ShortVolts(Upgraded(k)) \subseteq S \cup {Upgraded(k)}
  <2>1. CASE Upgraded(k) = k
    BY <1>3, <2>1
  <2>2. CASE Upgraded(k) # k
    <3>1. Upgraded(k) = 60
      BY <2>2 DEF Upgraded
    <3>2. 60 \div 10 = 6 /\ \A p \in Powers : 6 \div p = 0
      BY SMT DEF Powers
    <3>3. Shortened(60 \div 10) = {}
      BY <3>2 DEF Shortened
    <3>4. ShortVolts(60) = {10 * j : j \in {6}}
      BY <3>2, <3>3 DEF ShortVolts
    <3>5. 10 * 6 = 60
      BY SMT
    <3>6. ShortVolts(60) = {60}
      BY <3>4, <3>5
    <3>7. QED
      BY <3>1, <3>6
  <2>3. QED
    BY <2>1, <2>2
<1> HIDE DEF S
<1>5. ShortVolts(n) \subseteq S /\ ShortVolts(Upgraded(n)) \subseteq S
  BY DEF S
<1>6. CASE x = n \/ x = Upgraded(n)
  BY <1>1, <1>5, <1>6
<1>7. CASE x \in S
  BY <1>1, <1>3, <1>7
<1>8. CASE \E k \in S : x = Upgraded(k)
  BY <1>1, <1>4, <1>8
<1>9. QED
  BY <1>1, <1>6, <1>7, <1>8

\* A value of the kind of a setting.
IsSetting(f, v) ==
    /\ f \in {"sleep", "rate", "slow"} => v \in Nat32
    /\ f = "nets" => IsList(v)

\* The values of a configuration are.
LEMMA ConfigSettings ==
    ASSUME NEW c, IsConfig(c), NEW f \in Settings
    PROVE  IsSetting(f, c[f])
BY DEF IsConfig, IsSetting

\* What a cut leaves of a worn value was left of the value already.
LEMMA WornAgain ==
    ASSUME NEW f \in Settings, NEW v, IsSetting(f, v), NEW h \in BOOLEAN,
           NEW x \in Worn(f, v, h)
    PROVE  x \in Worn(f, v, TRUE) /\ Remains(f, x) \subseteq Worn(f, v, TRUE)
<1>1. x \in Worn(f, v, TRUE)
  BY Zenon DEF Worn, Borne
<1>2. CASE f = "rate"
  <2>1. /\ Worn(f, v, TRUE) = {v} \cup Trimmed(v)
        /\ Remains(f, x) = Shortened(x)
    BY <1>2, SMT DEF Worn, Borne, Spoiled, Fitted, Remains
  <2>2. v \in Nat32
    BY <1>2 DEF IsSetting
  <2>3. CASE x = v
    BY <1>1, <2>1, <2>3 DEF Trimmed
  <2>4. CASE x \in Trimmed(v)
    BY <1>1, <2>1, <2>2, <2>4, TrimmedTwice
  <2>5. QED
    BY <1>1, <2>1, <2>3, <2>4
<1>3. CASE f = "slow"
  <2>1. Remains(f, x) = Shortened(x)
    BY <1>3, SMT DEF Remains
  <2>2. v \in Nat32
    BY <1>3 DEF IsSetting
  <2>3. QED
    BY <1>1, <1>3, <2>1, <2>2, SlowTwice
<1>4. CASE f = "sleep"
  <2>1. Remains(f, x) = ShortVolts(x)
    BY <1>4, SMT DEF Remains
  <2>2. v \in Nat32
    BY <1>4 DEF IsSetting
  <2>3. QED
    BY <1>1, <1>4, <2>1, <2>2, SleepTwice
<1>5. CASE f = "nets"
  <2>1. /\ Worn(f, v, TRUE) = {v} \cup Broken(v)
        /\ Remains(f, x) = Broken(x)
    BY <1>5, SMT DEF Worn, Borne, Spoiled, Fitted, Remains
  <2>2. IsList(v)
    BY <1>5 DEF IsSetting
  <2>3. CASE x = v
    BY <1>1, <2>1, <2>3
  <2>4. CASE x \in Broken(v)
    BY <1>1, <2>1, <2>2, <2>4, BrokenTwice
  <2>5. QED
    BY <1>1, <2>1, <2>3, <2>4
<1>6. CASE f \notin {"rate", "slow", "sleep", "nets"}
  <2>1. f # "minutes"
    BY DEF Settings
  <2>2. Remains(f, x) = {}
    BY <1>6, <2>1, SMT DEF Remains
  <2>3. QED
    BY <1>1, <2>2
<1>7. QED
  BY <1>2, <1>3, <1>4, <1>5, <1>6

\* A worn value is adjusted as it is read, once and for all.
LEMMA WornIsRead ==
    ASSUME NEW f, NEW v, IsSetting(f, v), NEW h \in BOOLEAN,
           NEW x \in Worn(f, v, h)
    PROVE  Fitted(f, x) \in Borne(f, v, h)
<1> DEFINE S == IF h THEN Spoiled(f, v) ELSE {}
<1>1. /\ Borne(f, v, h) = {v} \cup {Fitted(f, y) : y \in {v} \cup S}
      /\ Worn(f, v, h) = {v} \cup {Fitted(f, y) : y \in {v} \cup S} \cup S
  BY Zenon DEF Worn, Borne
<1>2. ASSUME NEW y \in {v} \cup S PROVE Fitted(f, Fitted(f, y)) = Fitted(f, y)
  <2>1. CASE f = "slow"
    <3>1. v \in Nat32 /\ Fit(v) \in Nat32 /\ 10 \in Nat32
      BY <2>1, FitFacts, SMT DEF IsSetting, Nat32
    <3>2. Spoiled(f, v) = Shortened(v) \cup Shortened(Fit(v)) \cup Shortened(10)
      BY <2>1, SMT DEF Spoiled
    <3>3. y \in Nat32
      BY <3>1, <3>2, ShortenedInNat32
    <3>4. \A z : Fitted(f, z) = Fit(z)
      BY <2>1, SMT DEF Fitted
    <3>5. QED
      BY <3>3, <3>4, FitFacts
  <2>2. CASE f = "sleep"
    <3>1. v \in Nat32 /\ Upgraded(v) \in Nat32
      BY <2>2, FitFacts DEF IsSetting
    <3>2. Spoiled(f, v) = ShortVolts(v) \cup ShortVolts(Upgraded(v))
      BY <2>2, SMT DEF Spoiled
    <3>3. y \in Nat32
      BY <3>1, <3>2, VoltsTwice
    <3>4. \A z : Fitted(f, z) = Upgraded(z)
      BY <2>2, SMT DEF Fitted
    <3>5. QED
      BY <3>3, <3>4, FitFacts
  <2>3. CASE f # "slow" /\ f # "sleep"
    BY <2>3, SMT DEF Fitted
  <2>4. QED
    BY <2>1, <2>2, <2>3
<1> HIDE DEF S
<1>3. CASE x \in {v} \cup S
  BY <1>1, <1>3
<1>4. CASE \E y \in {v} \cup S : x = Fitted(f, y)
  BY <1>1, <1>2, <1>4
<1>5. QED
  BY <1>1, <1>3, <1>4

\* What a document that was cut after some key still says.
LEMMA KeptValues ==
    ASSUME NEW doc, IsDocument(doc), NEW n \in 0 .. 13
    PROVE  /\ DOMAIN Kept(doc, n) = DOMAIN doc \cap FirstKeys(n)
           /\ \A k \in DOMAIN Kept(doc, n) : Kept(doc, n)[k] = doc[k]
           /\ IsDocument(Kept(doc, n))
<1>1. DOMAIN Kept(doc, n) = DOMAIN doc \cap FirstKeys(n)
  BY Zenon DEF Kept, Restrict
<1>2. \A k \in DOMAIN Kept(doc, n) : Kept(doc, n)[k] = doc[k]
  BY Zenon DEF Kept, Restrict
<1>3. IsDocument(Kept(doc, n))
  <2> DEFINE d == Kept(doc, n)
  <2>1. \A k \in DOMAIN d : k \in DOMAIN doc /\ d[k] = doc[k]
    BY <1>1, <1>2
  <2> HIDE DEF d
  <2>2. IsDocument(d)
    BY <2>1 DEF IsDocument
  <2>3. QED
    BY <2>2 DEF d
<1>4. QED
  BY <1>1, <1>2, <1>3

\* An older key is kept only with the key that stands for it, and a password
\* only with its network.
LEMMA OlderKeysLater ==
    ASSUME NEW n \in 0 .. 13
    PROVE  /\ "oldPath" \in FirstKeys(n) => "path" \in FirstKeys(n)
           /\ "minutes" \in FirstKeys(n) => "rate" \in FirstKeys(n)
           /\ "digipeating" \in FirstKeys(n) => "digi" \in FirstKeys(n)
           /\ "ssid" \in FirstKeys(n) => "nets" \in FirstKeys(n)
BY SMT DEF FirstKeys, KeyOrder

\* The list a document means holds its one network when it is an older one;
\* a cut may leave it the name.
LEMMA NetworkKept ==
    ASSUME NEW doc, NEW d, "ssid" \in DOMAIN d, d["ssid"] = doc["ssid"],
           \/ "password" \notin DOMAIN d
           \/ "password" \in DOMAIN doc /\ d["password"] = doc["password"]
    PROVE  \/ OneNetwork(d) = OneNetwork(doc)
           \/ OneNetwork(d) \in Broken(OneNetwork(doc))
<1>1. CASE doc["ssid"] = ""
  BY <1>1 DEF OneNetwork
<1>2. CASE doc["ssid"] # "" /\ "password" \in DOMAIN d
  <2>1. Value(d, "password", "") = Value(doc, "password", "")
    BY <1>2 DEF Value
  <2>2. QED
    BY <1>2, <2>1 DEF OneNetwork
<1>3. CASE doc["ssid"] # "" /\ "password" \notin DOMAIN d
  <2>1. Value(d, "password", "") = ""
    BY <1>3 DEF Value
  <2>2. OneNetwork(d) = <<[ssid |-> doc["ssid"], password |-> ""]>>
    BY <1>3, <2>1 DEF OneNetwork
  <2>3. OneNetwork(doc) = <<[ssid |-> doc["ssid"],
                             password |-> Value(doc, "password", "")]>>
    BY <1>3 DEF OneNetwork
  <2>4. QED
    BY <2>2, <2>3, NameIsLeft
<1>4. QED
  BY <1>1, <1>2, <1>3

\* What a cut costs a setting that this document gives the value v.
Loss(doc, f, v) ==
    Remains(f, v) \cup (IF f = "rate" /\ "minutes" \in DOMAIN doc
                        THEN InMinutes(v) ELSE {})

\* Cut after some key, a document says of a setting what it said, or nothing;
\* or it lost the password of an older file's network.
LEMMA KeptSettings ==
    ASSUME NEW doc, IsDocument(doc), NEW n \in 0 .. 13, NEW f \in Settings
    PROVE  \/ Meaning(Kept(doc, n))[f] = Meaning(doc)[f]
           \/ Meaning(Kept(doc, n))[f] = Default[f]
           \/ Meaning(Kept(doc, n))[f] \in Loss(doc, f, Meaning(doc)[f])
<1> DEFINE d == Kept(doc, n)
<1>1. /\ DOMAIN d = DOMAIN doc \cap FirstKeys(n)
      /\ \A k \in DOMAIN d : d[k] = doc[k]
  BY KeptValues
<1>2. /\ "oldPath" \in DOMAIN d /\ "path" \in DOMAIN doc => "path" \in DOMAIN d
      /\ "minutes" \in DOMAIN d /\ "rate" \in DOMAIN doc => "rate" \in DOMAIN d
      /\ "digipeating" \in DOMAIN d /\ "digi" \in DOMAIN doc
            => "digi" \in DOMAIN d
      /\ "ssid" \in DOMAIN d /\ "nets" \in DOMAIN doc => "nets" \in DOMAIN d
  BY <1>1, OlderKeysLater
<1>3. \A k \in DOMAIN d : k \in DOMAIN doc
  BY <1>1
<1> HIDE DEF d
<1>4. CASE f \in DOMAIN d
  <2>1. Meaning(d)[f] = d[f] /\ Meaning(doc)[f] = doc[f]
    BY <1>3, <1>4, MeaningValues
  <2>2. QED
    BY <1>1, <1>4, <2>1 DEF d
<1>5. CASE f \notin DOMAIN d /\ f \in {"sleep", "slow", "role", "remote"}
  <2>1. Meaning(d)[f] = Default[f]
    BY <1>5, MeaningValues
  <2>2. QED
    BY <2>1 DEF d
<1>6. CASE f \notin DOMAIN d /\ f = "path"
  <2>1. CASE "oldPath" \in DOMAIN d
    BY <1>1, <1>2, <1>3, <1>6, <2>1, MeaningValues, Zenon DEF d
  <2>2. CASE "oldPath" \notin DOMAIN d
    BY <1>6, <2>2, MeaningValues, Zenon DEF d
  <2>3. QED
    BY <2>1, <2>2
<1>7. CASE f \notin DOMAIN d /\ f = "rate"
  <2>1. CASE "minutes" \in DOMAIN d
    BY <1>1, <1>2, <1>3, <1>7, <2>1, MeaningValues, Zenon DEF d
  <2>2. CASE "minutes" \notin DOMAIN d
    BY <1>7, <2>2, MeaningValues, Zenon DEF d
  <2>3. QED
    BY <2>1, <2>2
<1>8. CASE f \notin DOMAIN d /\ f = "digi"
  <2>1. CASE "digipeating" \in DOMAIN d
    BY <1>1, <1>2, <1>3, <1>8, <2>1, MeaningValues, Zenon DEF d
  <2>2. CASE "digipeating" \notin DOMAIN d
    BY <1>8, <2>2, MeaningValues, Zenon DEF d
  <2>3. QED
    BY <2>1, <2>2
<1>9. CASE f \notin DOMAIN d /\ f = "nets"
  <2>1. CASE "ssid" \in DOMAIN d
    <3>1. "nets" \notin DOMAIN doc /\ "ssid" \in DOMAIN doc
      BY <1>2, <1>3, <1>9, <2>1
    <3>2. Meaning(d)["nets"] = OneNetwork(d) /\ Meaning(doc)["nets"] = OneNetwork(doc)
      BY <1>9, <2>1, <3>1, MeaningValues, Zenon
    <3>3. \/ OneNetwork(d) = OneNetwork(doc)
          \/ OneNetwork(d) \in Broken(OneNetwork(doc))
      BY <1>1, <1>3, <2>1, NetworkKept
    <3>4. Broken(OneNetwork(doc)) \subseteq Loss(doc, "nets", OneNetwork(doc))
      BY SMT DEF Loss, Remains
    <3>5. QED
      BY <1>9, <3>2, <3>3, <3>4 DEF d
  <2>2. CASE "ssid" \notin DOMAIN d
    BY <1>9, <2>2, MeaningValues, Zenon DEF d
  <2>3. QED
    BY <2>1, <2>2
<1>10. QED
  BY <1>4, <1>5, <1>6, <1>7, <1>8, <1>9 DEF Settings

\* Keys that a cut inside their values leaves something of.
Parts == {"sleep", "rate", "minutes", "slow", "nets"}

\* A document with the cut inside a value: it has a part of that, and the
\* keys before it.
LEMMA ClippedValues ==
    ASSUME NEW doc, IsDocument(doc), NEW n \in 1 .. 13, NEW d \in Clipped(doc, n)
    PROVE  \E k \in Parts \cap DOMAIN doc : \E v \in Remains(k, doc[k]) :
              /\ k \in DOMAIN d
              /\ DOMAIN d = DOMAIN Kept(doc, n)
              /\ d[k] = v
              /\ \A j \in DOMAIN d \ {k} : d[j] = doc[j]
<1> DEFINE k == KeyOrder[n]
<1>1. PICK v \in UNION {Remains(j, doc[j]) : j \in {k} \cap DOMAIN doc} :
         d = [Kept(doc, n) EXCEPT ![k] = v]
  BY Zenon DEF Clipped
<1>2. k \in DOMAIN doc /\ v \in Remains(k, doc[k])
  BY <1>1, Zenon
<1>3. k \in FirstKeys(n)
  BY SMT DEF FirstKeys
<1>4. n \in 0 .. 13
  BY SMT
<1>5. /\ DOMAIN Kept(doc, n) = DOMAIN doc \cap FirstKeys(n)
      /\ \A j \in DOMAIN Kept(doc, n) : Kept(doc, n)[j] = doc[j]
  BY <1>4, KeptValues
<1>6. k \in DOMAIN Kept(doc, n)
  BY <1>2, <1>3, <1>5
<1> HIDE DEF k
<1>7. k \in Parts
  <2>1. k \notin Parts => Remains(k, doc[k]) = {}
    BY SMT DEF Parts, Remains
  <2>2. QED
    BY <1>2, <2>1
<1>8. /\ DOMAIN d = DOMAIN Kept(doc, n) /\ d[k] = v
      /\ \A j \in DOMAIN d \ {k} : d[j] = doc[j]
  BY <1>1, <1>5, <1>6, SMT
<1>9. QED
  BY <1>2, <1>6, <1>7, <1>8

\* A part of a value is of its kind.
LEMMA RemainsKind ==
    ASSUME NEW doc, IsDocument(doc), NEW k \in Parts \cap DOMAIN doc,
           NEW v \in Remains(k, doc[k])
    PROVE  /\ k \in {"sleep", "rate", "slow"} => v \in Nat32
           /\ k = "minutes" => /\ 60 * v \in InMinutes(60 * doc["minutes"])
                               /\ v \in Nat /\ 60 * v \in Nat32
           /\ k = "nets" => IsList(v)
<1>1. CASE k = "rate" \/ k = "slow"
  <2>1. doc[k] \in Nat32
    BY <1>1 DEF IsDocument
  <2>2. Remains(k, doc[k]) = Shortened(doc[k])
    BY <1>1, SMT DEF Remains
  <2>3. QED
    BY <1>1, <2>1, <2>2, ShortenedInNat32
<1>2. CASE k = "sleep"
  <2>1. doc[k] \in Nat32
    BY <1>2 DEF IsDocument
  <2>2. Remains(k, doc[k]) = ShortVolts(doc[k])
    BY <1>2, SMT DEF Remains
  <2>3. QED
    BY <1>2, <2>1, <2>2, VoltsTwice
<1>3. CASE k = "minutes"
  <2>1. doc["minutes"] \in Nat /\ 60 * doc["minutes"] \in Nat32
    BY <1>3 DEF IsDocument
  <2>2. (60 * doc["minutes"]) \div 60 = doc["minutes"]
    BY <2>1, SMT
  <2>3. Remains(k, doc[k]) = Shortened(doc["minutes"])
    BY <1>3, SMT DEF Remains
  <2>4. 60 * v \in InMinutes(60 * doc["minutes"])
    BY <1>3, <2>2, <2>3 DEF InMinutes
  <2>5. PICK p \in Powers : v = doc["minutes"] \div p
    BY <1>3, <2>3, SMT DEF Shortened
  <2>6. v \in Nat /\ v <= doc["minutes"]
    BY <2>1, <2>5, SMT DEF Powers
  <2>7. 60 * v \in Nat32
    BY <2>1, <2>6, SMT DEF Nat32
  <2>8. QED
    BY <1>3, <2>4, <2>6, <2>7
<1>4. CASE k = "nets"
  <2>1. IsList(doc["nets"])
    BY <1>4 DEF IsDocument
  <2>2. Remains(k, doc[k]) = Broken(doc["nets"])
    BY <1>4, SMT DEF Remains
  <2>3. QED
    BY <1>4, <2>1, <2>2, BrokenTwice
<1>5. QED
  BY <1>1, <1>2, <1>3, <1>4 DEF Parts

\* Cut inside a value, a document still means a configuration ...
LEMMA ClippedIsDocument ==
    ASSUME NEW doc, IsDocument(doc), NEW n \in 1 .. 13, NEW d \in Clipped(doc, n)
    PROVE  IsDocument(d)
<1>1. PICK k \in Parts \cap DOMAIN doc : \E v \in Remains(k, doc[k]) :
              /\ k \in DOMAIN d
              /\ DOMAIN d = DOMAIN Kept(doc, n)
              /\ d[k] = v
              /\ \A j \in DOMAIN d \ {k} : d[j] = doc[j]
  BY ClippedValues
<1>2. PICK v \in Remains(k, doc[k]) :
              /\ DOMAIN d = DOMAIN Kept(doc, n)
              /\ d[k] = v
              /\ \A j \in DOMAIN d \ {k} : d[j] = doc[j]
  BY <1>1
<1>3. n \in 0 .. 13
  BY SMT
<1>4. DOMAIN d \subseteq Keys /\ DOMAIN d \subseteq DOMAIN doc
  BY <1>2, <1>3, KeptValues DEF IsDocument
<1>5. /\ k \in {"sleep", "rate", "slow"} => v \in Nat32
      /\ k = "minutes" => v \in Nat /\ 60 * v \in Nat32
      /\ k = "nets" => IsList(v)
  BY RemainsKind
<1>6. \A j \in {"sleep", "rate", "slow"} \cap DOMAIN d : d[j] \in Nat32
  BY <1>2, <1>4, <1>5 DEF IsDocument
<1>7. "minutes" \in DOMAIN d => d["minutes"] \in Nat /\ 60 * d["minutes"] \in Nat32
  BY <1>2, <1>4, <1>5 DEF IsDocument
<1>8. "nets" \in DOMAIN d => IsList(d["nets"])
  BY <1>2, <1>4, <1>5 DEF IsDocument
<1>9. QED
  BY <1>4, <1>6, <1>7, <1>8, Zenon DEF IsDocument

\* Two documents with the same keys say the same of a setting when its own
\* value is the same, or those of the older keys are.
LEMMA SameMeaning ==
    ASSUME NEW d, NEW e, DOMAIN d = DOMAIN e, NEW f \in Settings,
           f \in DOMAIN d => d[f] = e[f],
           f \notin DOMAIN d =>
              \A j \in {"oldPath", "digipeating", "ssid", "password"} :
                 j \in DOMAIN d => d[j] = e[j],
           f = "rate" /\ f \notin DOMAIN d /\ "minutes" \in DOMAIN d
              => d["minutes"] = e["minutes"]
    PROVE  Meaning(d)[f] = Meaning(e)[f]
<1>1. CASE f \in DOMAIN d
  BY <1>1, MeaningValues
<1>2. CASE f \notin DOMAIN d /\ f \in {"sleep", "slow", "role", "remote"}
  BY <1>2, MeaningValues
<1>3. CASE f \notin DOMAIN d /\ f = "path"
  <2>1. "oldPath" \in DOMAIN d => d["oldPath"] = e["oldPath"]
    BY <1>3
  <2>2. CASE "oldPath" \in DOMAIN d
    BY <1>3, <2>1, <2>2, MeaningValues, Zenon
  <2>3. CASE "oldPath" \notin DOMAIN d
    BY <1>3, <2>3, MeaningValues, Zenon
  <2>4. QED
    BY <2>2, <2>3
<1>4. CASE f \notin DOMAIN d /\ f = "rate"
  <2>1. CASE "minutes" \in DOMAIN d
    <3>1. d["minutes"] = e["minutes"]
      BY <1>4, <2>1
    <3>2. /\ Meaning(d)["rate"] = 60 * d["minutes"]
          /\ Meaning(e)["rate"] = 60 * e["minutes"]
      BY <1>4, <2>1, MeaningValues, Zenon
    <3>3. QED
      BY <1>4, <3>1, <3>2
  <2>2. CASE "minutes" \notin DOMAIN d
    BY <1>4, <2>2, MeaningValues, Zenon
  <2>3. QED
    BY <2>1, <2>2
<1>5. CASE f \notin DOMAIN d /\ f = "digi"
  <2>1. "digipeating" \in DOMAIN d => d["digipeating"] = e["digipeating"]
    BY <1>5
  <2>2. CASE "digipeating" \in DOMAIN d
    BY <1>5, <2>1, <2>2, MeaningValues, Zenon
  <2>3. CASE "digipeating" \notin DOMAIN d
    BY <1>5, <2>3, MeaningValues, Zenon
  <2>4. QED
    BY <2>2, <2>3
<1>6. CASE f \notin DOMAIN d /\ f = "nets"
  <2>1. /\ "ssid" \in DOMAIN d => d["ssid"] = e["ssid"]
        /\ "password" \in DOMAIN d => d["password"] = e["password"]
    BY <1>6
  <2>2. Value(d, "password", "") = Value(e, "password", "")
    BY <2>1 DEF Value
  <2>3. CASE "ssid" \in DOMAIN d
    <3>1. OneNetwork(d) = OneNetwork(e)
      BY <2>1, <2>2, <2>3 DEF OneNetwork
    <3>2. /\ Meaning(d)["nets"] = OneNetwork(d)
          /\ Meaning(e)["nets"] = OneNetwork(e)
      BY <1>6, <2>3, MeaningValues, Zenon
    <3>3. QED
      BY <1>6, <3>1, <3>2
  <2>4. CASE "ssid" \notin DOMAIN d
    BY <1>6, <2>4, MeaningValues, Zenon
  <2>5. QED
    BY <2>3, <2>4
<1>7. QED
  BY <1>1, <1>2, <1>3, <1>4, <1>5, <1>6 DEF Settings

\* ... with no setting changed but the one the cut fell in.
LEMMA ClippedSettings ==
    ASSUME NEW doc, IsDocument(doc), NEW n \in 1 .. 13, NEW d \in Clipped(doc, n),
           NEW f \in Settings
    PROVE  \/ Meaning(d)[f] = Meaning(Kept(doc, n))[f]
           \/ Meaning(d)[f] \in Loss(doc, f, Meaning(doc)[f])
<1> DEFINE e == Kept(doc, n)
<1>1. PICK k \in Parts \cap DOMAIN doc : \E v \in Remains(k, doc[k]) :
              /\ k \in DOMAIN d
              /\ DOMAIN d = DOMAIN Kept(doc, n)
              /\ d[k] = v
              /\ \A j \in DOMAIN d \ {k} : d[j] = doc[j]
  BY ClippedValues
<1>2. PICK v \in Remains(k, doc[k]) :
              /\ k \in DOMAIN d
              /\ DOMAIN d = DOMAIN e
              /\ d[k] = v
              /\ \A j \in DOMAIN d \ {k} : d[j] = doc[j]
  BY <1>1
<1>3. n \in 0 .. 13
  BY SMT
<1>4. /\ DOMAIN e = DOMAIN doc \cap FirstKeys(n)
      /\ \A j \in DOMAIN e : e[j] = doc[j]
  BY <1>3, KeptValues
<1>5. \A j \in DOMAIN d : j # k => d[j] = e[j]
  BY <1>2, <1>4
<1>6. k = "minutes" /\ "rate" \in DOMAIN doc => "rate" \in DOMAIN d
  BY <1>2, <1>3, <1>4, OlderKeysLater
<1>7. DOMAIN d = DOMAIN e /\ DOMAIN d \subseteq DOMAIN doc
  BY <1>2, <1>4
<1> HIDE DEF e
<1>8. CASE f = k
  <2>1. Meaning(d)[f] = v /\ Meaning(doc)[f] = doc[f]
    BY <1>2, <1>7, <1>8, MeaningValues
  <2>2. v \in Loss(doc, f, doc[f])
    BY <1>8 DEF Loss
  <2>3. QED
    BY <2>1, <2>2
<1>9. CASE f = "rate" /\ k = "minutes" /\ "rate" \notin DOMAIN d
  <2>1. "rate" \notin DOMAIN doc /\ "minutes" \in DOMAIN doc
    BY <1>6, <1>9
  <2>2. Meaning(d)["rate"] = 60 * v /\ Meaning(doc)["rate"] = 60 * doc["minutes"]
    BY <1>2, <1>9, <2>1, MeaningValues, Zenon
  <2>3. 60 * v \in InMinutes(60 * doc["minutes"])
    BY <1>9, RemainsKind
  <2>4. QED
    BY <1>9, <2>1, <2>2, <2>3 DEF Loss
<1>10. CASE f # k /\ ~(f = "rate" /\ k = "minutes" /\ "rate" \notin DOMAIN d)
  <2>1. f \in DOMAIN d => d[f] = e[f]
    BY <1>5, <1>10
  <2>2. \A j \in {"oldPath", "digipeating", "ssid", "password"} : j # k
    BY DEF Parts
  <2>3. \A j \in {"oldPath", "digipeating", "ssid", "password"} :
           j \in DOMAIN d => d[j] = e[j]
    BY <1>5, <2>2
  <2>4. f = "rate" /\ f \notin DOMAIN d /\ "minutes" \in DOMAIN d
           => d["minutes"] = e["minutes"]
    BY <1>5, <1>10
  <2>5. Meaning(d)[f] = Meaning(e)[f]
    BY <1>7, <2>1, <2>3, <2>4, SameMeaning
  <2>6. QED
    BY <2>5 DEF e
<1>11. QED
  BY <1>8, <1>9, <1>10

\* However it was cut, a document is one still, and costs a setting no more
\* than its return to the default, or a part of its value.
LEMMA CutSettings ==
    ASSUME NEW doc, IsDocument(doc), NEW d \in Cut(doc)
    PROVE  /\ IsDocument(d)
           /\ \A f \in Settings :
                 \/ Meaning(d)[f] = Meaning(doc)[f]
                 \/ Meaning(d)[f] = Default[f]
                 \/ Meaning(d)[f] \in Loss(doc, f, Meaning(doc)[f])
<1>1. CASE d = doc
  BY <1>1
<1>2. CASE \E n \in 1 .. 13 : d = Kept(doc, n - 1)
  <2>1. PICK n \in 1 .. 13 : d = Kept(doc, n - 1)
    BY <1>2
  <2>2. n - 1 \in 0 .. 13
    BY SMT
  <2>3. IsDocument(d)
    BY <2>1, <2>2, KeptValues
  <2>4. QED
    BY <2>1, <2>2, <2>3, KeptSettings
<1>3. CASE \E n \in 1 .. 13 : d \in Clipped(doc, n)
  <2>1. PICK n \in 1 .. 13 : d \in Clipped(doc, n)
    BY <1>3
  <2>2. n \in 0 .. 13
    BY SMT
  <2>3. IsDocument(d)
    BY <2>1, ClippedIsDocument
  <2>4. ASSUME NEW f \in Settings
        PROVE  \/ Meaning(d)[f] = Meaning(doc)[f]
               \/ Meaning(d)[f] = Default[f]
               \/ Meaning(d)[f] \in Loss(doc, f, Meaning(doc)[f])
    <3>1. \/ Meaning(d)[f] = Meaning(Kept(doc, n))[f]
          \/ Meaning(d)[f] \in Loss(doc, f, Meaning(doc)[f])
      BY <2>1, ClippedSettings
    <3>2. \/ Meaning(Kept(doc, n))[f] = Meaning(doc)[f]
          \/ Meaning(Kept(doc, n))[f] = Default[f]
          \/ Meaning(Kept(doc, n))[f] \in Loss(doc, f, Meaning(doc)[f])
      BY <2>2, KeptSettings
    <3>3. QED
      BY <3>1, <3>2
  <2>5. QED
    BY <2>3, <2>4
<1>4. d = doc \/ \E n \in 1 .. 13 : d = Kept(doc, n - 1) \/ d \in Clipped(doc, n)
  <2>1. Len(KeyOrder) = 13
    BY SMT DEF KeyOrder
  <2>2. QED
    BY <2>1, Zenon DEF Cut
<1>5. QED
  BY <1>1, <1>2, <1>3, <1>4

------------------------------------------------------------------------------
(* What a cut may do to a configuration.                                    *)

\* What was asked for is harmless, and so is the default.
LEMMA AskedIsHarmless ==
    ASSUME NEW ws, NEW h \in BOOLEAN, NEW c \in ws \cup {Default}
    PROVE  Harmless(c, ws, h) /\ Legible(c, ws, h)
BY Zenon DEF Harmless, Legible, Worn, Borne

\* What is harmless stays so when more is asked for, or more is cut.
LEMMA HarmlessStays ==
    ASSUME NEW c, NEW ws, NEW h \in BOOLEAN,
           NEW vs, NEW g \in BOOLEAN, ws \subseteq vs, h => g
    PROVE  /\ Harmless(c, ws, h) => Harmless(c, vs, g)
           /\ Legible(c, ws, h) => Legible(c, vs, g)
           /\ Harmless(c, ws, h) => Legible(c, vs, g)
<1>1. ASSUME NEW f, NEW v
      PROVE  /\ Borne(f, v, h) \subseteq Borne(f, v, g)
             /\ Worn(f, v, h) \subseteq Worn(f, v, g)
             /\ Borne(f, v, h) \subseteq Worn(f, v, g)
  <2>1. CASE h = g
    BY <2>1 DEF Worn
  <2>2. CASE h = FALSE /\ g = TRUE
    BY <2>2, Zenon DEF Worn, Borne
  <2>3. QED
    BY <2>1, <2>2
<1>2. QED
  BY <1>1 DEF Harmless, Legible

\* What a file may hold is harmless once it is read.
LEMMA LegibleIsRead ==
    ASSUME NEW c, IsConfig(c), NEW ws, \A w \in ws : IsConfig(w),
           NEW h \in BOOLEAN, Legible(c, ws, h)
    PROVE  Harmless(Adjusted(c), ws, h)
<1>1. SUFFICES ASSUME NEW f \in Settings
               PROVE  \E w \in ws \cup {Default} :
                         Adjusted(c)[f] \in Borne(f, w[f], h)
  BY DEF Harmless
<1>2. PICK w \in ws \cup {Default} : c[f] \in Worn(f, w[f], h)
  BY DEF Legible
<1>3. IsConfig(w)
  BY DefaultIsConfig
<1>4. Adjusted(c)[f] = Fitted(f, c[f])
  BY AdjustedFacts
<1>5. Fitted(f, c[f]) \in Borne(f, w[f], h)
  BY <1>2, <1>3, ConfigSettings, WornIsRead
<1>6. QED
  BY <1>4, <1>5

\* A cut does no harm to a document that was asked for ...
LEMMA CutOfAsked ==
    ASSUME NEW doc, IsDocument(doc), NEW d \in Cut(doc),
           NEW ws, Meaning(doc) \in ws \cup {Default}
    PROVE  Legible(Meaning(d), ws, TRUE)
<1>1. SUFFICES ASSUME NEW f \in Settings
               PROVE  \E w \in ws \cup {Default} :
                         Meaning(d)[f] \in Worn(f, w[f], TRUE)
  BY DEF Legible
<1> DEFINE v == Meaning(doc)[f]
<1>2. IsSetting(f, v)
  BY MeaningIsConfig, ConfigSettings
<1>3. /\ v \in Worn(f, v, TRUE)
      /\ Default[f] \in Worn(f, Default[f], TRUE)
  BY Zenon DEF Worn, Borne
<1>4. Remains(f, v) \subseteq Worn(f, v, TRUE)
  BY <1>2, <1>3, WornAgain
<1>5. f = "rate" => InMinutes(v) \subseteq Worn(f, v, TRUE)
  <2>1. f = "rate" => Spoiled(f, v) = Trimmed(v)
    BY SMT DEF Spoiled
  <2>2. InMinutes(v) \subseteq Trimmed(v)
    BY DEF Trimmed
  <2>3. Spoiled(f, v) \subseteq Worn(f, v, TRUE)
    BY Zenon DEF Worn
  <2>4. QED
    BY <2>1, <2>2, <2>3
<1>6. Loss(doc, f, v) \subseteq Worn(f, v, TRUE)
  BY <1>4, <1>5 DEF Loss
<1>7. \/ Meaning(d)[f] = v
      \/ Meaning(d)[f] = Default[f]
      \/ Meaning(d)[f] \in Loss(doc, f, v)
  BY CutSettings
<1> HIDE DEF v
<1>8. CASE Meaning(d)[f] = Default[f]
  BY <1>3, <1>8
<1>9. CASE Meaning(d)[f] # Default[f]
  <2>1. Meaning(d)[f] \in Worn(f, v, TRUE)
    BY <1>3, <1>6, <1>7, <1>9
  <2>2. QED
    BY <2>1 DEF v
<1>10. QED
  BY <1>8, <1>9

\* ... nor to a configuration in which earlier cuts did none.
LEMMA CutOfLegible ==
    ASSUME NEW c, IsConfig(c), NEW d \in Cut(c),
           NEW ws, \A w \in ws : IsConfig(w), NEW h \in BOOLEAN, Legible(c, ws, h)
    PROVE  Legible(Meaning(d), ws, TRUE)
<1>1. SUFFICES ASSUME NEW f \in Settings
               PROVE  \E w \in ws \cup {Default} :
                         Meaning(d)[f] \in Worn(f, w[f], TRUE)
  BY DEF Legible
<1>2. IsDocument(c) /\ Meaning(c) = c
  BY DocumentMeans
<1>3. PICK w \in ws \cup {Default} : c[f] \in Worn(f, w[f], h)
  BY DEF Legible
<1>4. IsSetting(f, w[f])
  BY DefaultIsConfig, ConfigSettings
<1>5. c[f] \in Worn(f, w[f], TRUE) /\ Remains(f, c[f]) \subseteq Worn(f, w[f], TRUE)
  BY <1>3, <1>4, WornAgain
<1>6. "minutes" \notin DOMAIN c
  BY SMT DEF IsConfig, Settings
<1>7. Loss(c, f, c[f]) = Remains(f, c[f])
  BY <1>6 DEF Loss
<1>8. \/ Meaning(d)[f] = c[f]
      \/ Meaning(d)[f] = Default[f]
      \/ Meaning(d)[f] \in Loss(c, f, c[f])
  BY <1>2, CutSettings
<1>9. Default[f] \in Worn(f, Default[f], TRUE)
  BY Zenon DEF Worn, Borne
<1>10. QED
  BY <1>5, <1>7, <1>8, <1>9

------------------------------------------------------------------------------
(* Writes.                                                                  *)

\* No write is a reason of its own.
LEMMA IdleFacts == ~Given(Idle) /\ ~Booting(Idle) /\ Idle.why = "idle"
BY SMT DEF Idle, Given, Booting

\* A write under way is not Idle, and only loop() boots.
LEMMA WriteFacts ==
    ASSUME NEW t \in Tasks, NEW w, IsWrite(w, Whys(t))
    PROVE  /\ w # Idle
           /\ Booting(w) => t = "loop"
           /\ t = "web" => ~Given(w) /\ ~Booting(w)
           /\ IsDocument(w.doc)
           /\ Booting(w) /\ Given(w) => w.doc = Embedded
<1>1. w.why \in Whys(t)
  BY DEF IsWrite
<1>2. w.why # "idle"
  BY <1>1, SMT DEF Whys, Boots
<1>3. w # Idle
  BY <1>2, IdleFacts
<1>4. Booting(w) => t = "loop"
  BY <1>1, SMT DEF Whys, Booting, Tasks
<1>5. t = "web" => ~Given(w) /\ ~Booting(w)
  BY <1>1, SMT DEF Whys, Booting, Given, Tasks
<1>6. Booting(w) /\ Given(w) => w.why = "embedded"
  BY SMT DEF Booting, Given
<1>7. QED
  BY <1>3, <1>4, <1>5, <1>6 DEF IsWrite

\* A record of a write has its fields.
LEMMA WriteRecord ==
    ASSUME NEW x, NEW y, NEW a, NEW d, NEW v,
           x = [why |-> y, at |-> a, doc |-> d, mixed |-> v]
    PROVE  /\ x = [why |-> x.why, at |-> x.at, doc |-> x.doc, mixed |-> x.mixed]
           /\ x.why = y /\ x.at = a /\ x.doc = d /\ x.mixed = v
BY SMT

\* A new write is one.
LEMMA NewWrite ==
    ASSUME NEW t \in Tasks, NEW why, why \in Whys(t),
           NEW doc, IsDocument(doc), why = "embedded" => doc = Embedded
    PROVE  /\ IsWrite(Write(why, doc), Whys(t))
           /\ Write(why, doc).why = why /\ Write(why, doc).at = "open"
           /\ Write(why, doc).doc = doc /\ Write(why, doc).mixed = FALSE
<1> DEFINE w == Write(why, doc)
<1>1. w = [why |-> why, at |-> "open", doc |-> doc, mixed |-> FALSE]
  BY DEF Write
<1> HIDE DEF w
<1>2. /\ w = [why |-> w.why, at |-> w.at, doc |-> w.doc, mixed |-> w.mixed]
      /\ w.why = why /\ w.at = "open" /\ w.doc = doc /\ w.mixed = FALSE
  BY <1>1, WriteRecord
<1>3. IsWrite(w, Whys(t))
  BY <1>2, Zenon DEF IsWrite
<1>4. QED
  BY <1>2, <1>3 DEF w

\* What a write puts in the file when Config is c.
OutputOf(w, c) ==
    IF Given(w) \/ w.at = "flush" THEN w.doc ELSE Document(c)

\* What it means.
LEMMA OutputMeans ==
    ASSUME NEW w, NEW whys, IsWrite(w, whys), NEW c, IsConfig(c)
    PROVE  /\ IsDocument(OutputOf(w, c))
           /\ IsConfig(Meaning(OutputOf(w, c)))
           /\ ~Given(w) => /\ IsConfig(OutputOf(w, c))
                           /\ Meaning(OutputOf(w, c)) = OutputOf(w, c)
           /\ w.at = "open" /\ ~Given(w) => OutputOf(w, c) = c
           /\ w.at = "flush" \/ Given(w) => OutputOf(w, c) = w.doc
<1>1. Document(c) = c /\ IsDocument(c) /\ Meaning(c) = c
  BY DocumentMeans
<1>2. /\ IsDocument(w.doc) /\ w.at \in {"open", "flush"}
      /\ w.at = "flush" /\ ~Given(w) => IsConfig(w.doc)
  BY Zenon DEF IsWrite
<1>3. CASE Given(w)
  BY <1>2, <1>3, MeaningIsConfig DEF OutputOf
<1>4. CASE ~Given(w) /\ w.at = "flush"
  <2>1. OutputOf(w, c) = w.doc /\ IsConfig(w.doc)
    BY <1>2, <1>4 DEF OutputOf
  <2>2. IsDocument(w.doc) /\ Meaning(w.doc) = w.doc
    BY <2>1, DocumentMeans
  <2>3. QED
    BY <1>4, <2>1, <2>2
<1>5. CASE ~Given(w) /\ w.at # "flush"
  <2>1. OutputOf(w, c) = c
    BY <1>1, <1>5 DEF OutputOf
  <2>2. QED
    BY <1>1, <1>5, <2>1
<1>6. QED
  BY <1>3, <1>4, <1>5

\* A write whose file is opened, alone or beside another one: its document is
\* made, or stays as it was.
LEMMA OpenedWrite ==
    ASSUME NEW t \in Tasks, NEW w, IsWrite(w, Whys(t)), NEW b, b \in BOOLEAN,
           IsConfig(ram)
    PROVE  /\ IsWrite(Opened(w, b), Whys(t))
           /\ Opened(w, b).why = w.why /\ Opened(w, b).doc = Output(w)
           /\ Opened(w, b).at = "flush" /\ Opened(w, b).mixed = b
<1> DEFINE x == Opened(w, b)
<1>1. x = [why |-> w.why, at |-> "flush", doc |-> Output(w), mixed |-> b]
  BY DEF Opened
<1>2. Output(w) = OutputOf(w, ram)
  BY DEF Output, OutputOf
<1>3. /\ IsDocument(Output(w))
      /\ ~Given(w) => IsConfig(Output(w))
      /\ Given(w) => Output(w) = w.doc
  BY <1>2, OutputMeans
<1> HIDE DEF x
<1>4. /\ x.why = w.why /\ x.doc = Output(w) /\ x.at = "flush" /\ x.mixed = b
      /\ x = [why |-> x.why, at |-> x.at, doc |-> x.doc, mixed |-> x.mixed]
  BY <1>1, WriteRecord
<1>5. (Given(x) <=> Given(w)) /\ (w.why = "embedded" => Given(w))
  BY <1>4 DEF Given
<1>6. IsWrite(x, Whys(t))
  BY <1>3, <1>4, <1>5, Zenon DEF IsWrite
<1>7. QED
  BY <1>4, <1>6 DEF x

\* No document is the absence of a file.
LEMMA DocumentIsThere ==
    ASSUME NEW doc, IsDocument(doc)
    PROVE  doc # NoFile
<1>1. "missing" \notin DOMAIN doc
  BY TheKeys, SMT DEF IsDocument
<1>2. DOMAIN NoFile = {"missing"}
  BY SMT DEF NoFile
<1>3. QED
  BY <1>1, <1>2

\* The tasks of a state of the right types.
LEMMA TaskFacts ==
    ASSUME StoreTypeOK, NEW t \in Tasks
    PROVE  /\ ~Busy(t) => /\ ~Flushing(t) /\ ~Booting(writing[t])
                          /\ writing[t].why = "idle"
           /\ Busy(t) => IsWrite(writing[t], Whys(t))
           /\ Booting(writing[t]) => t = "loop" /\ Busy(t)
           /\ t = "web" => ~Given(writing[t]) /\ writing[t].why # "save"
           /\ Booting(writing[t]) /\ Given(writing[t])
                 => Meaning(Output(writing[t])) = Default
<1>1. writing[t] = Idle \/ IsWrite(writing[t], Whys(t))
  BY DEF StoreTypeOK
<1>2. ~Busy(t) => ~Flushing(t) /\ ~Booting(writing[t]) /\ writing[t].why = "idle"
  BY IdleFacts DEF Busy, Flushing
<1>3. Busy(t) => IsWrite(writing[t], Whys(t))
  BY <1>1 DEF Busy
<1>4. Booting(writing[t]) => t = "loop" /\ Busy(t)
  BY <1>2, <1>3, WriteFacts
<1>5. t = "web" => ~Given(writing[t])
  BY <1>1, WriteFacts, IdleFacts
<1>6. t = "web" => writing[t].why # "save"
  <2>1. t = "web" /\ Busy(t) => writing[t].why = "web"
    BY <1>3, Zenon DEF IsWrite, Whys
  <2>2. QED
    BY <1>2, <2>1
<1>7. Booting(writing[t]) /\ Given(writing[t])
          => Meaning(Output(writing[t])) = Default
  <2>1. Booting(writing[t]) /\ Given(writing[t]) => writing[t].doc = Embedded
    BY <1>3, <1>4, WriteFacts
  <2>2. Given(writing[t]) => Output(writing[t]) = writing[t].doc
    BY DEF Output
  <2>3. QED
    BY <2>1, <2>2, EmbeddedMeans
<1>8. QED
  BY <1>2, <1>3, <1>4, <1>5, <1>6, <1>7

\* What a task that writes puts in the file.
LEMMA OutputFacts ==
    ASSUME StoreTypeOK, NEW t \in Tasks, Busy(t)
    PROVE  /\ IsDocument(Output(writing[t]))
           /\ IsConfig(Meaning(Output(writing[t])))
           /\ ~Given(writing[t]) =>
                 /\ IsConfig(Output(writing[t]))
                 /\ Meaning(Output(writing[t])) = Output(writing[t])
           /\ writing[t].at = "open" /\ ~Given(writing[t])
                 => Output(writing[t]) = ram
           /\ writing[t].at = "flush" \/ Given(writing[t])
                 => Output(writing[t]) = writing[t].doc
<1>1. IsWrite(writing[t], Whys(t)) /\ IsConfig(ram)
  BY TaskFacts DEF StoreTypeOK
<1>2. Output(writing[t]) = OutputOf(writing[t], ram)
  BY DEF Output, OutputOf
<1>3. QED
  BY <1>1, <1>2, OutputMeans

\* A configuration that was adjusted is the same as it was, and adjusting the
\* same makes the same.
LEMMA SameFacts ==
    ASSUME NEW w, IsConfig(w)
    PROVE  /\ Same(w, w)
           /\ \A c : Same(c, w) => Same(Adjusted(c), w)
BY AdjustedFacts DEF Same

------------------------------------------------------------------------------
(* The initial states.                                                      *)

\* Nothing is being written, and what the file means is what was asked for.
LEMMA InitIInv == Init => IInv
<1> SUFFICES ASSUME Init PROVE IInv
  OBVIOUS
<1>1. /\ file \in FirstFiles /\ ram = Default /\ phase = "boot" /\ up = FALSE
      /\ writing = [t \in Tasks |-> Idle]
      /\ console = [mode |-> "kiss", dirty |-> FALSE, pasting |-> FALSE]
      /\ wanted = {IF file = NoFile THEN Default ELSE Meaning(file)}
      /\ cut = FALSE
  BY DEF Init
<1>2. file = NoFile \/ IsDocument(file)
  BY <1>1, StoreAssumption
<1>3. "loop" \in Tasks /\ "web" \in Tasks
  BY DEF Tasks
<1>4. /\ writing["loop"] = Idle /\ writing["web"] = Idle
      /\ ~Busy("loop") /\ ~Busy("web") /\ ~Flushing("loop") /\ ~Flushing("web")
      /\ ~Booting(writing["loop"])
  BY <1>1, <1>3, IdleFacts DEF Busy, Flushing
<1>5. wanted = {MeaningOf(file)} /\ IsConfig(MeaningOf(file))
  BY <1>1, <1>2, MeaningIsConfig, DefaultIsConfig DEF MeaningOf
<1>6. StoreTypeOK
  <2>1. /\ console = [mode |-> console.mode, dirty |-> console.dirty,
                      pasting |-> console.pasting]
        /\ console.dirty = FALSE
    BY <1>1, SMT
  <2>2. writing = [t \in Tasks |-> writing[t]] /\ \A t \in Tasks : writing[t] = Idle
    BY <1>1, SMT
  <2>3. phase \in {"boot", "running", "halt"} /\ cut \in BOOLEAN
    BY <1>1, Zenon
  <2>4. QED
    BY <1>1, <1>2, <1>5, <2>1, <2>2, <2>3, DefaultIsConfig DEF StoreTypeOK
<1>7. BootAlone
  BY <1>1, <1>4, SMT DEF BootAlone
<1>8. BothMixed
  BY <1>4 DEF BothMixed
<1>9. phase # "running"
  BY <1>1, SMT
<1>10. OneMeaning
  <2>1. Same(MeaningOf(file), MeaningOf(file))
    BY DEF Same
  <2>2. QED
    BY <1>4, <1>5, <1>9, <2>1 DEF OneMeaning, AllMean
<1>11. FileThere
  BY <1>9 DEF FileThere
<1>12. AllHarmless
  <2>1. Legible(MeaningOf(file), wanted, cut)
    BY <1>5, <1>6, AskedIsHarmless DEF StoreTypeOK
  <2>2. QED
    BY <1>4, <1>9, <2>1 DEF AllHarmless
<1>13. SaveAsked
  BY <1>4, IdleFacts DEF SaveAsked
<1>14. QED
  BY <1>6, <1>7, <1>8, <1>10, <1>11, <1>12, <1>13 DEF IInv

------------------------------------------------------------------------------
(* The console, where nothing is written.                                   *)

\* A step that leaves the file, RAM and writes alone, and makes neither the
\* device run nor the console clean.
LEMMA Unmoved ==
    ASSUME IInv, UNCHANGED <<file, ram, writing, wanted, cut>>,
           phase # "boot", phase' = phase \/ phase' = "halt",
           console' = [mode |-> console'.mode, dirty |-> console'.dirty,
                       pasting |-> console'.pasting],
           console'.dirty \in BOOLEAN, console'.mode = "kiss" => ~console'.dirty,
           ~console'.dirty => ~console.dirty
    PROVE  IInv'
<1>1. /\ file' = file /\ ram' = ram /\ writing' = writing
      /\ wanted' = wanted /\ cut' = cut
  OBVIOUS
<1>2. /\ phase' \in {"boot", "running", "halt"} /\ phase' # "boot"
      /\ phase' = "running" => phase = "running"
  BY SMT DEF IInv, StoreTypeOK
<1>3. /\ Booting(writing["loop"])' = Booting(writing["loop"])
      /\ Output(writing["loop"])' = Output(writing["loop"])
      /\ Flushing("loop")' = Flushing("loop") /\ Flushing("web")' = Flushing("web")
      /\ MeaningOf(file)' = MeaningOf(file)
  BY <1>1 DEF Booting, Output, Given, Flushing, Busy, MeaningOf
<1>4. StoreTypeOK'
  BY <1>1, <1>2, Zenon DEF IInv, StoreTypeOK
<1>5. BootAlone'
  BY <1>2, <1>3 DEF IInv, BootAlone
<1>6. BothMixed'
  BY <1>1, <1>3 DEF IInv, BothMixed
<1>7. OneMeaning'
  BY <1>1, <1>2, <1>3 DEF IInv, OneMeaning, AllMean
<1>8. FileThere'
  BY <1>1, <1>2 DEF IInv, FileThere
<1>9. AllHarmless'
  BY <1>1, <1>2, <1>3 DEF IInv, AllHarmless
<1>10. SaveAsked'
  BY <1>1 DEF IInv, SaveAsked
<1>11. QED
  BY <1>4, <1>5, <1>6, <1>7, <1>8, <1>9, <1>10 DEF IInv

\* A field of the console's state set.
LEMMA ConsoleFields ==
    ASSUME NEW c, c = [mode |-> c.mode, dirty |-> c.dirty, pasting |-> c.pasting],
           NEW v
    PROVE  /\ [c EXCEPT !.dirty = v]
                 = [mode |-> c.mode, dirty |-> v, pasting |-> c.pasting]
           /\ [c EXCEPT !.mode = v]
                 = [mode |-> v, dirty |-> c.dirty, pasting |-> c.pasting]
           /\ [c EXCEPT !.pasting = v]
                 = [mode |-> c.mode, dirty |-> c.dirty, pasting |-> v]
BY SMT

\* A record of the console's state has its fields.
LEMMA ConsoleRecord ==
    ASSUME NEW c, NEW m, NEW d, NEW p, c = [mode |-> m, dirty |-> d, pasting |-> p]
    PROVE  /\ c = [mode |-> c.mode, dirty |-> c.dirty, pasting |-> c.pasting]
           /\ c.mode = m /\ c.dirty = d /\ c.pasting = p
BY SMT

\* A setting given a value of its kind, or the slow rate one that fits.
LEMMA ChangedConfig ==
    ASSUME NEW c, IsConfig(c), NEW f \in Editable, NEW v \in NewValues[f]
    PROVE  /\ IsConfig([c EXCEPT ![f] = v])
           /\ f = "slow" => IsConfig([c EXCEPT ![f] = Fit(v)])
<1>1. /\ f \in Settings /\ IsSetting(f, v)
      /\ f = "slow" => IsSetting(f, Fit(v))
  <2>1. /\ f \in Settings /\ (f = "nets" => IsList(v))
        /\ f \in {"sleep", "rate", "slow"} => v \in Nat32
    BY StoreAssumption
  <2>2. f = "slow" => Fit(v) \in Nat32
    BY <2>1, FitFacts
  <2>3. QED
    BY <2>1, <2>2 DEF IsSetting
<1>2. ASSUME NEW x, IsSetting(f, x) PROVE IsConfig([c EXCEPT ![f] = x])
  <2> DEFINE d == [c EXCEPT ![f] = x]
  <2>1. /\ d = [g \in Settings |-> d[g]]
        /\ \A g \in Settings : d[g] = IF g = f THEN x ELSE c[g]
    BY <1>1, SMT DEF IsConfig
  <2> HIDE DEF d
  <2>2. \A g \in Settings : IsSetting(g, d[g])
    BY <1>2, <2>1, ConfigSettings
  <2>3. IsConfig(d)
    BY <2>1, <2>2 DEF IsConfig, IsSetting, Settings
  <2>4. QED
    BY <2>3 DEF d
<1>3. QED
  BY <1>1, <1>2, Zenon

\* A command that changes a setting: RAM is no longer what was saved, and the
\* console says so.
LEMMA EditKeeps ==
    ASSUME IInv, NEW f \in Editable, NEW v \in NewValues[f], Edit(f, v)
    PROVE  IInv'
<1>1. /\ phase = "running" /\ ~Busy("loop")
      /\ ram' = [ram EXCEPT ![f] = v]
      /\ console' = [console EXCEPT !.dirty = TRUE]
      /\ file' = file /\ writing' = writing /\ phase' = phase /\ up' = up
      /\ wanted' = wanted /\ cut' = cut
      /\ console.mode = "setup"
  BY DEF Edit, AtPrompt, Ready, asked
<1>2. "loop" \in Tasks /\ "web" \in Tasks
  BY DEF Tasks
<1>3. IsConfig(ram')
  BY <1>1, ChangedConfig DEF IInv, StoreTypeOK
<1>4. /\ console' = [mode |-> console'.mode, dirty |-> console'.dirty,
                     pasting |-> console'.pasting]
      /\ console'.dirty = TRUE /\ console'.mode = "setup"
  BY <1>1, ConsoleFields DEF IInv, StoreTypeOK
<1>5. ~Booting(writing["loop"]) /\ ~Flushing("loop")
  BY <1>1, <1>2, TaskFacts DEF IInv
<1>6. /\ Booting(writing["loop"])' = Booting(writing["loop"])
      /\ Flushing("loop")' = Flushing("loop") /\ Flushing("web")' = Flushing("web")
      /\ MeaningOf(file)' = MeaningOf(file)
  BY <1>1 DEF Booting, Flushing, Busy, MeaningOf
<1>7. StoreTypeOK'
  BY <1>1, <1>3, <1>4, Zenon DEF IInv, StoreTypeOK
<1>8. BootAlone'
  <2>1. phase' # "boot"
    BY <1>1
  <2>2. QED
    BY <1>5, <1>6, <2>1 DEF BootAlone
<1>9. BothMixed'
  BY <1>5, <1>6 DEF BothMixed
<1>10. OneMeaning'
  BY <1>1, <1>4, <1>5, <1>6 DEF IInv, OneMeaning, AllMean
<1>11. FileThere'
  BY <1>1 DEF IInv, FileThere
<1>12. AllHarmless'
  BY <1>1, <1>4, <1>5, <1>6 DEF IInv, AllHarmless
<1>13. SaveAsked'
  BY <1>1, <1>2, TaskFacts DEF IInv, SaveAsked
<1>14. QED
  BY <1>7, <1>8, <1>9, <1>10, <1>11, <1>12, <1>13 DEF IInv

------------------------------------------------------------------------------
(* A write begins.                                                          *)

\* A running device begins a write of what it is asked to keep: the new
\* configuration, which may be in RAM from now on.
LEMMA BeginKeeps ==
    ASSUME IInv, phase # "boot", NEW t \in Tasks, ~Busy(t),
           NEW why, why \in Whys(t), why \notin Boots, NEW doc, IsDocument(doc),
           NEW config, IsConfig(config), Begin(t, why, doc, config),
           ram' = ram \/ ram' = config, why = "save" => ram' = config,
           file' = file, phase' = phase, cut' = cut,
           console' = [mode |-> console'.mode, dirty |-> console'.dirty,
                       pasting |-> console'.pasting],
           console'.mode = console.mode, console'.dirty = console.dirty
    PROVE  IInv'
<1>1. "loop" \in Tasks /\ "web" \in Tasks
  BY DEF Tasks
<1>2. /\ writing' = [writing EXCEPT ![t] = Write(why, doc)]
      /\ wanted' = wanted \cup {config}
  BY DEF Begin
<1>3. /\ IsWrite(Write(why, doc), Whys(t))
      /\ Write(why, doc).why = why /\ Write(why, doc).at = "open"
  <2>1. why = "embedded" => doc = Embedded
    BY DEF Boots
  <2>2. QED
    BY <2>1, NewWrite, SMT DEF Write
<1>4. /\ writing' = [u \in Tasks |-> writing'[u]]
      /\ writing'[t] = Write(why, doc)
      /\ \A u \in Tasks \ {t} : writing'[u] = writing[u]
  <2>1. writing = [u \in Tasks |-> writing[u]]
    BY DEF IInv, StoreTypeOK
  <2>2. QED
    BY <1>2, <2>1, SMT
<1>5. ~Booting(Write(why, doc))
  BY <1>3 DEF Booting, Boots
<1>6. ~Booting(writing["loop"])
  BY DEF IInv, BootAlone
<1>7. ~Booting(writing["loop"])'
  BY <1>1, <1>4, <1>5, <1>6 DEF Booting
<1>8. \A u \in Tasks : Flushing(u)' => Flushing(u) /\ u # t
  BY <1>3, <1>4 DEF Flushing, Busy
<1>9. \A u \in Tasks : Flushing(u) => Flushing(u)' /\ writing'[u] = writing[u]
  BY <1>4 DEF Flushing, Busy
<1>10. MeaningOf(file)' = MeaningOf(file)
  BY DEF MeaningOf
<1>11. StoreTypeOK'
  <2>1. IsConfig(ram)' /\ \A w \in wanted' : IsConfig(w)
    BY <1>2 DEF IInv, StoreTypeOK
  <2>2. \A u \in Tasks : writing'[u] = Idle \/ IsWrite(writing'[u], Whys(u))
    BY <1>3, <1>4 DEF IInv, StoreTypeOK
  <2>3. wanted' # {}
    BY <1>2
  <2>4. /\ console'.dirty \in BOOLEAN
        /\ console'.mode = "kiss" => ~console'.dirty
    BY DEF IInv, StoreTypeOK
  <2>5. /\ file' = NoFile \/ IsDocument(file')
        /\ phase' \in {"boot", "running", "halt"}
        /\ cut' \in BOOLEAN
    BY DEF IInv, StoreTypeOK
  <2>6. QED
    BY <1>4, <2>1, <2>2, <2>3, <2>4, <2>5, Zenon DEF StoreTypeOK
<1>12. BootAlone'
  BY <1>7 DEF BootAlone
<1>13. BothMixed'
  <2>1. ~(Flushing("loop")' /\ Flushing("web")')
    BY <1>1, <1>8 DEF Tasks
  <2>2. QED
    BY <2>1 DEF BothMixed
<1>14. OneMeaning'
  <2>1. SUFFICES ASSUME ~cut', NEW w \in wanted', wanted' = {w}
                 PROVE  AllMean(w)'
    BY DEF OneMeaning
  <2>2. config = w /\ wanted = {w}
    BY <1>2, <2>1 DEF IInv, StoreTypeOK
  <2>3. AllMean(w)
    BY <2>1, <2>2 DEF IInv, OneMeaning
  <2>4. ~Flushing("loop")' /\ ~Flushing("web")' => Same(MeaningOf(file)', w)
    BY <1>1, <1>9, <1>10, <2>3 DEF AllMean
  <2>5. phase' = "running" /\ ~console'.dirty => Same(ram', w)
    BY <2>2, <2>3 DEF AllMean, Same
  <2>6. QED
    BY <1>7, <2>4, <2>5 DEF AllMean
<1>15. FileThere'
  BY DEF IInv, FileThere
<1>16. AllHarmless'
  <2>1. wanted \subseteq wanted' /\ config \in wanted' \cup {Default}
    BY <1>2
  <2>2. Legible(MeaningOf(file), wanted', cut')
    BY <2>1, HarmlessStays DEF IInv, AllHarmless, StoreTypeOK
  <2>3. phase' = "running" /\ ~console'.dirty => Harmless(ram', wanted', cut')
    <3>1. Harmless(config, wanted', cut')
      BY <2>1, AskedIsHarmless DEF IInv, StoreTypeOK
    <3>2. phase = "running" /\ ~console.dirty => Harmless(ram, wanted', cut')
      BY <2>1, HarmlessStays DEF IInv, AllHarmless, StoreTypeOK
    <3>3. QED
      BY <3>1, <3>2
  <2>4. QED
    BY <1>7, <1>10, <2>2, <2>3 DEF AllHarmless
<1>17. SaveAsked'
  <2>1. CASE t = "loop"
    BY <1>2, <1>3, <1>4, <2>1 DEF SaveAsked
  <2>2. CASE t = "web"
    BY <1>1, <1>2, <1>4, <2>2 DEF IInv, SaveAsked
  <2>3. QED
    BY <2>1, <2>2 DEF Tasks
<1>18. QED
  BY <1>11, <1>12, <1>13, <1>14, <1>15, <1>16, <1>17 DEF IInv

\* The commands that begin a write.
LEMMA SaveKeeps == IInv /\ Save => IInv'
<1> SUFFICES ASSUME IInv, Save PROVE IInv'
  OBVIOUS
<1>1. /\ phase = "running" /\ ~Busy("loop")
      /\ Begin("loop", "save", <<>>, ram)
      /\ ram' = ram /\ file' = file /\ phase' = phase /\ cut' = cut
      /\ console' = console
  BY DEF Save, AtPrompt, Ready, services
<1>2. "loop" \in Tasks /\ "save" \in Whys("loop") /\ "save" \notin Boots
  BY SMT DEF Tasks, Whys, Boots
<1>3. IsConfig(ram) /\ phase # "boot"
  BY <1>1 DEF IInv, StoreTypeOK
<1>4. console' = [mode |-> console'.mode, dirty |-> console'.dirty,
                 pasting |-> console'.pasting]
  BY <1>1 DEF IInv, StoreTypeOK
<1>5. QED
  BY <1>1, <1>2, <1>3, <1>4, EmptyMeans, BeginKeeps

\* The import saves the pasted document; RAM keeps what it has.
LEMMA CommitImportKeeps ==
    ASSUME IInv, NEW doc \in Pastes, CommitImport(doc)
    PROVE  IInv'
<1>1. /\ phase = "running" /\ ~Busy("loop")
      /\ Begin("loop", "import", doc, Meaning(doc))
      /\ ram' = ram /\ file' = file /\ phase' = phase /\ cut' = cut
      /\ console' = [console EXCEPT !.pasting = FALSE]
  BY DEF CommitImport, Ready
<1>2. /\ "loop" \in Tasks /\ "import" \in Whys("loop") /\ "import" \notin Boots
      /\ "import" # "save"
  BY SMT DEF Tasks, Whys, Boots
<1>3. IsDocument(doc) /\ IsConfig(Meaning(doc))
  BY StoreAssumption, MeaningIsConfig
<1>4. /\ console' = [mode |-> console'.mode, dirty |-> console'.dirty,
                     pasting |-> console'.pasting]
      /\ console'.mode = console.mode /\ console'.dirty = console.dirty
  BY <1>1, ConsoleFields DEF IInv, StoreTypeOK
<1>5. phase # "boot"
  BY <1>1
<1>6. QED
  BY <1>1, <1>2, <1>3, <1>4, <1>5, BeginKeeps

\* A remote write command changes RAM and saves it.
LEMMA RemoteWriteKeeps ==
    ASSUME IInv, NEW f \in Editable, NEW v \in NewValues[f], RemoteWrite(f, v)
    PROVE  IInv'
<1> DEFINE why == IF f = "role" THEN "remoteRole" ELSE "remote"
<1>1. /\ phase = "running" /\ ~Busy("loop")
      /\ ram' = [ram EXCEPT ![f] = v]
      /\ Begin("loop", why, <<>>, ram')
      /\ file' = file /\ phase' = phase /\ cut' = cut
      /\ console' = console
  BY DEF RemoteWrite, Ready, services
<1>2. /\ "loop" \in Tasks /\ why \in Whys("loop") /\ why \notin Boots
      /\ why # "save"
  BY SMT DEF Tasks, Whys, Boots
<1>3. PICK config : config = [ram EXCEPT ![f] = v]
  OBVIOUS
<1>4. IsConfig(config)
  BY <1>3, ChangedConfig DEF IInv, StoreTypeOK
<1>5. console' = [mode |-> console'.mode, dirty |-> console'.dirty,
                 pasting |-> console'.pasting]
  BY <1>1 DEF IInv, StoreTypeOK
<1>6. ram' = config /\ Begin("loop", why, <<>>, config) /\ phase # "boot"
  BY <1>1, <1>3
<1> HIDE DEF why
<1>7. QED
  BY <1>1, <1>2, <1>4, <1>5, <1>6, EmptyMeans, BeginKeeps

\* The web form changes RAM and saves it, in its own task.
LEMMA WebSaveKeeps ==
    ASSUME IInv, NEW f \in Editable, NEW v \in NewValues[f], WebSave(f, v)
    PROVE  IInv'
<1>1. /\ up /\ ~Busy("web")
      /\ ram' = [ram EXCEPT ![f] = IF f = "slow" THEN Fit(v) ELSE v]
      /\ Begin("web", "web", <<>>, ram')
      /\ file' = file /\ phase' = phase /\ cut' = cut
      /\ console' = console
  BY DEF WebSave, services
<1>2. /\ "web" \in Tasks /\ "web" \in Whys("web") /\ "web" \notin Boots
      /\ "web" # "save"
  BY SMT DEF Tasks, Whys, Boots
<1>3. PICK config : config = [ram EXCEPT ![f] = IF f = "slow" THEN Fit(v) ELSE v]
  OBVIOUS
<1>4. IsConfig(config)
  <2>1. IsConfig(ram)
    BY DEF IInv, StoreTypeOK
  <2>2. CASE f = "slow"
    BY <1>3, <2>1, <2>2, ChangedConfig
  <2>3. CASE f # "slow"
    BY <1>3, <2>1, <2>3, ChangedConfig
  <2>4. QED
    BY <2>2, <2>3
<1>5. config = ram'
  BY <1>1, <1>3
<1>6. console' = [mode |-> console'.mode, dirty |-> console'.dirty,
                 pasting |-> console'.pasting]
  BY <1>1 DEF IInv, StoreTypeOK
<1>7. ram' = config /\ Begin("web", "web", <<>>, config) /\ phase # "boot"
  BY <1>1, <1>5 DEF IInv, BootAlone
<1>8. QED
  BY <1>1, <1>2, <1>4, <1>6, <1>7, EmptyMeans, BeginKeeps

------------------------------------------------------------------------------
(* The file is opened, written, or cannot be.                               *)

\* The file is emptied, and says the defaults for a while.
LEMMA OpenFileKeeps ==
    ASSUME IInv, NEW t \in Tasks, OpenFile(t)
    PROVE  IInv'
<1> DEFINE shared == \E u \in Tasks \ {t} : Flushing(u)
<1>1. /\ Busy(t) /\ writing[t].at = "open"
      /\ file' = <<>>
      /\ writing' = [u \in Tasks |->
              IF u = t THEN Opened(writing[t], shared)
              ELSE IF Flushing(u) THEN Opened(writing[u], TRUE)
              ELSE writing[u]]
      /\ ram' = ram /\ phase' = phase /\ up' = up /\ console' = console
      /\ wanted' = wanted /\ cut' = cut
  BY DEF OpenFile, services, asked
<1>2. "loop" \in Tasks /\ "web" \in Tasks
  BY DEF Tasks
<1>3. /\ writing' = [u \in Tasks |-> writing'[u]]
      /\ writing'[t] = Opened(writing[t], shared)
      /\ \A u \in Tasks \ {t} : Flushing(u) =>
             writing'[u] = Opened(writing[u], TRUE)
      /\ \A u \in Tasks \ {t} : ~Flushing(u) => writing'[u] = writing[u]
  BY <1>1, Zenon
<1> HIDE DEF shared
<1>4. shared \in BOOLEAN
  BY DEF shared
<1>5. /\ IsWrite(writing'[t], Whys(t))
      /\ writing'[t].why = writing[t].why /\ writing'[t].doc = Output(writing[t])
      /\ writing'[t].at = "flush" /\ writing'[t].mixed = shared
  <2>1. IsWrite(writing[t], Whys(t))
    BY <1>1, TaskFacts DEF IInv
  <2>2. IsConfig(ram)
    BY DEF IInv, StoreTypeOK
  <2>3. QED
    BY <1>3, <1>4, <2>1, <2>2, OpenedWrite
<1>6. ASSUME NEW u \in Tasks, u # t
      PROVE  /\ writing'[u] = Idle \/ IsWrite(writing'[u], Whys(u))
             /\ Given(writing'[u]) = Given(writing[u])
             /\ Booting(writing'[u]) = Booting(writing[u])
             /\ writing'[u].why = writing[u].why
             /\ writing'[u].at = writing[u].at /\ writing'[u].doc = writing[u].doc
             /\ Flushing(u)' = Flushing(u)
             /\ Flushing(u) => writing'[u].mixed = TRUE
  <2>1. CASE Flushing(u)
    <3>1. /\ IsWrite(writing[u], Whys(u)) /\ writing[u].at = "flush"
          /\ IsConfig(ram) /\ Output(writing[u]) = writing[u].doc
      BY <2>1, TaskFacts DEF IInv, StoreTypeOK, Flushing, Output
    <3>2. /\ IsWrite(writing'[u], Whys(u))
          /\ writing'[u].why = writing[u].why /\ writing'[u].doc = writing[u].doc
          /\ writing'[u].at = "flush" /\ writing'[u].mixed = TRUE
      <4>1. writing'[u] = Opened(writing[u], TRUE)
        BY <1>3, <1>6, <2>1
      <4>2. /\ IsWrite(Opened(writing[u], TRUE), Whys(u))
            /\ Opened(writing[u], TRUE).why = writing[u].why
            /\ Opened(writing[u], TRUE).doc = Output(writing[u])
            /\ Opened(writing[u], TRUE).at = "flush"
            /\ Opened(writing[u], TRUE).mixed = TRUE
        BY <3>1, OpenedWrite, Zenon
      <4>3. QED
        BY <3>1, <4>1, <4>2, Zenon
    <3>3. writing'[u] # Idle
      BY <3>2, WriteFacts
    <3>4. QED
      BY <2>1, <3>2, <3>3 DEF Given, Booting, Flushing, Busy
  <2>2. CASE ~Flushing(u)
    <3>1. writing'[u] = writing[u]
      BY <1>3, <1>6, <2>2
    <3>2. writing[u] = Idle \/ IsWrite(writing[u], Whys(u))
      BY DEF IInv, StoreTypeOK
    <3>3. QED
      BY <2>2, <3>1, <3>2 DEF Flushing, Busy
  <2>3. QED
    BY <2>1, <2>2
<1>7. /\ Given(writing'[t]) = Given(writing[t])
      /\ Booting(writing'[t]) = Booting(writing[t])
      /\ Flushing(t)'
  <2>1. writing'[t] # Idle
    BY <1>5, WriteFacts
  <2>2. QED
    BY <1>5, <2>1 DEF Given, Booting, Flushing, Busy
<1>8. /\ Booting(writing["loop"])' = Booting(writing["loop"])
      /\ writing'["loop"].why = writing["loop"].why
      /\ Output(writing["loop"])' = Output(writing["loop"])
  <2>1. /\ Given(writing'["loop"]) = Given(writing["loop"])
        /\ Booting(writing'["loop"]) = Booting(writing["loop"])
        /\ writing'["loop"].why = writing["loop"].why
    BY <1>2, <1>5, <1>6, <1>7
  <2>2. Booting(writing["loop"])' = Booting(writing["loop"])
    BY <2>1 DEF Booting
  <2>3. Output(writing["loop"])' = OutputOf(writing'["loop"], ram')
    BY DEF Output, OutputOf, Given, Document
  <2>4. Output(writing["loop"]) = OutputOf(writing["loop"], ram)
    BY DEF Output, OutputOf
  <2>5. CASE t = "loop"
    BY <1>5, <2>1, <2>2, <2>3, <2>5 DEF OutputOf
  <2>6. CASE t # "loop"
    <3>1. /\ writing'["loop"].at = writing["loop"].at
          /\ writing'["loop"].doc = writing["loop"].doc
      BY <1>2, <1>6, <2>6
    <3>2. QED
      BY <1>1, <2>1, <2>2, <2>3, <2>4, <3>1 DEF OutputOf
  <2>7. QED
    BY <2>5, <2>6
<1>9. IsDocument(file') /\ file' # NoFile /\ MeaningOf(file)' = Default
  <2>1. IsDocument(file') /\ file' # NoFile /\ Meaning(file') = Default
    BY <1>1, EmptyMeans, DocumentIsThere
  <2>2. QED
    BY <2>1 DEF MeaningOf
<1>10. StoreTypeOK'
  <2>1. \A u \in Tasks : writing'[u] = Idle \/ IsWrite(writing'[u], Whys(u))
    BY <1>5, <1>6
  <2>2. QED
    BY <1>1, <1>3, <1>9, <2>1, Zenon DEF IInv, StoreTypeOK
<1>11. BootAlone'
  <2>1. SUFFICES ASSUME phase' = "boot"
                 PROVE  /\ ~up' /\ ~Busy("web")' /\ ~console'.dirty
                        /\ Busy("loop")' => /\ Booting(writing["loop"])'
                                            /\ ~writing["loop"].mixed'
    BY <1>1, <1>8 DEF IInv, BootAlone
  <2>2. /\ ~up /\ ~Busy("web") /\ ~console.dirty
        /\ Busy("loop") => Booting(writing["loop"]) /\ ~writing["loop"].mixed
    BY <1>1, <2>1 DEF IInv, BootAlone
  <2>3. t = "loop" /\ ~Flushing("web") /\ writing'["web"] = writing["web"]
    BY <1>1, <1>2, <1>3, <2>2 DEF Tasks, Flushing
  <2>4. ~shared
    BY <2>3 DEF shared, Tasks
  <2>5. QED
    BY <1>1, <1>5, <1>8, <2>2, <2>3, <2>4 DEF Busy
<1>12. BothMixed'
  <2>1. SUFFICES ASSUME Flushing("loop")', Flushing("web")'
                 PROVE  writing'["loop"].mixed /\ writing'["web"].mixed
    BY DEF BothMixed
  <2>2. PICK u \in Tasks : u # t /\ Tasks = {t, u}
    BY DEF Tasks
  <2>3. Flushing(u)
    BY <1>6, <2>1, <2>2 DEF Tasks
  <2>4. shared
    BY <2>2, <2>3 DEF shared
  <2>5. writing'[t].mixed /\ writing'[u].mixed
    BY <1>5, <1>6, <2>2, <2>3, <2>4
  <2>6. QED
    BY <1>2, <2>2, <2>5
<1>13. OneMeaning'
  <2>1. SUFFICES ASSUME ~cut', NEW w \in wanted', wanted' = {w}
                 PROVE  AllMean(w)'
    BY DEF OneMeaning
  <2>2. AllMean(w)
    BY <1>1, <2>1 DEF IInv, OneMeaning
  <2>3. ~(~Flushing("loop")' /\ ~Flushing("web")')
    BY <1>7 DEF Tasks
  <2>4. QED
    BY <1>1, <1>8, <2>2, <2>3 DEF AllMean
<1>14. FileThere'
  BY <1>9 DEF FileThere
<1>15. AllHarmless'
  <2>1. Legible(Default, wanted', cut')
    BY <1>10, AskedIsHarmless DEF StoreTypeOK
  <2>2. QED
    BY <1>1, <1>8, <1>9, <2>1 DEF IInv, AllHarmless
<1>16. SaveAsked'
  BY <1>1, <1>8 DEF IInv, SaveAsked
<1>17. QED
  BY <1>10, <1>11, <1>12, <1>13, <1>14, <1>15, <1>16 DEF IInv

\* What follows a write, for what does not depend on the file.
LEMMA EndShape ==
    ASSUME IInv, NEW t \in Tasks, Busy(t), NEW ok, ok \in BOOLEAN, After(t, ok),
           ram' = ram, file' = NoFile \/ IsDocument(file'),
           \A w \in wanted' : IsConfig(w), wanted' # {}, cut' \in BOOLEAN
    PROVE  /\ StoreTypeOK' /\ BootAlone' /\ BothMixed'
           /\ ~Booting(writing["loop"])'
           /\ writing["loop"].why' = "save"
                 => t = "web" /\ writing["loop"].why = "save"
           /\ \A u \in Tasks : Flushing(u)' <=> Flushing(u) /\ u # t
           /\ phase' = "running" =>
                 /\ phase = "running" /\ ~Booting(writing[t])
                 /\ ~(writing[t].why = "import" /\ ok)
           /\ ~console'.dirty =>
                 ~console.dirty \/ (writing[t].why = "save" /\ ok)
<1> DEFINE restart == \/ Booting(writing[t])
                      \/ writing[t].why = "import" /\ ok
<1>1. /\ writing' = [writing EXCEPT ![t] = Idle]
      /\ phase' = IF restart THEN "halt" ELSE phase
      /\ console' = IF writing[t].why = "save" /\ ok
                    THEN [console EXCEPT !.dirty = FALSE] ELSE console
      /\ up' = up
  BY DEF After
<1>2. "loop" \in Tasks /\ "web" \in Tasks
  BY DEF Tasks
<1>3. /\ writing' = [u \in Tasks |-> writing'[u]]
      /\ writing'[t] = Idle
      /\ \A u \in Tasks \ {t} : writing'[u] = writing[u]
  <2>1. writing = [u \in Tasks |-> writing[u]]
    BY DEF IInv, StoreTypeOK
  <2>2. QED
    BY <1>1, <2>1, SMT
<1>4. \A u \in Tasks : Flushing(u)' <=> Flushing(u) /\ u # t
  BY <1>3 DEF Flushing, Busy
<1>5. /\ console' = [mode |-> console'.mode, dirty |-> console'.dirty,
                     pasting |-> console'.pasting]
      /\ console'.dirty \in BOOLEAN /\ console'.mode = console.mode
      /\ console.dirty = FALSE => console'.dirty = FALSE
      /\ console'.dirty = FALSE
            => console.dirty = FALSE \/ (writing[t].why = "save" /\ ok)
  <2>1. CASE writing[t].why = "save" /\ ok
    <3>1. console' = [console EXCEPT !.dirty = FALSE]
      BY <1>1, <2>1
    <3>2. console' = [mode |-> console.mode, dirty |-> FALSE,
                      pasting |-> console.pasting]
      BY <3>1, ConsoleFields DEF IInv, StoreTypeOK
    <3>3. QED
      BY <2>1, <3>2, ConsoleRecord
  <2>2. CASE ~(writing[t].why = "save" /\ ok)
    BY <1>1, <2>2 DEF IInv, StoreTypeOK
  <2>3. QED
    BY <2>1, <2>2
<1> HIDE DEF restart
<1>6. phase = "boot" => t = "loop" /\ restart
  <2>1. SUFFICES ASSUME phase = "boot" PROVE t = "loop" /\ restart
    OBVIOUS
  <2>2. t = "loop"
    BY <2>1 DEF IInv, BootAlone, Tasks
  <2>3. Booting(writing["loop"])
    BY <2>1, <2>2 DEF IInv, BootAlone
  <2>4. QED
    BY <2>2, <2>3 DEF restart
<1>7. /\ phase' # "boot" /\ phase' \in {"boot", "running", "halt"}
      /\ phase' = "running" => phase = "running" /\ ~restart
  BY <1>1, <1>6 DEF IInv, StoreTypeOK
<1>8. ~Booting(writing["loop"])'
  <2>1. CASE t = "loop"
    BY <1>3, <2>1, IdleFacts DEF Booting
  <2>2. CASE t = "web"
    <3>1. ~Booting(writing["loop"])
      BY <2>2 DEF IInv, BootAlone
    <3>2. writing'["loop"] = writing["loop"]
      BY <1>2, <1>3, <2>2
    <3>3. QED
      BY <3>1, <3>2 DEF Booting
  <2>3. QED
    BY <2>1, <2>2 DEF Tasks
<1>9. StoreTypeOK'
  <2>1. \A u \in Tasks : writing'[u] = Idle \/ IsWrite(writing'[u], Whys(u))
    BY <1>3 DEF IInv, StoreTypeOK
  <2>2. IsConfig(ram) /\ (console.mode = "kiss" => console.dirty = FALSE)
    BY DEF IInv, StoreTypeOK
  <2>3. IsConfig(ram)' /\ (console'.mode = "kiss" => ~console'.dirty)
    BY <1>5, <2>2
  <2>4. QED
    BY <1>3, <1>5, <1>7, <2>1, <2>3, Zenon DEF StoreTypeOK
<1>10. BootAlone'
  BY <1>7, <1>8 DEF BootAlone
<1>11. BothMixed'
  BY <1>2, <1>4 DEF BothMixed, Tasks
<1>12. ~console'.dirty => ~console.dirty \/ (writing[t].why = "save" /\ ok)
  BY <1>5
<1>13. phase' = "running" =>
                 /\ phase = "running" /\ ~Booting(writing[t])
                 /\ ~(writing[t].why = "import" /\ ok)
  BY <1>7 DEF restart
<1>14. writing'["loop"].why = "save" => t = "web" /\ writing["loop"].why = "save"
  <2>1. t = "loop" => writing'["loop"].why = "idle"
    BY <1>3, IdleFacts
  <2>2. t = "web" => writing'["loop"].why = writing["loop"].why
    BY <1>2, <1>3
  <2>3. QED
    BY <2>1, <2>2 DEF Tasks
<1>15. QED
  BY <1>4, <1>8, <1>9, <1>10, <1>11, <1>12, <1>13, <1>14

\* What a write in hand means was asked for, unless the boot sequence makes it.
LEMMA InHandMeans ==
    ASSUME StoreTypeOK, NEW tasks, tasks \subseteq {t \in Tasks : Busy(t)}
    PROVE  /\ \A w \in InHand(tasks) : IsConfig(w)
           /\ \A t \in tasks : ~Booting(writing[t])
                 => Meaning(Output(writing[t])) \in InHand(tasks)
<1>1. \A w \in InHand(tasks) : \E t \in tasks : w = Meaning(Output(writing[t]))
  BY Zenon DEF InHand
<1>2. \A t \in tasks : IsConfig(Meaning(Output(writing[t])))
  BY OutputFacts
<1>3. \A t \in tasks : ~Booting(writing[t])
                 => Meaning(Output(writing[t])) \in InHand(tasks)
  BY Zenon DEF InHand
<1>4. QED
  BY <1>1, <1>2, <1>3

\* A write that succeeds.
LEMMA FlushKeeps ==
    ASSUME IInv, NEW t \in Tasks, Flush(t)
    PROVE  IInv'
<1> DEFINE w == writing[t]
           busy == {u \in Tasks : Busy(u)}
<1>1. /\ Flushing(t) /\ Busy(t) /\ w.at = "flush"
      /\ IF w.mixed THEN file' \in Cut(Output(w)) ELSE file' = Output(w)
      /\ Booting(w) => wanted' = wanted /\ cut' = cut
      /\ ~Booting(w) => /\ wanted' = InHand(busy)
                                        \cup (IF Settles(w) THEN {} ELSE wanted)
                        /\ cut' = (w.mixed \/ (cut /\ ~Settles(w)))
      /\ After(t, TRUE)
      /\ ram' = ram
  BY DEF Flush, Flushing, asked
<1>2. StoreTypeOK /\ IsWrite(w, Whys(t)) /\ w.mixed \in BOOLEAN
  BY <1>1, TaskFacts DEF IInv, IsWrite
<1>3. /\ IsDocument(Output(w)) /\ Output(w) = w.doc
      /\ Booting(w) => t = "loop"
      /\ ~Given(w) => Meaning(Output(w)) = w.doc
  BY <1>1, <1>2, TaskFacts, OutputFacts
<1>4. IsDocument(file')
  BY <1>1, <1>3, CutSettings
<1>5. Booting(w) => ~w.mixed /\ ~Busy("web")
  BY <1>1, <1>3 DEF IInv, BootAlone
<1>6. /\ \A c \in InHand(busy) : IsConfig(c)
      /\ \A u \in busy : ~Booting(writing[u])
            => Meaning(Output(writing[u])) \in InHand(busy)
      /\ ~Booting(w) => Meaning(Output(w)) \in InHand(busy)
  BY <1>1, <1>2, InHandMeans
<1>7. (\A c \in wanted' : IsConfig(c)) /\ wanted' # {} /\ cut' \in BOOLEAN
  BY <1>1, <1>2, <1>6 DEF StoreTypeOK
<1>8. /\ StoreTypeOK' /\ BootAlone' /\ BothMixed'
      /\ ~Booting(writing["loop"])'
      /\ writing'["loop"].why = "save" => t = "web" /\ writing["loop"].why = "save"
      /\ phase' = "running" =>
                 phase = "running" /\ ~Booting(w) /\ w.why # "import"
      /\ ~console'.dirty => ~console.dirty \/ w.why = "save"
  <2>1. TRUE \in BOOLEAN
    OBVIOUS
  <2>2. QED
    BY <1>1, <1>4, <1>7, <2>1, EndShape
<1>9. phase' = "running" => ~Given(w) /\ ~Booting(w)
  BY <1>8 DEF Given, Booting
<1>10. MeaningOf(file)' = Meaning(file') /\ file' # NoFile
  BY <1>4, DocumentIsThere DEF MeaningOf
<1>11. ~Given(w) /\ Settles(w) => Meaning(Output(w)) = ram
  <2>1. Document(ram) = ram
    BY <1>2, DocumentMeans DEF StoreTypeOK
  <2>2. QED
    BY <1>3, <2>1 DEF Settles
<1>12. w.why = "save" => ram \in wanted
  BY <1>2, TaskFacts DEF IInv, SaveAsked, Tasks
<1>13. w.mixed => ~Settles(w)
  BY DEF Settles
<1> DEFINE settled == Settles(w)
<1> HIDE DEF w, busy, settled
<1>14. /\ ~Booting(w) => wanted' = InHand(busy) \cup (IF settled THEN {} ELSE wanted)
       /\ ~Booting(w) => cut' = (w.mixed \/ (cut /\ ~settled))
       /\ ~Given(w) /\ settled => Meaning(Output(w)) = ram
       /\ w.mixed => ~settled
  BY <1>1, <1>11, <1>13 DEF settled
<1>15. OneMeaning'
  <2>1. SUFFICES ASSUME ~cut', NEW c \in wanted', wanted' = {c}
                 PROVE  AllMean(c)'
    BY DEF OneMeaning
  <2>2. ~w.mixed
    BY <1>5, <1>14, <2>1
  <2>3. Same(Meaning(Output(w)), c)
    <3>1. CASE Booting(w)
      <4>1. AllMean(c)
        BY <1>1, <2>1, <3>1 DEF IInv, OneMeaning
      <4>2. QED
        BY <1>3, <3>1, <4>1 DEF AllMean, w
    <3>2. CASE ~Booting(w)
      BY <1>6, <1>14, <2>1, <3>2 DEF Same
    <3>3. QED
      BY <3>1, <3>2
  <2>4. Same(MeaningOf(file)', c)
    BY <1>1, <1>10, <2>2, <2>3
  <2>5. ASSUME phase' = "running", ~console'.dirty PROVE Same(ram', c)
    <3>1. CASE settled
      <4>1. ram = c
        BY <1>6, <1>9, <1>14, <2>1, <2>5, <3>1
      <4>2. QED
        BY <1>1, <4>1 DEF Same
    <3>2. CASE ~settled
      <4>1. wanted \subseteq wanted' /\ ~cut
        BY <1>9, <1>14, <2>1, <2>5, <3>2
      <4>2. wanted = {c}
        BY <1>2, <2>1, <4>1 DEF StoreTypeOK
      <4>3. AllMean(c)
        BY <4>1, <4>2 DEF IInv, OneMeaning
      <4>4. CASE ~console.dirty
        BY <1>1, <1>8, <2>5, <4>3, <4>4 DEF AllMean
      <4>5. CASE w.why = "save"
        BY <1>1, <1>12, <4>2, <4>5 DEF Same, w
      <4>6. QED
        BY <1>8, <2>5, <4>4, <4>5
    <3>3. QED
      BY <3>1, <3>2
  <2>6. QED
    BY <1>8, <2>4, <2>5 DEF AllMean
<1>16. FileThere'
  BY <1>10 DEF FileThere
<1>17. AllHarmless'
  <2>1. Legible(Meaning(file'), wanted', cut')
    <3>1. CASE Booting(w)
      BY <1>1, <1>3, <1>5, <3>1 DEF IInv, AllHarmless, w
    <3>2. CASE ~Booting(w) /\ w.mixed
      <4>1. Meaning(Output(w)) \in wanted' \cup {Default} /\ cut' = TRUE
        BY <1>2, <1>6, <1>14, <3>2
      <4>2. QED
        BY <1>1, <1>3, <3>2, <4>1, CutOfAsked
    <3>3. CASE ~Booting(w) /\ ~w.mixed
      BY <1>1, <1>6, <1>7, <1>14, <3>3, AskedIsHarmless
    <3>4. QED
      BY <3>1, <3>2, <3>3
  <2>2. phase' = "running" /\ ~console'.dirty => Harmless(ram', wanted', cut')
    <3>1. SUFFICES ASSUME phase' = "running", ~console'.dirty
                   PROVE  Harmless(ram, wanted', cut')
      BY <1>1
    <3>2. CASE settled
      <4>1. ram \in wanted' \cup {Default}
        BY <1>6, <1>9, <1>14, <3>1, <3>2
      <4>2. QED
        BY <1>7, <4>1, AskedIsHarmless
    <3>3. CASE ~settled
      <4>1. wanted \subseteq wanted' /\ (cut => cut')
        BY <1>9, <1>14, <3>1, <3>3
      <4>2. CASE ~console.dirty
        <5>1. Harmless(ram, wanted, cut) /\ cut \in BOOLEAN
          BY <1>2, <1>8, <3>1, <4>2 DEF IInv, AllHarmless, StoreTypeOK
        <5>2. QED
          BY <1>7, <4>1, <5>1, HarmlessStays
      <4>3. CASE w.why = "save"
        <5>1. ram \in wanted' \cup {Default}
          BY <1>12, <4>1, <4>3 DEF w
        <5>2. QED
          BY <1>7, <5>1, AskedIsHarmless
      <4>4. QED
        BY <1>8, <3>1, <4>2, <4>3
    <3>4. QED
      BY <3>2, <3>3
  <2>3. QED
    BY <1>8, <1>10, <2>1, <2>2 DEF AllHarmless
<1>18. SaveAsked'
  <2>1. SUFFICES ASSUME writing'["loop"].why = "save"
                 PROVE  ram \in wanted'
    BY <1>1 DEF SaveAsked
  <2>2. /\ t = "web" /\ writing["loop"].why = "save" /\ ram \in wanted
        /\ "loop" \in Tasks /\ "web" \in Tasks
    BY <1>8, <2>1 DEF IInv, SaveAsked, Tasks
  <2>3. Busy("loop") /\ ~Booting(writing["loop"]) /\ ~Given(writing["loop"])
    BY <2>2, IdleFacts DEF Busy, Booting, Given
  <2>4. ~Booting(w)
    BY <1>2, <2>2, TaskFacts DEF w
  <2>5. writing["loop"].at \in {"open", "flush"}
    BY <1>2, <2>2, <2>3, TaskFacts, Zenon DEF IsWrite
  <2>6. CASE writing["loop"].at = "open"
    <3>1. Meaning(Output(writing["loop"])) = ram
      BY <1>2, <2>2, <2>3, <2>6, OutputFacts
    <3>2. Meaning(Output(writing["loop"])) \in InHand(busy)
      BY <1>6, <2>2, <2>3 DEF busy
    <3>3. QED
      BY <1>14, <2>4, <3>1, <3>2
  <2>7. CASE writing["loop"].at = "flush"
    <3>1. Flushing("loop")
      BY <2>3, <2>7 DEF Flushing
    <3>2. w.mixed
      BY <1>1, <2>2, <3>1 DEF IInv, BothMixed, w
    <3>3. QED
      BY <1>14, <2>2, <2>4, <3>2
  <2>8. QED
    BY <2>5, <2>6, <2>7
<1>19. QED
  BY <1>8, <1>15, <1>16, <1>17, <1>18 DEF IInv

\* Where a cut of a write in hand leaves the file: every setting is harmless
\* when what was asked for by this write counts.
LEMMA CutInHand ==
    ASSUME IInv, NEW t \in Tasks, Flushing(t), NEW d \in Cut(Output(writing[t])),
           NEW ws, wanted \subseteq ws,
           ~Booting(writing[t]) => Meaning(Output(writing[t])) \in ws,
           \A w \in ws : IsConfig(w)
    PROVE  IsDocument(d) /\ Legible(Meaning(d), ws, TRUE)
<1> DEFINE doc == Output(writing[t])
<1>1. StoreTypeOK
  BY DEF IInv
<1>2. /\ IsDocument(doc)
      /\ Booting(writing[t]) => t = "loop"
      /\ ~Given(writing[t]) => IsConfig(doc) /\ Meaning(doc) = doc
      /\ Booting(writing[t]) /\ Given(writing[t]) => Meaning(doc) = Default
  BY <1>1, TaskFacts, OutputFacts DEF Flushing
<1>3. IsDocument(d)
  BY <1>2, CutSettings
<1>4. CASE ~Booting(writing[t])
  BY <1>2, <1>3, <1>4, CutOfAsked
<1>5. CASE Booting(writing[t]) /\ Given(writing[t])
  BY <1>2, <1>3, <1>5, CutOfAsked
<1>6. CASE Booting(writing[t]) /\ ~Given(writing[t])
  <2>1. Legible(doc, wanted, cut) /\ IsConfig(doc) /\ cut \in BOOLEAN
    BY <1>1, <1>2, <1>6 DEF IInv, AllHarmless, StoreTypeOK
  <2>2. \A w \in wanted : IsConfig(w)
    BY <1>1 DEF StoreTypeOK
  <2>3. d \in Cut(doc)
    OBVIOUS
  <2> HIDE DEF doc
  <2>4. Legible(Meaning(d), wanted, TRUE)
    BY <2>1, <2>2, <2>3, CutOfLegible
  <2>5. Legible(Meaning(d), ws, TRUE)
    BY <2>4, HarmlessStays
  <2>6. QED
    BY <1>3, <2>5
<1>7. QED
  BY <1>4, <1>5, <1>6

\* A write of which the flash takes only a part.
LEMMA FlushShortKeeps ==
    ASSUME IInv, NEW t \in Tasks, FlushShort(t)
    PROVE  IInv'
<1> DEFINE w == writing[t]
<1>1. /\ Flushing(t) /\ Busy(t)
      /\ file' \in Cut(Output(w))
      /\ cut' = TRUE
      /\ wanted' = wanted \cup InHand({t})
      /\ ram' = ram
  BY DEF FlushShort, Flushing
<1>2. PICK ok \in BOOLEAN : After(t, ok)
  BY DEF FlushShort
<1>3. StoreTypeOK /\ cut \in BOOLEAN
  BY DEF IInv, StoreTypeOK
<1>4. /\ \A c \in InHand({t}) : IsConfig(c)
      /\ ~Booting(w) => Meaning(Output(w)) \in InHand({t})
  BY <1>1, <1>3, InHandMeans
<1>5. (\A c \in wanted' : IsConfig(c)) /\ wanted' # {}
  BY <1>1, <1>3, <1>4 DEF StoreTypeOK
<1>6. IsDocument(file') /\ Legible(Meaning(file'), wanted', cut')
  <2>1. wanted \subseteq wanted' /\ (~Booting(w) => Meaning(Output(w)) \in wanted')
    BY <1>1, <1>4
  <2>2. IsDocument(file') /\ Legible(Meaning(file'), wanted', TRUE)
    BY <1>1, <1>5, <2>1, CutInHand
  <2>3. QED
    BY <1>1, <2>2
<1>7. /\ StoreTypeOK' /\ BootAlone' /\ BothMixed'
      /\ ~Booting(writing["loop"])'
      /\ writing'["loop"].why = "save" => writing["loop"].why = "save"
      /\ phase' = "running" => phase = "running" /\ ~Booting(w)
      /\ ~console'.dirty => ~console.dirty \/ w.why = "save"
  <2>1. cut' \in BOOLEAN
    BY <1>1
  <2>2. QED
    BY <1>1, <1>2, <1>5, <1>6, <2>1, EndShape
<1>8. OneMeaning' /\ FileThere'
  BY <1>1 DEF OneMeaning, FileThere
<1>9. MeaningOf(file)' = Meaning(file')
  BY <1>6, DocumentIsThere DEF MeaningOf
<1>10. phase' = "running" /\ ~console'.dirty => Harmless(ram', wanted', cut')
  <2>1. SUFFICES ASSUME phase' = "running", ~console'.dirty
                 PROVE  Harmless(ram, wanted', cut')
    BY <1>1
  <2>2. CASE ~console.dirty
    <3>1. Harmless(ram, wanted, cut)
      BY <1>7, <2>1, <2>2 DEF IInv, AllHarmless
    <3>2. wanted \subseteq wanted' /\ cut'
      BY <1>1
    <3>3. QED
      BY <1>1, <1>3, <3>1, <3>2, HarmlessStays
  <2>3. CASE w.why = "save"
    <3>1. ram \in wanted' \cup {Default}
      BY <1>1, <1>3, <2>3, TaskFacts DEF IInv, SaveAsked, Tasks
    <3>2. QED
      BY <1>1, <3>1, AskedIsHarmless
  <2>4. QED
    BY <1>7, <2>1, <2>2, <2>3
<1>11. AllHarmless'
  BY <1>6, <1>7, <1>9, <1>10 DEF AllHarmless
<1>12. SaveAsked'
  BY <1>1, <1>7 DEF IInv, SaveAsked
<1>13. QED
  BY <1>7, <1>8, <1>11, <1>12 DEF IInv

\* The file cannot be opened, and the write is given up ...
LEMMA WriteGivenUp ==
    ASSUME IInv, NEW t \in Tasks, OpenFails(t), writing[t].why # "embedded"
    PROVE  IInv'
<1> DEFINE gone == Platform = "nrf52"
<1>1. /\ Busy(t) /\ writing[t].at = "open"
      /\ file' = IF gone THEN NoFile ELSE file
      /\ cut' = (cut \/ gone)
      /\ After(t, FALSE)
      /\ ram' = ram /\ wanted' = wanted
  BY DEF OpenFails
<1>2. StoreTypeOK
  BY DEF IInv
<1>3. gone \in BOOLEAN
  OBVIOUS
<1> HIDE DEF gone
<1>4. /\ file' = NoFile \/ IsDocument(file')
      /\ \A c \in wanted' : IsConfig(c)
      /\ wanted' # {} /\ cut' \in BOOLEAN
  BY <1>1, <1>2, <1>3 DEF StoreTypeOK
<1>5. /\ StoreTypeOK' /\ BootAlone' /\ BothMixed'
      /\ ~Booting(writing["loop"])'
      /\ writing'["loop"].why = "save" => writing["loop"].why = "save"
      /\ \A u \in Tasks : Flushing(u)' <=> Flushing(u) /\ u # t
      /\ phase' = "running" => phase = "running"
      /\ ~console'.dirty => ~console.dirty
  <2>1. FALSE \in BOOLEAN
    OBVIOUS
  <2>2. QED
    BY <1>1, <1>4, <2>1, EndShape
<1>6. \A u \in Tasks : Flushing(u)' <=> Flushing(u)
  BY <1>1, <1>5 DEF Flushing
<1>7. "loop" \in Tasks /\ "web" \in Tasks
  BY DEF Tasks
<1>8. OneMeaning'
  <2>1. SUFFICES ASSUME ~cut', NEW c \in wanted', wanted' = {c}
                 PROVE  AllMean(c)'
    BY DEF OneMeaning
  <2>2. AllMean(c) /\ file' = file
    BY <1>1, <2>1 DEF IInv, OneMeaning
  <2>3. MeaningOf(file)' = MeaningOf(file)
    BY <2>2 DEF MeaningOf
  <2>4. QED
    BY <1>1, <1>5, <1>6, <1>7, <2>2, <2>3 DEF AllMean
<1>9. FileThere'
  BY <1>1, <1>5 DEF IInv, FileThere
<1>10. AllHarmless'
  <2>1. Legible(MeaningOf(file)', wanted', cut')
    <3>1. CASE gone
      <4>1. MeaningOf(file)' = Default
        BY <1>1, <3>1 DEF MeaningOf
      <4>2. QED
        BY <1>4, <4>1, AskedIsHarmless
    <3>2. CASE ~gone
      <4>1. MeaningOf(file)' = MeaningOf(file) /\ (cut' <=> cut)
        BY <1>1, <1>2, <3>2 DEF MeaningOf
      <4>2. Legible(MeaningOf(file), wanted', cut')
        BY <1>1, <1>4, <4>1, HarmlessStays DEF IInv, AllHarmless, StoreTypeOK
      <4>3. QED
        BY <4>1, <4>2
    <3>3. QED
      BY <3>1, <3>2
  <2>2. phase' = "running" /\ ~console'.dirty => Harmless(ram', wanted', cut')
    <3>1. SUFFICES ASSUME phase' = "running", ~console'.dirty
                   PROVE  Harmless(ram, wanted', cut')
      BY <1>1
    <3>2. Harmless(ram, wanted, cut)
      BY <1>5, <3>1 DEF IInv, AllHarmless
    <3>3. wanted \subseteq wanted' /\ (cut => cut')
      BY <1>1
    <3>4. QED
      BY <1>2, <1>4, <3>2, <3>3, HarmlessStays DEF StoreTypeOK
  <2>3. QED
    BY <1>5, <2>1, <2>2 DEF AllHarmless
<1>11. SaveAsked'
  BY <1>1, <1>5 DEF IInv, SaveAsked
<1>12. QED
  BY <1>5, <1>8, <1>9, <1>10, <1>11 DEF IInv

\* ... but the embedded document, for which the defaults are written instead.
LEMMA EmbeddedGivenUp ==
    ASSUME IInv, NEW t \in Tasks, OpenFails(t), writing[t].why = "embedded"
    PROVE  IInv'
<1> DEFINE gone == Platform = "nrf52"
           fresh == Write("fresh", <<>>)
<1>1. /\ Busy(t) /\ writing[t].at = "open"
      /\ file' = IF gone THEN NoFile ELSE file
      /\ cut' = (cut \/ gone)
      /\ ram' = Default /\ wanted' = wanted
      /\ writing' = [writing EXCEPT ![t] = fresh]
      /\ phase' = phase /\ up' = up /\ console' = console
  BY DEF OpenFails, services
<1>2. StoreTypeOK
  BY DEF IInv
<1>3. Booting(writing[t]) /\ Given(writing[t]) /\ t = "loop"
  <2>1. Booting(writing[t]) /\ Given(writing[t])
    BY DEF Booting, Given
  <2>2. QED
    BY <1>2, <2>1, TaskFacts
<1>4. phase = "boot" /\ ~up /\ ~Busy("web") /\ ~console.dirty
  BY <1>3 DEF IInv, BootAlone
<1>5. Meaning(Output(writing["loop"])) = Default
  BY <1>2, <1>3, TaskFacts
<1>6. gone \in BOOLEAN
  OBVIOUS
<1>7. /\ IsWrite(fresh, Whys("loop")) /\ fresh.why = "fresh"
      /\ fresh.at = "open" /\ fresh.mixed = FALSE
  <2>1. "fresh" \in Whys("loop") /\ "loop" \in Tasks
    BY SMT DEF Whys, Boots, Tasks
  <2>2. "fresh" # "embedded" /\ IsDocument(<<>>)
    BY EmptyMeans, SMT
  <2>3. QED
    BY <2>1, <2>2, NewWrite, SMT DEF Write
<1> HIDE DEF gone, fresh
<1>8. /\ writing' = [u \in Tasks |-> writing'[u]]
      /\ writing'["loop"] = fresh
      /\ writing'["web"] = writing["web"]
  <2>1. writing = [u \in Tasks |-> writing[u]]
    BY <1>2 DEF StoreTypeOK
  <2>2. "loop" \in Tasks /\ "web" \in Tasks /\ "web" # "loop"
    BY SMT DEF Tasks
  <2>3. writing' = [writing EXCEPT !["loop"] = fresh]
    BY <1>1, <1>3
  <2>4. QED
    BY <2>1, <2>2, <2>3, SMT
<1>9. Booting(fresh) /\ ~Given(fresh)
  BY <1>7 DEF Booting, Given
<1>10. ~Flushing("loop")' /\ ~Flushing("web")' /\ ~Busy("web")'
  BY <1>4, <1>7, <1>8 DEF Flushing, Busy
<1>11. ~Flushing("loop") /\ ~Flushing("web")
  BY <1>1, <1>3, <1>4 DEF Flushing
<1>12. Meaning(Output(writing["loop"]))' = Default
  <2>1. Output(writing["loop"])' = OutputOf(fresh, Default)
    BY <1>1, <1>8 DEF Output, OutputOf, Given, Document
  <2>2. QED
    BY <1>7, <1>9, <2>1, DefaultIsConfig, OutputMeans
<1>13. StoreTypeOK'
  <2>1. \A u \in Tasks : writing'[u] = Idle \/ IsWrite(writing'[u], Whys(u))
    BY <1>2, <1>7, <1>8 DEF StoreTypeOK, Tasks
  <2>2. file' = NoFile \/ IsDocument(file')
    BY <1>1, <1>2 DEF StoreTypeOK
  <2>3. cut' \in BOOLEAN
    BY <1>1, <1>2, <1>6 DEF StoreTypeOK
  <2>4. QED
    BY <1>1, <1>2, <1>8, <2>1, <2>2, <2>3, DefaultIsConfig, Zenon DEF StoreTypeOK
<1>14. BootAlone'
  BY <1>1, <1>4, <1>7, <1>8, <1>9, <1>10 DEF BootAlone, Booting
<1>15. BothMixed'
  BY <1>10 DEF BothMixed
<1>16. phase' # "running"
  BY <1>1, <1>4
<1>17. OneMeaning'
  <2>1. SUFFICES ASSUME ~cut', NEW c \in wanted', wanted' = {c}
                 PROVE  AllMean(c)'
    BY DEF OneMeaning
  <2>2. AllMean(c) /\ file' = file
    BY <1>1, <2>1 DEF IInv, OneMeaning
  <2>3. Same(Default, c)
    BY <1>3, <1>5, <2>2 DEF AllMean
  <2>4. Same(MeaningOf(file)', c)
    BY <1>11, <2>2 DEF AllMean, MeaningOf
  <2>5. QED
    BY <1>12, <1>16, <2>3, <2>4 DEF AllMean
<1>18. FileThere'
  BY <1>16 DEF FileThere
<1>19. AllHarmless'
  <2>1. Legible(Default, wanted', cut') /\ cut \in BOOLEAN /\ cut' \in BOOLEAN
    BY <1>2, <1>13, AskedIsHarmless DEF StoreTypeOK
  <2>2. Legible(MeaningOf(file)', wanted', cut')
    <3>1. CASE gone
      BY <1>1, <2>1, <3>1 DEF MeaningOf
    <3>2. CASE ~gone
      <4>1. MeaningOf(file)' = MeaningOf(file) /\ (cut' <=> cut)
        BY <1>1, <1>2, <3>2 DEF MeaningOf
      <4>2. Legible(MeaningOf(file), wanted', cut')
        BY <1>1, <2>1, <4>1, HarmlessStays DEF IInv, AllHarmless
      <4>3. QED
        BY <4>1, <4>2
    <3>3. QED
      BY <3>1, <3>2
  <2>3. QED
    BY <1>12, <1>16, <2>1, <2>2 DEF AllHarmless
<1>20. SaveAsked'
  BY <1>7, <1>8 DEF SaveAsked
<1>21. QED
  BY <1>13, <1>14, <1>15, <1>17, <1>18, <1>19, <1>20 DEF IInv

\* The file system is erased: the device is to start with the defaults.
LEMMA FormatKeeps == IInv /\ Format => IInv'
<1> SUFFICES ASSUME IInv, Format PROVE IInv'
  OBVIOUS
<1>1. /\ phase = "running" /\ ~Busy("loop")
      /\ file' = NoFile /\ phase' = "halt" /\ cut' = FALSE
      /\ writing' = [u \in Tasks |->
             IF Flushing(u) THEN Opened(writing[u], TRUE) ELSE writing[u]]
      /\ wanted' = {Default} \cup InHand({u \in Tasks : Busy(u)})
      /\ ram' = ram /\ console' = console
  BY DEF Format, AtPrompt, Ready, services
<1>2. "loop" \in Tasks /\ "web" \in Tasks
  BY DEF Tasks
<1>3. StoreTypeOK
  BY DEF IInv
<1>4. /\ writing' = [u \in Tasks |-> writing'[u]]
      /\ \A u \in Tasks : Flushing(u) => writing'[u] = Opened(writing[u], TRUE)
      /\ \A u \in Tasks : ~Flushing(u) => writing'[u] = writing[u]
  BY <1>1, Zenon
<1>5. /\ writing'["loop"] = writing["loop"] /\ ~Booting(writing["loop"])
      /\ writing["loop"].why = "idle"
  BY <1>1, <1>2, <1>3, <1>4, TaskFacts
<1>6. ~Booting(writing["loop"])' /\ ~Flushing("loop")'
  BY <1>1, <1>5 DEF Booting, Flushing, Busy
<1>7. MeaningOf(file)' = Default
  BY <1>1 DEF MeaningOf
<1>8. StoreTypeOK'
  <2>1. ASSUME NEW u \in Tasks PROVE writing'[u] = Idle \/ IsWrite(writing'[u], Whys(u))
    <3>1. CASE Flushing(u)
      <4>1. IsWrite(writing[u], Whys(u)) /\ TRUE \in BOOLEAN /\ IsConfig(ram)
        BY <1>3, <3>1, TaskFacts DEF Flushing, StoreTypeOK
      <4>2. IsWrite(Opened(writing[u], TRUE), Whys(u))
        BY <4>1, OpenedWrite, Zenon
      <4>3. QED
        BY <1>4, <3>1, <4>2
    <3>2. CASE ~Flushing(u)
      BY <1>3, <1>4, <3>2 DEF StoreTypeOK
    <3>3. QED
      BY <3>1, <3>2
  <2>2. (\A w \in wanted' : IsConfig(w)) /\ wanted' # {}
    BY <1>1, <1>3, InHandMeans, DefaultIsConfig
  <2>3. cut' \in BOOLEAN /\ phase' \in {"boot", "running", "halt"}
    BY <1>1
  <2>4. QED
    BY <1>1, <1>3, <1>4, <2>1, <2>2, <2>3, Zenon DEF StoreTypeOK
<1>9. BootAlone'
  BY <1>1, <1>6 DEF BootAlone
<1>10. BothMixed'
  BY <1>6 DEF BothMixed
<1>11. OneMeaning'
  <2>1. SUFFICES ASSUME NEW c \in wanted', wanted' = {c} PROVE AllMean(c)'
    BY DEF OneMeaning
  <2>2. c = Default
    BY <1>1, <2>1
  <2>3. phase' # "running"
    BY <1>1
  <2>4. QED
    BY <1>6, <1>7, <2>2, <2>3 DEF AllMean, Same
<1>12. FileThere'
  BY <1>1 DEF FileThere
<1>13. AllHarmless'
  <2>1. Legible(Default, wanted', cut') /\ phase' # "running"
    BY <1>1, <1>8, AskedIsHarmless DEF StoreTypeOK
  <2>2. QED
    BY <1>6, <1>7, <2>1 DEF AllHarmless
<1>14. SaveAsked'
  BY <1>5 DEF SaveAsked
<1>15. QED
  BY <1>8, <1>9, <1>10, <1>11, <1>12, <1>13, <1>14 DEF IInv

------------------------------------------------------------------------------
(* Restarts and power failures.                                             *)

\* Wherever the device goes down, what is left in the file is harmless.
LEMMA DownKeeps == IInv /\ Down => IInv'
<1> SUFFICES ASSUME IInv, Down PROVE IInv'
  OBVIOUS
<1> DEFINE flushing == {t \in Tasks : Flushing(t)}
<1>1. /\ IF flushing = {} THEN file' \in Left("loop")
           ELSE \E t \in flushing : file' \in Left(t)
      /\ cut' = (cut \/ flushing # {} \/ file' # file)
      /\ wanted' = wanted \cup InHand(flushing)
      /\ ram' = Default
      /\ phase' = "boot" /\ up' = FALSE
      /\ writing' = [t \in Tasks |-> Idle]
      /\ console' = [mode |-> "kiss", dirty |-> FALSE, pasting |-> FALSE]
  BY Zenon DEF Down
<1>2. "loop" \in Tasks /\ "web" \in Tasks
  BY DEF Tasks
<1>3. StoreTypeOK
  BY DEF IInv
<1>4. /\ \A c \in InHand(flushing) : IsConfig(c)
      /\ \A t \in flushing : ~Booting(writing[t])
            => Meaning(Output(writing[t])) \in InHand(flushing)
  <2>1. flushing \subseteq {t \in Tasks : Busy(t)}
    BY DEF Flushing
  <2>2. QED
    BY <1>3, <2>1, InHandMeans, Zenon
<1>5. \A t \in flushing : t \in Tasks /\ Flushing(t)
  OBVIOUS
<1>6. flushing = {} => ~Flushing("loop") /\ ~Flushing("web")
  BY <1>2
<1> HIDE DEF flushing
<1>7. (\A c \in wanted' : IsConfig(c)) /\ wanted' # {}
  BY <1>1, <1>3, <1>4 DEF StoreTypeOK
<1>8. cut \in BOOLEAN /\ cut' \in BOOLEAN
  BY <1>1, <1>3 DEF StoreTypeOK
<1>9. /\ file' = NoFile \/ IsDocument(file')
      /\ Legible(MeaningOf(file)', wanted', cut')
  <2>1. CASE file' = file
    <3>1. Legible(MeaningOf(file), wanted, cut)
      BY DEF IInv, AllHarmless
    <3>2. wanted \subseteq wanted' /\ (cut => cut')
      BY <1>1
    <3>3. Legible(MeaningOf(file), wanted', cut')
      BY <1>8, <3>1, <3>2, HarmlessStays
    <3>4. MeaningOf(file)' = MeaningOf(file)
      BY <2>1 DEF MeaningOf
    <3>5. QED
      BY <1>3, <2>1, <3>3, <3>4 DEF StoreTypeOK
  <2>2. CASE file' = NoFile
    <3>1. MeaningOf(file)' = Default
      BY <2>2 DEF MeaningOf
    <3>2. QED
      BY <1>8, <2>2, <3>1, AskedIsHarmless
  <2>3. CASE \E t \in flushing : file' \in Cut(Output(writing[t]))
    <3>1. PICK t \in flushing : file' \in Cut(Output(writing[t]))
      BY <2>3
    <3>2. /\ t \in Tasks /\ Flushing(t) /\ wanted \subseteq wanted'
          /\ ~Booting(writing[t]) => Meaning(Output(writing[t])) \in wanted'
      BY <1>1, <1>4, <1>5
    <3>3. IsDocument(file') /\ Legible(Meaning(file'), wanted', TRUE)
      BY <1>7, <3>1, <3>2, CutInHand
    <3>4. cut' = TRUE
      BY <1>1, <3>1
    <3>5. MeaningOf(file)' = Meaning(file')
      BY <3>3, DocumentIsThere DEF MeaningOf
    <3>6. QED
      BY <3>3, <3>4, <3>5
  <2>4. \/ file' = file \/ file' = NoFile
        \/ \E t \in flushing : file' \in Cut(Output(writing[t]))
    <3>1. CASE flushing = {}
      BY <1>1, <1>6, <3>1 DEF Left
    <3>2. CASE flushing # {}
      BY <1>1, <1>5, <3>2 DEF Left
    <3>3. QED
      BY <3>1, <3>2
  <2>5. QED
    BY <2>1, <2>2, <2>3, <2>4
<1>10. \A t \in Tasks : writing'[t] = Idle
  BY <1>1
<1>11. /\ ~Busy("loop")' /\ ~Busy("web")' /\ ~Flushing("loop")' /\ ~Flushing("web")'
       /\ ~Booting(writing["loop"])'
  BY <1>2, <1>10, IdleFacts DEF Busy, Flushing, Booting
<1>12. StoreTypeOK'
  <2>1. /\ console' = [mode |-> console'.mode, dirty |-> console'.dirty,
                       pasting |-> console'.pasting]
        /\ console'.dirty = FALSE
    BY <1>1, ConsoleRecord
  <2>2. writing' = [t \in Tasks |-> writing'[t]]
    BY <1>1, <1>10
  <2>3. cut' \in BOOLEAN /\ phase' \in {"boot", "running", "halt"}
    BY <1>1, Zenon
  <2>4. QED
    BY <1>1, <1>7, <1>9, <1>10, <2>1, <2>2, <2>3, DefaultIsConfig, Zenon
       DEF StoreTypeOK
<1>13. BootAlone'
  <2>1. console'.dirty = FALSE
    BY <1>1, ConsoleRecord
  <2>2. QED
    BY <1>1, <1>11, <2>1 DEF BootAlone
<1>14. BothMixed'
  BY <1>11 DEF BothMixed
<1>15. OneMeaning'
  <2>1. SUFFICES ASSUME ~cut', NEW c \in wanted', wanted' = {c}
                 PROVE  AllMean(c)'
    BY DEF OneMeaning
  <2>2. ~cut /\ flushing = {} /\ file' = file
    BY <1>1, <2>1
  <2>3. wanted = {c}
    BY <1>1, <1>3, <2>1 DEF StoreTypeOK
  <2>4. AllMean(c)
    BY <2>2, <2>3 DEF IInv, OneMeaning
  <2>5. Same(MeaningOf(file)', c)
    BY <1>6, <2>2, <2>4 DEF AllMean, MeaningOf
  <2>6. QED
    BY <1>1, <1>11, <2>5 DEF AllMean
<1>16. FileThere'
  BY <1>1 DEF FileThere
<1>17. AllHarmless'
  BY <1>1, <1>9, <1>11 DEF AllHarmless
<1>18. SaveAsked'
  BY <1>2, <1>10, IdleFacts DEF SaveAsked
<1>19. QED
  BY <1>12, <1>13, <1>14, <1>15, <1>16, <1>17, <1>18 DEF IInv

------------------------------------------------------------------------------
(* Boot.                                                                    *)

\* There is no file: the defaults are written.
LEMMA BootFreshKeeps == IInv /\ BootFresh => IInv'
<1> SUFFICES ASSUME IInv, BootFresh PROVE IInv'
  OBVIOUS
<1>1. /\ phase = "boot" /\ ~Busy("loop") /\ file = NoFile
      /\ \/ writing' = [writing EXCEPT !["loop"] = Write("fresh", <<>>)]
         \/ writing' = [writing EXCEPT !["loop"] = Write("embedded", Embedded)]
      /\ ram' = Default /\ file' = file /\ phase' = phase /\ up' = up
      /\ console' = console /\ wanted' = wanted /\ cut' = cut
  BY DEF BootFresh, services, asked
<1>2. PICK w : /\ writing' = [writing EXCEPT !["loop"] = w]
               /\ \/ w = Write("fresh", <<>>)
                  \/ w = Write("embedded", Embedded)
  BY <1>1
<1>3. /\ IsWrite(w, Whys("loop")) /\ w.at = "open" /\ w.mixed = FALSE
      /\ Booting(w)
      /\ Given(w) => w.doc = Embedded
      /\ w.why # "save"
  <2>1. /\ "fresh" \in Whys("loop") /\ "embedded" \in Whys("loop")
        /\ "loop" \in Tasks /\ "fresh" # "embedded"
    BY SMT DEF Whys, Boots, Tasks
  <2>2. IsDocument(<<>>) /\ IsDocument(Embedded)
    BY EmptyMeans, EmbeddedMeans
  <2>3. CASE w = Write("fresh", <<>>)
    <3>1. IsWrite(w, Whys("loop")) /\ w.why = "fresh" /\ w.at = "open" /\ w.mixed = FALSE
      BY <2>1, <2>2, <2>3, NewWrite, SMT DEF Write
    <3>2. QED
      BY <3>1 DEF Booting, Given
  <2>4. CASE w = Write("embedded", Embedded)
    <3>1. /\ IsWrite(w, Whys("loop")) /\ w.why = "embedded" /\ w.at = "open"
          /\ w.mixed = FALSE /\ w.doc = Embedded
      BY <2>1, <2>2, <2>4, NewWrite, SMT DEF Write
    <3>2. QED
      BY <3>1 DEF Booting, Given
  <2>5. QED
    BY <1>2, <2>3, <2>4
<1>4. StoreTypeOK /\ ~up /\ ~Busy("web") /\ ~console.dirty
  BY <1>1 DEF IInv, BootAlone
<1>5. "loop" \in Tasks /\ "web" \in Tasks /\ "web" # "loop"
  BY SMT DEF Tasks
<1>6. /\ writing' = [u \in Tasks |-> writing'[u]]
      /\ writing'["loop"] = w
      /\ writing'["web"] = writing["web"]
  <2>1. writing = [u \in Tasks |-> writing[u]]
    BY <1>4 DEF StoreTypeOK
  <2>2. QED
    BY <1>2, <1>5, <2>1, SMT
<1>7. ~Flushing("loop") /\ ~Flushing("web")
  BY <1>1, <1>4 DEF Flushing
<1>8. ~Flushing("loop")' /\ ~Flushing("web")' /\ ~Busy("web")'
  BY <1>3, <1>4, <1>6 DEF Flushing, Busy
<1>9. MeaningOf(file) = Default /\ MeaningOf(file)' = Default
  BY <1>1 DEF MeaningOf
<1>10. Meaning(Output(writing["loop"]))' = Default
  <2>1. Output(writing["loop"])' = OutputOf(w, Default)
    BY <1>1, <1>6 DEF Output, OutputOf, Given, Document
  <2>2. CASE Given(w)
    <3>1. OutputOf(w, Default) = Embedded
      BY <1>3, <2>2 DEF OutputOf
    <3>2. QED
      BY <2>1, <3>1, EmbeddedMeans
  <2>3. CASE ~Given(w)
    BY <1>3, <2>1, <2>3, DefaultIsConfig, OutputMeans
  <2>4. QED
    BY <2>2, <2>3
<1>11. StoreTypeOK'
  <2>1. \A u \in Tasks : writing'[u] = Idle \/ IsWrite(writing'[u], Whys(u))
    BY <1>3, <1>4, <1>6 DEF StoreTypeOK, Tasks
  <2>2. QED
    BY <1>1, <1>4, <1>6, <2>1, DefaultIsConfig, Zenon DEF StoreTypeOK
<1>12. BootAlone'
  BY <1>1, <1>3, <1>4, <1>6, <1>8 DEF BootAlone, Booting
<1>13. BothMixed'
  BY <1>8 DEF BothMixed
<1>14. OneMeaning'
  <2>1. SUFFICES ASSUME ~cut', NEW c \in wanted', wanted' = {c}
                 PROVE  AllMean(c)'
    BY DEF OneMeaning
  <2>2. AllMean(c)
    BY <1>1, <2>1 DEF IInv, OneMeaning
  <2>3. Same(Default, c)
    BY <1>7, <1>9, <2>2 DEF AllMean
  <2>4. phase' # "running"
    BY <1>1
  <2>5. QED
    BY <1>9, <1>10, <2>3, <2>4 DEF AllMean
<1>15. FileThere'
  BY <1>1 DEF FileThere
<1>16. AllHarmless'
  <2>1. Legible(Default, wanted', cut') /\ phase' # "running"
    BY <1>1, <1>11, AskedIsHarmless DEF StoreTypeOK
  <2>2. QED
    BY <1>9, <1>10, <2>1 DEF AllHarmless
<1>17. SaveAsked'
  BY <1>3, <1>6 DEF SaveAsked
<1>18. QED
  BY <1>11, <1>12, <1>13, <1>14, <1>15, <1>16, <1>17 DEF IInv

\* The file lacks a key: what it means is written back, and nothing else.
LEMMA BootRewriteKeeps == IInv /\ BootRead /\ Incomplete(file) => IInv'
<1> SUFFICES ASSUME IInv, BootRead, Incomplete(file) PROVE IInv'
  OBVIOUS
<1> DEFINE w == Write("rewrite", <<>>)
<1>1. /\ phase = "boot" /\ ~Busy("loop") /\ file # NoFile
      /\ ram' = Read(file)
      /\ writing' = [writing EXCEPT !["loop"] = w]
      /\ file' = file /\ phase' = phase /\ up' = up
      /\ console' = console /\ wanted' = wanted /\ cut' = cut
  BY DEF BootRead, asked
<1>2. StoreTypeOK /\ ~up /\ ~Busy("web") /\ ~console.dirty
  BY <1>1 DEF IInv, BootAlone
<1>3. IsDocument(file)
  BY <1>1, <1>2 DEF StoreTypeOK
<1>4. /\ ram' = Adjusted(Meaning(file)) /\ IsConfig(Meaning(file))
      /\ IsConfig(Adjusted(Meaning(file))) /\ MeaningOf(file) = Meaning(file)
  BY <1>1, <1>3, ReadMeans, MeaningIsConfig, AdjustedFacts DEF MeaningOf
<1>5. /\ IsWrite(w, Whys("loop")) /\ w.at = "open" /\ w.mixed = FALSE
      /\ Booting(w) /\ ~Given(w) /\ w.why # "save"
  <2>1. /\ "rewrite" \in Whys("loop") /\ "rewrite" # "embedded"
        /\ "loop" \in Tasks /\ IsDocument(<<>>)
    BY EmptyMeans, SMT DEF Whys, Boots, Tasks
  <2>2. /\ IsWrite(w, Whys("loop")) /\ w.why = "rewrite" /\ w.at = "open"
        /\ w.mixed = FALSE
    BY <2>1, NewWrite, SMT DEF Write
  <2>3. QED
    BY <2>2 DEF Booting, Given
<1>6. "loop" \in Tasks /\ "web" \in Tasks /\ "web" # "loop"
  BY SMT DEF Tasks
<1> HIDE DEF w
<1>7. /\ writing' = [u \in Tasks |-> writing'[u]]
      /\ writing'["loop"] = w
      /\ writing'["web"] = writing["web"]
  <2>1. writing = [u \in Tasks |-> writing[u]]
    BY <1>2 DEF StoreTypeOK
  <2>2. QED
    BY <1>1, <1>6, <2>1, SMT
<1>8. ~Flushing("loop") /\ ~Flushing("web")
  BY <1>1, <1>2 DEF Flushing
<1>9. ~Flushing("loop")' /\ ~Flushing("web")' /\ ~Busy("web")'
  BY <1>2, <1>5, <1>7 DEF Flushing, Busy
<1>10. MeaningOf(file)' = MeaningOf(file)
  BY <1>1 DEF MeaningOf
<1>11. Meaning(Output(writing["loop"]))' = Adjusted(Meaning(file))
  <2>1. PICK c : c = Adjusted(Meaning(file))
    OBVIOUS
  <2>2. Output(writing["loop"])' = OutputOf(w, c)
    BY <1>4, <1>7, <2>1 DEF Output, OutputOf, Given, Document
  <2>3. IsConfig(c) /\ Meaning(OutputOf(w, c)) = c
    BY <1>4, <1>5, <2>1, OutputMeans
  <2>4. QED
    BY <2>1, <2>2, <2>3
<1>12. StoreTypeOK'
  <2>1. \A u \in Tasks : writing'[u] = Idle \/ IsWrite(writing'[u], Whys(u))
    BY <1>2, <1>5, <1>7 DEF StoreTypeOK, Tasks
  <2>2. IsConfig(ram')
    BY <1>4
  <2>3. QED
    BY <1>1, <1>2, <1>7, <2>1, <2>2, Zenon DEF StoreTypeOK
<1>13. BootAlone'
  BY <1>1, <1>2, <1>5, <1>7, <1>9 DEF BootAlone, Booting
<1>14. BothMixed'
  BY <1>9 DEF BothMixed
<1>15. OneMeaning'
  <2>1. SUFFICES ASSUME ~cut', NEW c \in wanted', wanted' = {c}
                 PROVE  AllMean(c)'
    BY DEF OneMeaning
  <2>2. AllMean(c)
    BY <1>1, <2>1 DEF IInv, OneMeaning
  <2>3. Same(MeaningOf(file), c)
    BY <1>8, <2>2 DEF AllMean
  <2>4. IsConfig(c) /\ Same(Adjusted(Meaning(file)), c)
    BY <1>1, <1>2, <1>4, <2>1, <2>3, SameFacts DEF StoreTypeOK
  <2>5. phase' # "running"
    BY <1>1
  <2>6. QED
    BY <1>4, <1>10, <1>11, <2>3, <2>5, <2>4 DEF AllMean
<1>16. FileThere'
  BY <1>1 DEF FileThere
<1>17. AllHarmless'
  <2>1. Legible(Meaning(file), wanted, cut) /\ phase' # "running"
    BY <1>1, <1>4 DEF IInv, AllHarmless
  <2>2. cut \in BOOLEAN /\ \A c \in wanted : IsConfig(c)
    BY <1>2 DEF StoreTypeOK
  <2>3. Harmless(Adjusted(Meaning(file)), wanted, cut)
    BY <1>4, <2>1, <2>2, LegibleIsRead
  <2>4. Legible(Adjusted(Meaning(file)), wanted, cut)
    BY <2>2, <2>3, HarmlessStays
  <2>5. QED
    BY <1>1, <1>4, <1>10, <1>11, <2>1, <2>4 DEF AllHarmless
<1>18. SaveAsked'
  BY <1>5, <1>7 DEF SaveAsked
<1>19. QED
  BY <1>12, <1>13, <1>14, <1>15, <1>16, <1>17, <1>18 DEF IInv

\* A role the platform lacks is replaced by the tracker's.
LEMMA RoleReplaced ==
    ASSUME NEW c, IsConfig(c)
    PROVE  IsConfig([c EXCEPT !.role = "tracker"])
BY SMT DEF IsConfig, Settings

\* The file is complete: the device runs with what it means, but for a role
\* the platform lacks, which it asks to keep replaced.
LEMMA BootRunKeeps == IInv /\ BootRead /\ ~Incomplete(file) => IInv'
<1> SUFFICES ASSUME IInv, BootRead, ~Incomplete(file) PROVE IInv'
  OBVIOUS
<1> DEFINE replaced == ~Supported(Read(file).role)
           w == Write("role", <<>>)
<1>1. /\ phase = "boot" /\ ~Busy("loop") /\ file # NoFile
      /\ ram' = IF replaced THEN [Read(file) EXCEPT !.role = "tracker"]
                ELSE Read(file)
      /\ phase' = "running"
      /\ replaced => /\ writing' = [writing EXCEPT !["loop"] = w]
                     /\ wanted' = wanted \cup {ram'} /\ cut' = cut
      /\ ~replaced => writing' = writing /\ wanted' = wanted /\ cut' = cut
      /\ file' = file /\ console' = console
  BY DEF BootRead, asked, Begin
<1>2. StoreTypeOK /\ ~up /\ ~Busy("web") /\ ~console.dirty
  BY <1>1 DEF IInv, BootAlone
<1>3. IsDocument(file)
  BY <1>1, <1>2 DEF StoreTypeOK
<1>4. /\ Read(file) = Adjusted(Meaning(file)) /\ IsConfig(Meaning(file))
      /\ IsConfig(Read(file))
      /\ MeaningOf(file) = Meaning(file) /\ MeaningOf(file)' = Meaning(file)
  BY <1>1, <1>3, ReadMeans, MeaningIsConfig, AdjustedFacts DEF MeaningOf
<1>5. /\ IsConfig(ram')
      /\ ~replaced => ram' = Adjusted(Meaning(file))
  BY <1>1, <1>4, RoleReplaced
<1>6. IsWrite(w, Whys("loop")) /\ w.at = "open" /\ ~Booting(w) /\ w.why # "save"
  <2>1. /\ "role" \in Whys("loop") /\ "role" # "embedded"
        /\ "loop" \in Tasks /\ IsDocument(<<>>)
    BY EmptyMeans, SMT DEF Whys, Boots, Tasks
  <2>2. IsWrite(w, Whys("loop")) /\ w.why = "role" /\ w.at = "open"
    BY <2>1, NewWrite, SMT DEF Write
  <2>3. QED
    BY <2>2 DEF Booting
<1>7. "loop" \in Tasks /\ "web" \in Tasks /\ "web" # "loop"
  BY SMT DEF Tasks
<1>8. /\ ~Flushing("loop") /\ ~Flushing("web") /\ ~Booting(writing["loop"])
      /\ writing["loop"].why = "idle"
  BY <1>1, <1>2, <1>7, TaskFacts
<1> HIDE DEF w, replaced
<1>9. /\ writing' = [u \in Tasks |-> writing'[u]]
      /\ writing'["loop"] = w \/ writing'["loop"] = writing["loop"]
      /\ writing'["web"] = writing["web"]
  <2>1. writing = [u \in Tasks |-> writing[u]]
    BY <1>2 DEF StoreTypeOK
  <2>2. writing' = writing \/ writing' = [writing EXCEPT !["loop"] = w]
    BY <1>1
  <2>3. CASE writing' = writing
    BY <2>1, <2>3
  <2>4. CASE writing' = [writing EXCEPT !["loop"] = w]
    BY <1>7, <2>1, <2>4, SMT
  <2>5. QED
    BY <2>2, <2>3, <2>4
<1>10. ~Flushing("loop")' /\ ~Flushing("web")' /\ ~Booting(writing["loop"])'
  BY <1>6, <1>8, <1>9 DEF Flushing, Busy, Booting
<1>11. /\ wanted \subseteq wanted' /\ (\A c \in wanted' : IsConfig(c))
       /\ wanted' # {} /\ cut' = cut
       /\ replaced => ram' \in wanted'
       /\ ~replaced => wanted' = wanted
  BY <1>1, <1>2, <1>5 DEF StoreTypeOK
<1>12. StoreTypeOK'
  <2>1. \A u \in Tasks : writing'[u] = Idle \/ IsWrite(writing'[u], Whys(u))
    BY <1>2, <1>6, <1>9 DEF StoreTypeOK, Tasks
  <2>2. phase' \in {"boot", "running", "halt"}
    BY <1>1
  <2>3. QED
    BY <1>1, <1>2, <1>5, <1>9, <1>11, <2>1, <2>2, Zenon DEF StoreTypeOK
<1>13. BootAlone'
  BY <1>1, <1>10 DEF BootAlone
<1>14. BothMixed'
  BY <1>10 DEF BothMixed
<1>15. OneMeaning'
  <2>1. SUFFICES ASSUME ~cut', NEW c \in wanted', wanted' = {c}
                 PROVE  AllMean(c)'
    BY DEF OneMeaning
  <2>2. wanted = {c}
    BY <1>2, <1>11, <2>1 DEF StoreTypeOK
  <2>3. AllMean(c)
    BY <1>11, <2>1, <2>2 DEF IInv, OneMeaning
  <2>4. Same(MeaningOf(file), c)
    BY <1>8, <2>3 DEF AllMean
  <2>5. Same(ram', c)
    <3>1. CASE replaced
      BY <1>11, <2>1, <3>1 DEF Same
    <3>2. CASE ~replaced
      <4>1. IsConfig(c) /\ Same(Meaning(file), c)
        BY <1>4, <1>11, <2>1, <2>4
      <4>2. QED
        BY <1>5, <3>2, <4>1, SameFacts
    <3>3. QED
      BY <3>1, <3>2
  <2>6. QED
    BY <1>4, <1>10, <2>4, <2>5 DEF AllMean
<1>16. FileThere'
  BY <1>1 DEF FileThere
<1>17. AllHarmless'
  <2>1. /\ Legible(MeaningOf(file), wanted, cut) /\ cut \in BOOLEAN
        /\ \A c \in wanted : IsConfig(c)
    BY <1>2 DEF IInv, AllHarmless, StoreTypeOK
  <2>2. Legible(MeaningOf(file), wanted', cut')
    BY <1>11, <2>1, HarmlessStays
  <2>3. Harmless(ram', wanted', cut')
    <3>1. CASE replaced
      BY <1>11, <2>1, <3>1, AskedIsHarmless
    <3>2. CASE ~replaced
      BY <1>4, <1>5, <1>11, <2>1, <3>2, LegibleIsRead
    <3>3. QED
      BY <3>1, <3>2
  <2>4. QED
    BY <1>4, <1>10, <2>2, <2>3 DEF AllHarmless
<1>18. SaveAsked'
  BY <1>6, <1>8, <1>9 DEF SaveAsked
<1>19. QED
  BY <1>12, <1>13, <1>14, <1>15, <1>16, <1>17, <1>18 DEF IInv

------------------------------------------------------------------------------
(* The remaining commands of the console, which write nothing.              *)

\* Entering the setup console.
LEMMA EnterSetupKeeps == IInv /\ EnterSetup => IInv'
<1> SUFFICES ASSUME IInv, EnterSetup PROVE IInv'
  OBVIOUS
<1>1. /\ phase = "running" /\ console.mode = "kiss"
      /\ console' = [mode |-> "setup", dirty |-> FALSE, pasting |-> FALSE]
      /\ UNCHANGED <<file, ram, writing, wanted, cut, phase>>
  BY DEF EnterSetup, Ready, store, asked
<1>2. ~console.dirty
  BY <1>1 DEF IInv, StoreTypeOK
<1>3. /\ console' = [mode |-> console'.mode, dirty |-> console'.dirty,
                     pasting |-> console'.pasting]
      /\ console'.dirty = FALSE
  BY <1>1, ConsoleRecord
<1>4. QED
  BY <1>1, <1>2, <1>3, Unmoved

\* Leaving it.
LEMMA ExitKeeps == IInv /\ Exit => IInv'
<1> SUFFICES ASSUME IInv, Exit PROVE IInv'
  OBVIOUS
<1>1. /\ phase = "running" /\ ~console.dirty
      /\ console' = [console EXCEPT !.mode = "kiss"]
      /\ UNCHANGED <<file, ram, writing, wanted, cut, phase>>
  BY DEF Exit, AtPrompt, Ready, store, asked
<1>2. console' = [mode |-> "kiss", dirty |-> console.dirty,
                  pasting |-> console.pasting]
  BY <1>1, ConsoleFields DEF IInv, StoreTypeOK
<1>3. /\ console' = [mode |-> console'.mode, dirty |-> console'.dirty,
                     pasting |-> console'.pasting]
      /\ console'.dirty = console.dirty
  BY <1>2, ConsoleRecord
<1>4. console.dirty \in BOOLEAN
  BY DEF IInv, StoreTypeOK
<1>5. QED
  BY <1>1, <1>3, <1>4, Unmoved

\* Beginning to paste a document, and giving it up.
LEMMA PastingKeeps == IInv /\ (BeginImport \/ RejectImport) => IInv'
<1> SUFFICES ASSUME IInv, BeginImport \/ RejectImport PROVE IInv'
  OBVIOUS
<1>1. /\ phase = "running"
      /\ UNCHANGED <<file, ram, writing, wanted, cut, phase>>
  BY DEF BeginImport, RejectImport, AtPrompt, Ready, store, asked
<1>2. PICK v : console' = [console EXCEPT !.pasting = v]
  BY DEF BeginImport, RejectImport
<1>3. console' = [mode |-> console.mode, dirty |-> console.dirty, pasting |-> v]
  BY <1>2, ConsoleFields DEF IInv, StoreTypeOK
<1>4. /\ console' = [mode |-> console'.mode, dirty |-> console'.dirty,
                     pasting |-> console'.pasting]
      /\ console'.dirty = console.dirty /\ console'.mode = console.mode
  BY <1>3, ConsoleRecord
<1>5. console.dirty \in BOOLEAN /\ (console.mode = "kiss" => ~console.dirty)
  BY DEF IInv, StoreTypeOK
<1>6. QED
  BY <1>1, <1>4, <1>5, Unmoved

\* Rebooting on command.
LEMMA RebootKeeps == IInv /\ Reboot => IInv'
<1> SUFFICES ASSUME IInv, Reboot PROVE IInv'
  OBVIOUS
<1>1. /\ phase = "running" /\ phase' = "halt"
      /\ UNCHANGED <<file, ram, writing, wanted, cut, console>>
  BY DEF Reboot, AtPrompt, Ready, store, asked, services
<1>2. /\ console = [mode |-> console.mode, dirty |-> console.dirty,
                    pasting |-> console.pasting]
      /\ console.dirty \in BOOLEAN /\ (console.mode = "kiss" => ~console.dirty)
  BY DEF IInv, StoreTypeOK
<1>3. QED
  BY <1>1, <1>2, Unmoved

\* The reboot on the web page.
LEMMA WebRebootKeeps == IInv /\ WebReboot => IInv'
<1> SUFFICES ASSUME IInv, WebReboot PROVE IInv'
  OBVIOUS
<1>1. /\ up /\ phase' = phase
      /\ UNCHANGED <<file, ram, writing, wanted, cut, console>>
  BY DEF WebReboot, store, asked
<1>2. phase # "boot"
  BY <1>1 DEF IInv, BootAlone
<1>3. /\ console = [mode |-> console.mode, dirty |-> console.dirty,
                    pasting |-> console.pasting]
      /\ console.dirty \in BOOLEAN /\ (console.mode = "kiss" => ~console.dirty)
  BY DEF IInv, StoreTypeOK
<1>4. QED
  BY <1>1, <1>2, <1>3, Unmoved

------------------------------------------------------------------------------
(* The theorems.                                                            *)

\* No step breaks the inductive invariant.
LEMMA NextIInv == IInv /\ [Next]_vars => IInv'
<1> SUFFICES ASSUME IInv, [Next]_vars PROVE IInv'
  OBVIOUS
<1>1. CASE BootFresh
  BY <1>1, BootFreshKeeps
<1>2. CASE BootRead
  BY <1>2, BootRewriteKeeps, BootRunKeeps
<1>3. CASE Restart \/ Crash
  BY <1>3, DownKeeps DEF Restart, Crash
<1>4. CASE \E t \in Tasks : OpenFile(t) \/ Flush(t)
  BY <1>4, OpenFileKeeps, FlushKeeps
<1>5. CASE \E t \in Tasks : OpenFails(t) \/ FlushShort(t)
  BY <1>5, WriteGivenUp, EmbeddedGivenUp, FlushShortKeeps
<1>6. CASE EnterSetup \/ Save \/ Exit \/ Reboot \/ Format
  BY <1>6, EnterSetupKeeps, SaveKeeps, ExitKeeps, RebootKeeps, FormatKeeps
<1>7. CASE BeginImport \/ RejectImport \/ WebReboot
  BY <1>7, PastingKeeps, WebRebootKeeps
<1>8. CASE \E doc \in Pastes : CommitImport(doc)
  BY <1>8, CommitImportKeeps
<1>9. CASE \E f \in Editable : \E v \in NewValues[f] :
             Edit(f, v) \/ RemoteWrite(f, v) \/ WebSave(f, v)
  BY <1>9, EditKeeps, RemoteWriteKeeps, WebSaveKeeps
<1>10. CASE UNCHANGED vars
  <2>1. UNCHANGED <<file, ram, writing, wanted, cut, phase, console, up>>
    BY <1>10 DEF vars
  <2>2. /\ Booting(writing["loop"])' = Booting(writing["loop"])
        /\ Output(writing["loop"])' = Output(writing["loop"])
        /\ Flushing("loop")' = Flushing("loop") /\ Flushing("web")' = Flushing("web")
        /\ Busy("loop")' = Busy("loop") /\ Busy("web")' = Busy("web")
        /\ MeaningOf(file)' = MeaningOf(file)
    BY <2>1 DEF Booting, Output, Given, Flushing, Busy, MeaningOf
  <2>3. StoreTypeOK' /\ BootAlone'
    BY <2>1, <2>2 DEF IInv, StoreTypeOK, BootAlone
  <2>4. BothMixed' /\ FileThere'
    BY <2>1, <2>2 DEF IInv, BothMixed, FileThere
  <2>5. OneMeaning'
    BY <2>1, <2>2 DEF IInv, OneMeaning, AllMean
  <2>6. AllHarmless'
    BY <2>1, <2>2 DEF IInv, AllHarmless
  <2>7. SaveAsked'
    BY <2>1 DEF IInv, SaveAsked
  <2>8. QED
    BY <2>3, <2>4, <2>5, <2>6, <2>7 DEF IInv
<1>11. QED
  BY <1>1, <1>2, <1>3, <1>4, <1>5, <1>6, <1>7, <1>8, <1>9, <1>10
     DEF Next, Device, Users, Failures

\* The inductive invariant holds in every reachable state: what the file, RAM
\* and the writes in hand mean agrees with what was asked for, as given or as
\* adjusted, and of what was cut only defaults and shorter values are left.
THEOREM SpecIInv == Spec => []IInv
<1>1. Init => IInv
  BY InitIInv
<1>2. IInv /\ [Next]_vars => IInv'
  BY NextIInv
<1>3. QED
  BY <1>1, <1>2, PTL DEF Spec

\* A device at rest that the console calls clean runs with what it was last
\* asked to keep, or that as the firmware adjusts it, and its file says the
\* same, unless a write was cut.
THEOREM SpecCleanMeansSaved == Spec => []CleanMeansSaved
<1>1. IInv => CleanMeansSaved
  <2>1. SUFFICES ASSUME IInv, AtRest, ~cut, NEW w \in wanted, wanted = {w}
                 PROVE  /\ ram \in {w, Adjusted(w)}
                        /\ file # NoFile /\ Meaning(file) \in {w, Adjusted(w)}
    BY DEF CleanMeansSaved
  <2>2. AllMean(w)
    BY <2>1 DEF IInv, OneMeaning
  <2>3. /\ phase = "running" /\ ~console.dirty
        /\ ~Flushing("loop") /\ ~Flushing("web")
    BY <2>1 DEF AtRest, Flushing, Tasks
  <2>4. Same(ram, w) /\ Same(MeaningOf(file), w)
    BY <2>2, <2>3 DEF AllMean
  <2>5. file # NoFile
    BY <2>1, <2>3 DEF IInv, FileThere
  <2>6. QED
    BY <2>4, <2>5 DEF MeaningOf, Same
<1>2. QED
  BY <1>1, SpecIInv, PTL

\* However often writes are cut, a device at rest runs with settings that were
\* asked for or are the default, adjusted, or with what cuts leave of them.
THEOREM SpecCrashOnlyResets == Spec => []CrashOnlyResets
<1>1. IInv => CrashOnlyResets
  BY DEF IInv, AllHarmless, AtRest, Harmless, CrashOnlyResets
<1>2. QED
  BY <1>1, SpecIInv, PTL
=============================================================================
