----------------------------- MODULE ConfigStore -----------------------------
(***************************************************************************)
(* The configuration store: the running configuration (RAM), the file      *)
(* tracker_conf.json, the boot sequence that reads, migrates and rewrites  *)
(* it, and the writers of a running device: the serial console and the     *)
(* remote configuration in loop(), the web form in the web server's task.  *)
(*                                                                         *)
(* The file is a JSON document; here it is a function from the keys it     *)
(* holds to their values.  A document cut short by a reset holds the keys  *)
(* before the cut, and of the last one perhaps the first digits of a       *)
(* number or the first entries of a list: the parser reports the error,    *)
(* readFile() only logs it, and what was parsed counts.                    *)
(* Eight settings stand for the rest: taken as it is (the role), migrated  *)
(* from an older key with a rewrite (the rate, the digipeater mode, the    *)
(* networks) and without one (the path), clamped with a rewrite (the slow  *)
(* rate of the custom SmartBeacon profile), raised without one (the sleep  *)
(* voltage of a T_BEAM_1W), and lacking in the embedded default document   *)
(* (the remote configuration).                                             *)
(***************************************************************************)
EXTENDS Integers, Sequences, Functions

CONSTANTS
    Platform,      \* "nrf52", "esp32", or "tbeam1w": an ESP32 with two cells
    FirstFiles,    \* the files a device may be switched on with
    Pastes,        \* the documents pasted into `import'
    Editable,      \* the settings users change
    NewValues,       \* NewValues[f]: the values users give to setting f
    MaxCrashes,    \* bound on power failures
    MaxFaults,     \* bound on failed or short writes
    MaxChanges     \* bound on edits and writes asked for

VARIABLES
    file,          \* tracker_conf.json, or NoFile
    ram,           \* Config
    phase,         \* "boot", "running", or "halt": loop() waits to restart
    up,            \* the web server has been started
    writing,       \* per task: the write under way
    console,       \* serial console: [mode, dirty, pasting]
    timer,         \* the web server's restart timer is armed
    due,           \* the remote configuration's restart is due
    crashes, faults, changes,
    \* Auxiliary: what the device has been asked to keep, and whether the
    \* file has been cut short since.
    wanted, cut

store    == <<file, ram, writing>>
services == <<up, console, timer, due>>
budget   == <<crashes, faults, changes>>
asked    == <<wanted, cut>>
vars     == <<file, ram, phase, up, writing, console, timer, due,
              crashes, faults, changes, wanted, cut>>

Tasks    == {"loop", "web"}
NoFile   == [missing |-> TRUE]
Idle     == [why |-> "idle"]
Settings == {"sleep", "path", "rate", "digi", "slow", "nets", "role", "remote"}

\* The naturals of 32 bits: rates in seconds, and tenths of a volt.
Nat32 == {n \in Nat : n <= 2147483647}

\* A list of WiFi networks as every writer of the program keeps it: at most
\* MAX_WIFI_NETWORKS, each with a name.
IsList(v) ==
    \E n \in 0 .. 5 :
        /\ v = [i \in 1 .. n |-> v[i]]
        /\ \A i \in 1 .. n :
              DOMAIN v[i] = {"ssid", "password"} /\ v[i].ssid # ""

\* setDefaultValues() and the defaults of readFile() for these settings.
Default == [sleep |-> IF Platform = "tbeam1w" THEN 60 ELSE 29,
            path |-> "WIDE1-1", rate |-> 900, digi |-> "off", slow |-> 120,
            nets |-> <<>>, role |-> "tracker", remote |-> FALSE]

\* data/tracker_conf.json, embedded in the nRF52 build: it has no remoteCfg.
Embedded == Restrict(Default, Settings \ {"remote"})

------------------------------------------------------------------------------
(* The document: what writeFile() writes and what readFile() makes of it.   *)

DocumentForgettingDigi(c) == Restrict(c, Settings \ {"digi"})

Document(c) == Restrict(c, Settings)

\* The order of the keys in the document, older keys beside the new ones.
KeyOrder == <<"sleep", "path", "oldPath", "rate", "minutes", "digi",
              "digipeating", "slow", "nets", "ssid", "password", "role",
              "remote">>

FirstKeys(n) == {KeyOrder[i] : i \in 1 .. n}
Keys         == FirstKeys(Len(KeyOrder))

\* A number that lost its last digits, but not all of them: one of 32 bits
\* has at most ten.
Powers       == {10, 100, 1000, 10000, 100000, 1000000, 10000000, 100000000,
                 1000000000}
Shortened(n) == {n \div p : p \in Powers} \ {0}

\* A voltage, in tenths, that lost its decimal, and digits before it.
ShortVolts(n) == {10 * k : k \in {n \div 10} \cup Shortened(n \div 10)}

\* A list that lost its last entries, or those and the last one's password.
Shorter(v, m, open) ==
    [i \in 1 .. m |-> IF open /\ i = m
                      THEN [ssid |-> v[i].ssid, password |-> ""] ELSE v[i]]

Broken(v) ==
    UNION {{Shorter(v, m, open) : open \in BOOLEAN} : m \in {0} \cup DOMAIN v}

\* What a cut inside the value of a key leaves of it: strings and the modes,
\* which are one digit, go as a whole.
Remains(k, v) ==
    CASE k \in {"rate", "minutes", "slow"} -> Shortened(v)
      [] k = "sleep" -> ShortVolts(v)
      [] k = "nets"  -> Broken(v)
      [] OTHER       -> {}

\* What the parser makes of a document of which only a part reached the file:
\* the first n keys, the last of them perhaps in part.
Kept(doc, n) == Restrict(doc, DOMAIN doc \cap FirstKeys(n))

Clipped(doc, n) ==
    {[Kept(doc, n) EXCEPT ![KeyOrder[n]] = v] :
        v \in UNION {Remains(k, doc[k]) : k \in {KeyOrder[n]} \cap DOMAIN doc}}

Cut(doc) ==
    {doc} \cup UNION {{Kept(doc, n - 1)} \cup Clipped(doc, n) :
                      n \in 1 .. Len(KeyOrder)}

\* A document of some generation of the firmware, edited by hand perhaps:
\* its numbers are of 32 bits, whichever key holds them.
IsDocument(doc) ==
    /\ DOMAIN doc \subseteq Keys
    /\ \A k \in {"sleep", "rate", "slow"} \cap DOMAIN doc : doc[k] \in Nat32
    /\ "minutes" \in DOMAIN doc =>
          doc.minutes \in Nat /\ 60 * doc.minutes \in Nat32
    /\ "nets" \in DOMAIN doc => IsList(doc.nets)

\* Users change settings to values of their types.
ASSUME StoreAssumption ==
    /\ Platform \in {"esp32", "tbeam1w", "nrf52"}
    /\ \A doc \in (FirstFiles \ {NoFile}) \cup Pastes : IsDocument(doc)
    /\ Editable \subseteq Settings
    /\ \A k \in {"sleep", "rate", "slow"} \cap Editable :
          NewValues[k] \subseteq Nat32
    /\ "nets" \in Editable => \A v \in NewValues["nets"] : IsList(v)
    /\ MaxCrashes \in Nat /\ MaxFaults \in Nat /\ MaxChanges \in Nat

Value(doc, k, d) == IF k \in DOMAIN doc THEN doc[k] ELSE d

\* Seconds; an older firmware stored minutes under another key.
ReadRateAsMinutes(doc) == Value(doc, "rate", Value(doc, "minutes", 15)) * 60

ReadRate(doc) == Value(doc, "rate", Value(doc, "minutes", 15) * 60)

\* A mode; an older firmware stored a switch under another key.
ReadDigi(doc) ==
    Value(doc, "digi", IF Value(doc, "digipeating", FALSE) THEN "wide1" ELSE "off")

\* A list; an older firmware stored one network.
ReadNetworksOnly(doc) == Value(doc, "nets", <<>>)

ReadNetworks(doc) ==
    LET ssid == Value(doc, "ssid", "")
    IN  Value(doc, "nets",
              IF ssid = "" THEN <<>>
              ELSE <<[ssid |-> ssid, password |-> Value(doc, "password", "")]>>)

\* clampCustomValues(), to the range of the slow rate.
Fit(n) == IF n < 10 THEN 10 ELSE IF n > 3600 THEN 3600 ELSE n

\* A cutoff meant for one cell is raised to that of two, where there are two.
Upgraded(n) == IF Platform = "tbeam1w" /\ n < 50 THEN 60 ELSE n

Read(doc) ==
    [sleep  |-> Upgraded(Value(doc, "sleep", 29)),
     path   |-> Value(doc, "path", Value(doc, "oldPath", Default.path)),
     rate   |-> ReadRate(doc),
     digi   |-> ReadDigi(doc),
     slow   |-> Fit(Value(doc, "slow", 120)),
     nets   |-> ReadNetworks(doc),
     role   |-> Value(doc, "role", Default.role),
     remote |-> Value(doc, "remote", Default.remote)]

\* needsRewrite of readFile(): any key missing, except that the older name
\* of the path is as good as the new one, or a value clamped.
Incomplete(doc) ==
    \/ ~(Settings \ {"path"} \subseteq DOMAIN doc)
    \/ DOMAIN doc \cap {"path", "oldPath"} = {}
    \/ Fit(doc.slow) # doc.slow

\* The keys of older firmware, and what a document says with them.
OlderKey == [path |-> "oldPath", rate |-> "minutes", digi |-> "digipeating",
             nets |-> "ssid"]

Translated(f, doc) ==
    CASE f = "path" -> doc.oldPath
      [] f = "rate" -> 60 * doc.minutes
      [] f = "digi" -> IF doc.digipeating THEN "wide1" ELSE "off"
      [] f = "nets" -> IF doc.ssid = "" THEN <<>>
                       ELSE <<[ssid |-> doc.ssid,
                               password |-> Value(doc, "password", "")]>>

\* What a document means, whichever generation of the firmware wrote it: a
\* setting's own key, else the older key translated, else the default.
Meaning(doc) ==
    [f \in Settings |->
        IF f \in DOMAIN doc THEN doc[f]
        ELSE IF f \in DOMAIN OlderKey /\ OlderKey[f] \in DOMAIN doc
             THEN Translated(f, doc)
        ELSE Default[f]]

\* The value a device settles on when it is given this one.
Fitted(f, v) ==
    CASE f = "slow"  -> Fit(v)
      [] f = "sleep" -> Upgraded(v)
      [] OTHER       -> v

Adjusted(c) == [f \in Settings |-> Fitted(f, c[f])]

------------------------------------------------------------------------------
(* One write: writeFile(), and the import's own copy of it.                 *)

Busy(t)     == writing[t] # Idle
Flushing(t) == Busy(t) /\ writing[t].at = "flush"

\* Why is the reason of the write; doc is the document, which is made from
\* Config when the file has been opened, unless it was given.
Write(why, doc) == [why |-> why, at |-> "open", doc |-> doc, mixed |-> FALSE]

Given(w)  == w.why \in {"import", "embedded"}
Booting(w) == w.why \in {"fresh", "embedded", "rewrite"}
Output(w) == IF Given(w) \/ w.at = "flush" THEN w.doc ELSE Document(ram)

\* What the writes of these tasks put in the file, but those of the boot
\* sequence, which nobody asked for.
InHand(tasks) == {Meaning(Output(writing[t])) :
                     t \in {u \in tasks : ~Booting(writing[u])}}

\* What happens after the write, by who asked for it; ok is what it returned.
After(t, ok) ==
    LET why == writing[t].why
        restart == \/ Booting(writing[t])
                   \/ why = "import" /\ ok
    IN  /\ writing' = [writing EXCEPT ![t] = Idle]
        /\ phase'   = IF restart THEN "halt" ELSE phase
        /\ console' = IF why = "save" /\ ok
                      THEN [console EXCEPT !.dirty = FALSE] ELSE console
        /\ timer'   = (timer \/ (why = "web" /\ ok))
        /\ due'     = (due \/ why = "remoteRole")
        /\ UNCHANGED <<crashes, changes, up>>

Opened(w, shared) ==
    [why |-> w.why, at |-> "flush", doc |-> Output(w), mixed |-> shared]

\* The file is opened: emptied on ESP32, removed and made anew on nRF52; and
\* the document is made from Config, which may change before it is flushed.
\* When the other task has it open too, neither write is its own any more.
OpenFile(t) ==
    /\ Busy(t) /\ writing[t].at = "open"
    /\ file' = <<>>
    /\ LET shared == \E u \in Tasks \ {t} : Flushing(u)
       IN  writing' = [u \in Tasks |->
              IF u = t THEN Opened(writing[t], shared)
              ELSE IF Flushing(u) THEN Opened(writing[u], TRUE)
              ELSE writing[u]]
    /\ UNCHANGED <<ram, phase, services, budget, asked>>

\* It cannot be opened.  On nRF52 the old file is already gone.
OpenFails(t) ==
    /\ Busy(t) /\ writing[t].at = "open" /\ faults < MaxFaults
    /\ faults' = faults + 1
    /\ file' = IF Platform = "nrf52" THEN NoFile ELSE file
    /\ cut'  = (cut \/ Platform = "nrf52")
    /\ IF writing[t].why = "embedded"
       THEN /\ ram' = Default
            /\ writing' = [writing EXCEPT ![t] = Write("fresh", <<>>)]
            /\ UNCHANGED <<crashes, changes, phase, services>>
       ELSE After(t, FALSE) /\ UNCHANGED ram
    /\ UNCHANGED wanted

\* A write leaves the device with nothing but what it wrote, when it had the
\* file to itself and nobody has changed Config since its document was made.
Settles(w) == ~w.mixed /\ (Given(w) \/ w.doc = Document(ram))

\* The document is written and the file closed.
Flush(t) ==
    /\ Flushing(t)
    /\ LET w == writing[t] IN
       /\ IF w.mixed THEN file' \in Cut(Output(w)) ELSE file' = Output(w)
       /\ IF Booting(w) THEN UNCHANGED asked
          ELSE /\ wanted' = InHand({u \in Tasks : Busy(u)})
                                    \cup (IF Settles(w) THEN {} ELSE wanted)
               /\ cut' = (w.mixed \/ (cut /\ ~Settles(w)))
    /\ After(t, TRUE)
    /\ UNCHANGED <<ram, faults>>

\* The flash takes only a part of it, which no writer but the import
\* notices, and that only when nothing at all was written.
FlushShort(t) ==
    /\ Flushing(t) /\ faults < MaxFaults
    /\ faults' = faults + 1
    /\ file' \in Cut(Output(writing[t]))
    /\ cut' = TRUE
    /\ wanted' = wanted \cup InHand({t})
    /\ \E ok \in BOOLEAN :
          /\ writing[t].why # "import" \/ DOMAIN file' # {} => ok
          /\ After(t, ok)
    /\ UNCHANGED ram

\* A write begins; config is what the device is asked to keep by it.
Begin(t, why, doc, config) ==
    /\ writing' = [writing EXCEPT ![t] = Write(why, doc)]
    /\ wanted'  = wanted \cup {config}

\* A user's change or request, of which there is a bounded number.
Ask ==
    /\ changes < MaxChanges
    /\ changes' = changes + 1
    /\ UNCHANGED <<crashes, faults>>

------------------------------------------------------------------------------
(* Boot: the constructor (ESP32) or init() (nRF52), then initializeRole().   *)

\* There is no file: it is made from the defaults, and the device restarts.
BootFresh ==
    /\ phase = "boot" /\ ~Busy("loop") /\ file = NoFile
    /\ IF Platform # "nrf52"
       THEN writing' = [writing EXCEPT !["loop"] = Write("fresh", <<>>)]
       ELSE writing' = [writing EXCEPT !["loop"] = Write("embedded", Embedded)]
    /\ ram' = Default
    /\ UNCHANGED <<file, phase, services, budget, asked>>

\* The nRF52 has no WiFi to be an iGate with.
Supported(role) == ~(Platform = "nrf52" /\ role = "igate")

\* The file is read; when a key is missing it is rewritten, and the device
\* restarts; otherwise it runs.  A role the platform lacks is replaced by
\* the tracker's, and that is saved.
BootRead ==
    /\ phase = "boot" /\ ~Busy("loop") /\ file # NoFile
    /\ LET config == Read(file)
           role   == ~Supported(config.role)
       IN  IF Incomplete(file)
           THEN /\ ram' = config
                /\ writing' = [writing EXCEPT !["loop"] = Write("rewrite", <<>>)]
                /\ UNCHANGED <<phase, up, asked>>
           ELSE /\ ram' = IF role THEN [config EXCEPT !.role = "tracker"]
                                  ELSE config
                /\ phase' = "running"
                /\ up' = (Platform # "nrf52")
                /\ IF role THEN Begin("loop", "role", <<>>, ram') /\ UNCHANGED cut
                           ELSE UNCHANGED <<writing, asked>>
    /\ UNCHANGED <<file, console, timer, due, budget>>

------------------------------------------------------------------------------
(* The serial console.                                                      *)

Ready == phase = "running" /\ ~Busy("loop")
AtPrompt == Ready /\ console.mode = "setup" /\ ~console.pasting

EnterSetup ==
    /\ Ready /\ console.mode = "kiss"
    /\ console' = [mode |-> "setup", dirty |-> FALSE, pasting |-> FALSE]
    /\ UNCHANGED <<store, phase, up, timer, due, budget, asked>>

\* A command with a role the platform lacks, or a slow rate out of range, is
\* refused; a pasted file is not checked.
Accepted(f, v) ==
    /\ f = "role" => Supported(v)
    /\ f = "slow" => Fit(v) = v

\* A command that changes a setting, in RAM.
Edit(f, v) ==
    /\ Ask
    /\ AtPrompt /\ Accepted(f, v)
    /\ ram' = [ram EXCEPT ![f] = v]
    /\ console' = [console EXCEPT !.dirty = TRUE]
    /\ UNCHANGED <<file, writing, phase, up, timer, due, asked>>

Save ==
    /\ Ask
    /\ AtPrompt
    /\ Begin("loop", "save", <<>>, ram)
    /\ UNCHANGED <<file, ram, phase, services, cut>>

\* `exit', refused while there are unsaved changes; `discard' without any.
Exit ==
    /\ AtPrompt /\ ~console.dirty
    /\ console' = [console EXCEPT !.mode = "kiss"]
    /\ UNCHANGED <<store, phase, up, timer, due, budget, asked>>

\* `reboot', and `discard' with unsaved changes.
Reboot ==
    /\ AtPrompt
    /\ phase' = "halt"
    /\ UNCHANGED <<store, services, budget, asked>>

\* `format': the file system is erased, under a write of the other task too.
Format ==
    /\ AtPrompt
    /\ file' = NoFile
    /\ phase' = "halt"
    /\ writing' = [u \in Tasks |->
              IF Flushing(u) THEN Opened(writing[u], TRUE) ELSE writing[u]]
    /\ wanted' = {Default} \cup InHand({t \in Tasks : Busy(t)})
    /\ cut' = FALSE
    /\ UNCHANGED <<ram, services, budget>>

\* `import', refused while there are unsaved changes.
BeginImport ==
    /\ AtPrompt /\ ~console.dirty
    /\ console' = [console EXCEPT !.pasting = TRUE]
    /\ UNCHANGED <<store, phase, up, timer, due, budget, asked>>

\* The paste is aborted, too long, does not parse, or has no callsign.
RejectImport ==
    /\ Ready /\ console.pasting
    /\ console' = [console EXCEPT !.pasting = FALSE]
    /\ UNCHANGED <<store, phase, up, timer, due, budget, asked>>

CommitImport(doc) ==
    /\ Ask
    /\ Ready /\ console.pasting
    /\ Begin("loop", "import", doc, Meaning(doc))
    /\ console' = [console EXCEPT !.pasting = FALSE]
    /\ UNCHANGED <<file, ram, phase, up, timer, due, cut>>

------------------------------------------------------------------------------
(* The other writers.                                                       *)

\* A remote write command, which has codes for a few of these settings:
\* applied, and saved whatever comes of it.
RemoteWrite(f, v) ==
    /\ Ask
    /\ Ready /\ f \in {"role", "path", "rate", "digi"} /\ Accepted(f, v)
    /\ ram' = [ram EXCEPT ![f] = v]
    /\ Begin("loop", IF f = "role" THEN "remoteRole" ELSE "remote", <<>>, ram')
    /\ UNCHANGED <<file, phase, services, cut>>

\* The web form, in the task of the web server; the settings that were not
\* changed in it come back as they were, and the slow rate is clamped.
WebSave(f, v) ==
    /\ Ask
    /\ up /\ ~Busy("web")   \* only ever up on ESP32
    /\ ram' = [ram EXCEPT ![f] = IF f = "slow" THEN Fit(v) ELSE v]
    /\ Begin("web", "web", <<>>, ram')
    /\ UNCHANGED <<file, phase, services, cut>>

\* The reboot on the web page.
WebReboot ==
    /\ up /\ ~Busy("web")
    /\ timer' = TRUE
    /\ UNCHANGED <<store, phase, up, console, due, budget, asked>>

------------------------------------------------------------------------------
(* Restarts and power failures: a write under way is cut where it is.       *)

Left(t) ==
    IF Flushing(t) THEN Cut(Output(writing[t]))
    ELSE IF Busy(t) /\ Platform = "nrf52" THEN {file, NoFile}
    ELSE {file}

Down ==
    LET flushing == {t \in Tasks : Flushing(t)}
    IN  /\ IF flushing = {} THEN file' \in Left("loop")
           ELSE \E t \in flushing : file' \in Left(t)
        /\ cut' = (cut \/ flushing # {} \/ file' # file)
        /\ wanted' = wanted \cup InHand(flushing)
        /\ ram' = Default
        /\ phase' = "boot"
        /\ up' = FALSE
        /\ writing' = [t \in Tasks |-> Idle]
        /\ console' = [mode |-> "kiss", dirty |-> FALSE, pasting |-> FALSE]
        /\ timer' = FALSE
        /\ due' = FALSE
        /\ UNCHANGED <<faults, changes>>

\* The restart loop() waits for, the one the web server's timer fires, and
\* the one the remote configuration polls for in loop().
Restart ==
    /\ phase = "halt" \/ timer \/ (due /\ Ready)
    /\ Down
    /\ UNCHANGED crashes

Crash ==
    /\ phase # "boot" \/ Busy("loop")
    /\ crashes < MaxCrashes
    /\ crashes' = crashes + 1
    /\ Down

------------------------------------------------------------------------------
Init ==
    /\ file \in FirstFiles
    /\ ram = Default
    /\ phase = "boot"
    /\ up = FALSE
    /\ writing = [t \in Tasks |-> Idle]
    /\ console = [mode |-> "kiss", dirty |-> FALSE, pasting |-> FALSE]
    /\ timer = FALSE /\ due = FALSE
    /\ crashes = 0 /\ faults = 0 /\ changes = 0
    /\ wanted = {IF file = NoFile THEN Default ELSE Meaning(file)}
    /\ cut = FALSE

Device ==
    \/ BootFresh \/ BootRead \/ Restart
    \/ \E t \in Tasks : OpenFile(t) \/ Flush(t)

Users ==
    \/ EnterSetup \/ Save \/ Exit \/ Reboot \/ Format
    \/ BeginImport \/ RejectImport \/ WebReboot
    \/ \E doc \in Pastes : CommitImport(doc)
    \/ \E f \in Editable : \E v \in NewValues[f] :
          Edit(f, v) \/ RemoteWrite(f, v) \/ WebSave(f, v)

Failures == Crash \/ \E t \in Tasks : OpenFails(t) \/ FlushShort(t)

Next == Device \/ Users \/ Failures

\* The processor runs: boot, the writes and the restarts happen.  Users and
\* failures may never come.
Spec == Init /\ [][Next]_vars /\ WF_vars(Device)

------------------------------------------------------------------------------
(* Properties                                                               *)

AtRest == phase = "running" /\ ~console.dirty /\ \A t \in Tasks : ~Busy(t)

\* A device at rest that the console calls clean runs with what it was last
\* asked to keep, and the file says the same: through migrations, rewrites
\* and restarts, whichever task saved last -- as long as no write was cut and
\* none failed.  What the firmware does not accept is adjusted as it is read,
\* and no value else.  (readFile(), writeFile(), `dirty'.)
CleanMeansSaved ==
    AtRest /\ ~cut =>
        \A w \in wanted : wanted = {w} =>
            /\ ram \in {w, Adjusted(w)}
            /\ file # NoFile /\ Meaning(file) \in {w, Adjusted(w)}

\* Only the default of a single cell is raised: another cutoff that was saved
\* is the one the device runs with (configuration.cpp:283, "Upgrade a
\* single-cell default stored in flash"; README.md:361, "`save` persists").
\* The code does not keep this: store_upgrade.cfg shows it.
OnlyDefaultRaised ==
    AtRest /\ ~cut =>
        \A w \in wanted : wanted = {w} /\ w.sleep # 29 => ram.sleep = w.sleep

\* What cuts make of a number of seconds: it loses digits, as seconds or as
\* the minutes of an older file, and once rewritten in seconds it may again.
InMinutes(n) == {60 * m : m \in Shortened(n \div 60)}
Trimmed(n)   == Shortened(n) \cup InMinutes(n)
                             \cup UNION {Shortened(m) : m \in InMinutes(n)}

\* What any number of cuts, with restarts between them, makes of a value: of
\* the value given, of the one it was adjusted to, and of the least slow rate.
Spoiled(f, v) ==
    CASE f = "rate"  -> Trimmed(v)
      [] f = "slow"  -> Shortened(v) \cup Shortened(Fit(v)) \cup Shortened(10)
      [] f = "sleep" -> ShortVolts(v) \cup ShortVolts(Upgraded(v))
      [] f = "nets"  -> Broken(v)
      [] OTHER       -> {}

\* The values a setting may have that was given v: after cuts, if h.
Borne(f, v, h) ==
    {v} \cup {Fitted(f, x) : x \in {v} \cup (IF h THEN Spoiled(f, v) ELSE {})}

\* A write that was cut, wherever, costs a setting no more than its return
\* to the default, a number its last digits and the list of networks its last
\* entries and a password: no setting takes another value that nobody gave
\* it, such as one migrated twice or a list of another device, however often
\* the device goes down.  (readFile() on a document cut short, and the
\* rewrite after it.)
CrashOnlyResets ==
    AtRest => \A f \in Settings : \E w \in wanted \cup {Default} :
                 ram[f] \in Borne(f, w[f], cut)

\* A device that is switched on comes to run: whatever file it finds, and
\* whatever cut it on the way, the rewriting of an incomplete file ends.
\* (`needsRewrite' and the restart after it.)
BootSettles == phase = "boot" ~> phase = "running"
=============================================================================
