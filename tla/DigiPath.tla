------------------------------ MODULE DigiPath ------------------------------
(***************************************************************************)
(* The path rewriting of digi_utils.cpp.  A path is a sequence of hops,    *)
(* each the name of a station or one of the aliases, and whether it bears  *)
(* the '*' of a used hop.  Three facts of the string code are kept: the    *)
(* alias is looked for anywhere in the path, String::replace() rewrites    *)
(* every occurrence, and a used alias anywhere refuses the frame.          *)
(***************************************************************************)
EXTENDS Naturals, Sequences, FiniteSets

WIDE1_1 == "WIDE1-1"
WIDE2_1 == "WIDE2-1"
WIDE2_2 == "WIDE2-2"
WIDE2_3 == "WIDE2-3"     \* any WIDE2-n with n > 2: no rule matches it
WIDE2   == {WIDE2_1, WIDE2_2, WIDE2_3}
Aliases == {WIDE1_1} \cup WIDE2

Modes == {"off", "wide1", "wide1+wide2"}

Hop(name)  == [name |-> name, used |-> FALSE]
Used(name) == [name |-> name, used |-> TRUE]

Mentions(path, names) == \E i \in DOMAIN path : path[i].name \in names
HasUsed(path, names)  ==
  \E i \in DOMAIN path : path[i].name \in names /\ path[i].used

(* String::replace(alias, with): every hop of that name becomes the hops   *)
(* `with`.  upTo[n] is what has become of the first n hops.                *)
Replace(path, alias, with) ==
  LET upTo[n \in 0..Len(path)] ==
        IF n = 0 THEN <<>>
        ELSE upTo[n - 1] \o IF path[n].name = alias THEN with ELSE <<path[n]>>
  IN  upTo[Len(path)]

(* No relay: the "" that buildPacket() returns. *)
NoPath == <<>>

(* Mutant: a WIDE2-2 is stamped, but not decremented to WIDE2-1. *)
StampKeepingWide2(path, myCall, mode) ==
  Replace(Replace(path, WIDE2_2, <<Used(myCall), Hop(WIDE2_2)>>),
          WIDE1_1, <<Used(myCall)>>)

(* buildPacket(): WIDE1-1 first, then WIDE2-1, then WIDE2-2. *)
Stamp(path, myCall, mode) ==
  CASE mode # "off" /\ Mentions(path, {WIDE1_1}) ->
         IF HasUsed(path, {WIDE1_1}) THEN NoPath
         ELSE Replace(path, WIDE1_1, <<Used(myCall)>>)
    [] mode = "wide1+wide2" /\ ~Mentions(path, {WIDE1_1})
         /\ Mentions(path, WIDE2) ->
         CASE HasUsed(path, {WIDE2_1, WIDE2_2}) -> NoPath
           [] ~HasUsed(path, {WIDE2_1, WIDE2_2}) /\ Mentions(path, {WIDE2_1}) ->
                Replace(path, WIDE2_1, <<Used(myCall)>>)
           [] ~HasUsed(path, {WIDE2_2}) /\ ~Mentions(path, {WIDE2_1})
              /\ Mentions(path, {WIDE2_2}) ->
                Replace(path, WIDE2_2, <<Used(myCall), Hop(WIDE2_1)>>)
           [] OTHER -> NoPath
    [] OTHER -> NoPath

(* String::replace() does nothing when it runs out of memory, and the      *)
(* frame then goes out as it came if the path already names this station.  *)
StampOutOfMemory(path, myCall, mode) ==
  IF Stamp(path, myCall, mode) # NoPath /\ Mentions(path, {myCall})
  THEN path ELSE NoPath

(* How many hops of a path are among these. *)
Count(path, hops) == Cardinality({i \in DOMAIN path : path[i] \in hops})

(* What is left to spend: one relay for WIDE1-1 and WIDE2-1, two for       *)
(* WIDE2-2, per occurrence.                                                *)
Budget(path) ==
  Count(path, {Hop(WIDE1_1), Hop(WIDE2_1), Hop(WIDE2_2)}) + Count(path, {Hop(WIDE2_2)})

(* The relays of these stations that a path records. *)
Relays(path, stations) == Count(path, {Used(s) : s \in stations})
=============================================================================
