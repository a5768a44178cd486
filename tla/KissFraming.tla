---------------------------- MODULE KissFraming ----------------------------
(***************************************************************************)
(* KISS framing as operators: the escaping of kiss_utils.cpp and the three *)
(* parsers that cut a byte stream into frames.  Those of tcp_kiss_utils    *)
(* and serial_setup take one byte at a time; they differ in the length at  *)
(* which a FEND closes a frame, and in the packets of the tracker's own    *)
(* callsign, which only the socket drops.  That of ble_utils takes a whole *)
(* write.                                                                  *)
(* A byte is one of the special ones below or any other name.  The AX.25   *)
(* addresses and the text of a frame are its payload.                      *)
(***************************************************************************)
EXTENDS Integers, Sequences, SequencesExt

CONSTANTS
  Bytes,          \* those that occur, by name
  Own,            \* payloads whose sender is Config.beacons[0].callsign
  KissBufSize,    \* KISS_BUF_SIZE, and the 512 of the serial parser
  MaxKissBuffer,  \* MAX_KISS_BUFFER
  MaxIterations   \* frames and resynchronisations handled in one write

ASSUME KissFramingAssumption ==
  /\ {"FEND", "FESC", "TFEND", "TFESC", "Data", "Cmd", "x"} \subseteq Bytes
  /\ {KissBufSize, MaxKissBuffer} \subseteq Nat
  /\ MaxIterations \in Nat \ {0, 1}

(* encapsulateKISS().                                                      *)
Escape(byte) ==
  CASE byte = "FEND" -> <<"FESC", "TFEND">>
    [] byte = "FESC" -> <<"FESC", "TFESC">>
    [] OTHER         -> <<byte>>

Escaped(payload) ==
  LET upTo[n \in 0 .. Len(payload)] ==
        IF n = 0 THEN <<>> ELSE upTo[n - 1] \o Escape(payload[n])
  IN  upTo[Len(payload)]

Encapsulate(payload, command) == <<"FEND", command>> \o Escaped(payload) \o <<"FEND">>

(* decapsulateKISS(), one byte: an unknown escape vanishes.                *)
Unescape(st, byte) ==
  IF st.escaped
  THEN [out |-> CASE byte = "TFEND" -> Append(st.out, "FEND")
                  [] byte = "TFESC" -> Append(st.out, "FESC")
                  [] OTHER          -> st.out,
        escaped |-> FALSE]
  ELSE IF byte = "FESC" THEN [st EXCEPT !.escaped = TRUE]
  ELSE [st EXCEPT !.out = Append(@, byte)]

Unescaped(bytes) ==
  LET upTo[n \in 0 .. Len(bytes)] ==
        IF n = 0 THEN [out |-> <<>>, escaped |-> FALSE] ELSE Unescape(upTo[n - 1], bytes[n])
  IN  upTo[Len(bytes)]

Decapsulate(frame) == Unescaped(SubSeq(frame, 3, Len(frame) - 1)).out

(* decodeKISS(): the payload of a data frame, anything else as it is.      *)
IsData(frame) == frame[2] = "Data"
Decode(frame) == IF IsData(frame) THEN Decapsulate(frame) ELSE frame

-----------------------------------------------------------------------------

(* Mutant: the socket closes frames as the port does.                      *)
LongerThanOne(link) == 1

(* The length that a frame must exceed for a FEND to close it.             *)
LongerThan(link) == IF link = "socket" THEN 3 ELSE 1

(* Mutant: the own callsign is not looked for.                             *)
NoneRefused(link) == {}

(* The packets dropped without a word: on the socket, to avoid a loop,     *)
(* those whose sender is the tracker itself.                               *)
Refused(link) == IF link = "socket" THEN Own ELSE {}

(* handleInputChar(), and the same loop of the serial port.                *)
ParseByte(link, st, byte) ==
  LET grown  == IF st.buf = <<>> /\ byte # "FEND" THEN <<>> ELSE Append(st.buf, byte)
      closed == byte = "FEND" /\ Len(grown) > LongerThan(link)
      sent   == closed /\ IsData(grown) /\ Decapsulate(grown) \notin Refused(link)
  IN  [buf |-> IF closed \/ Len(grown) > KissBufSize THEN <<>> ELSE grown,
       out |-> IF sent THEN Append(st.out, Decapsulate(grown)) ELSE st.out]

Parse(link, buf, bytes) ==
  LET after[n \in 0 .. Len(bytes)] ==
        IF n = 0 THEN [buf |-> buf, out |-> <<>>]
        ELSE ParseByte(link, after[n - 1], bytes[n])
  IN  after[Len(bytes)]

(* One round of the loop of the write callback: the buffer is brought to   *)
(* its first FEND, or a frame is taken off its front.  out holds the whole *)
(* frames taken off.                                                       *)
TakeFrame(st) ==
  LET fends == SelectInSubSeq(st.buf, 2, Len(st.buf), LAMBDA b : b = "FEND")
      first == SelectInSeq(st.buf, LAMBDA b : b = "FEND")
  IN  IF st.buf = <<>> THEN st
      ELSE IF Head(st.buf) # "FEND"
      THEN [st EXCEPT !.buf = IF first = 0 THEN <<>> ELSE SubSeq(@, first, Len(@))]
      ELSE IF fends = 0 THEN st
      ELSE [buf |-> SubSeq(st.buf, fends + 1, Len(st.buf)),
            out |-> IF fends >= 4 THEN Append(st.out, SubSeq(st.buf, 1, fends)) ELSE st.out]

(* The rounds of one write, and onWrite(), rxWriteCallback(): its frames.   *)
TakeFrames(st) ==
  LET after[n \in 0 .. MaxIterations] ==
        IF n = 0 THEN st ELSE TakeFrame(after[n - 1])
  IN  after[MaxIterations]

ParseWrite(buf, bytes) ==
  IF Len(buf \o bytes) > MaxKissBuffer THEN [buf |-> <<>>, out |-> <<>>]
  ELSE TakeFrames([buf |-> buf \o bytes, out |-> <<>>])
=============================================================================
