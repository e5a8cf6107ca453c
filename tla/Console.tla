------------------------------- MODULE Console -------------------------------
(***************************************************************************)
(* What the bootloader says: boot_debug_printf formats a message into one  *)
(* static buffer and writes it, byte by byte and with a busy wait for each,*)
(* to the UART, which sends what is in its FIFO on its own.  boot_panic    *)
(* says a last message and stops.  The characters come from DoPrintf,      *)
(* whose steps are this module's too.  debug.h decides at compile time     *)
(* whether anything but a panic says something.                            *)
(***************************************************************************)
EXTENDS DoPrintf

CONSTANTS
  KLogWidth,    \* size of klog_entry
  Reasons,      \* the items that are strings to panic with
  Repeated,     \* the items after which something else is said (bounds the model)
  MaxMessages,  \* messages that are logged, at most (bounds the model)
  FifoSize      \* room in the transmitter of the UART

ASSUME ConsoleAssumption ==
  /\ KLogWidth \in Nat \ {0} /\ FifoSize \in Nat \ {0} /\ MaxMessages \in Nat
  /\ Reasons \subseteq {i \in Items : i.conv = "s"} /\ Repeated \subseteq Items

VARIABLES
  NDEBUG,   \* whether it is defined, as line 12 of debug.h does
  said,     \* history: what each message should read
  klog,     \* klog_entry, and the byte behind it
  ch,       \* index of the next byte that boot_debug_write_string looks at
  fifo,     \* bytes in the transmitter
  wire,     \* bytes that were sent
  mode      \* what is going on: nothing, a message, a last message, no more

vars == <<formatting, NDEBUG, said, klog, ch, fifo, wire, mode>>

-----------------------------------------------------------------------------
(* the linker has put something behind the buffer *)
Init ==
  /\ NotCalled
  /\ NDEBUG \in BOOLEAN
  /\ said = <<>> /\ ch = 0
  /\ klog = [i \in 0 .. KLogWidth |-> IF i < KLogWidth THEN "NUL" ELSE "foreign"]
  /\ fifo = <<>> /\ wire = <<>>
  /\ mode = "idle"

Say(i, rest, last, text, how) ==
  /\ mode = "idle" /\ (said = <<>> \/ item \in Repeated)
  /\ Call(i, rest, last)
  /\ said' = Append(said, text)
  /\ ch' = 0
  /\ mode' = how
  /\ UNCHANGED <<NDEBUG, klog, fifo, wire>>

(* boot_log_info and its like, which are nothing where NDEBUG is defined.  Every
   format ends in a plain conversion, which must not be changed by what the one
   before it has left. *)
Log ==
  /\ ~ NDEBUG
  /\ \E i \in IF said = <<>> THEN Items ELSE Repeated :
       Say(i, <<",", "%", "x">>, <<10>>, Conversion(i) \o <<",", "a">>, "log")
  /\ Len(said) < MaxMessages

BootPanic == \E i \in Reasons : Say(i, <<>>, <<>>, Conversion(i), "panic")

(* boot_panic without a message *)
BootPanicNull ==
  /\ mode = "idle"
  /\ mode' = "halted"
  /\ UNCHANGED <<formatting, NDEBUG, said, klog, ch, fifo, wire>>

(* mutant: the last byte is taken for one more character *)
SnprintfPrintCharsBehind(text) ==
  klog' = [i \in 0 .. KLogWidth |-> IF i < Len(text) THEN text[i + 1] ELSE klog[i]]

(* SnprintfPrintChar for each character so far, of which pos is the number; one
   that does not fit is dropped, the first such becomes zero *)
SnprintfPrintChars(text) ==
  klog' = [i \in 0 .. KLogWidth |-> IF i >= Len(text) THEN klog[i]
                                    ELSE IF i < KLogWidth THEN text[i + 1] ELSE "NUL"]

Vsnprintf ==
  /\ mode \in {"log", "panic"} /\ pc # "done"
  /\ Step
  /\ SnprintfPrintChars(out')
  /\ UNCHANGED <<NDEBUG, said, ch, fifo, wire, mode>>

-----------------------------------------------------------------------------
(* aux_uart_write_byte, once its wait is over *)
AuxUartWriteByte(byte) ==
  /\ Len(fifo) < FifoSize
  /\ fifo' = Append(fifo, byte)

WritingString == mode \in {"log", "panic"} /\ pc = "done"

WriteChar ==
  /\ WritingString /\ klog[ch] # "NUL"
  /\ AuxUartWriteByte(klog[ch])
  /\ ch' = ch + 1
  /\ UNCHANGED <<formatting, NDEBUG, said, klog, wire, mode>>

(* mutant: a panic message is not ended *)
WriteNewlineUnlessPanic ==
  /\ WritingString /\ klog[ch] = "NUL"
  /\ IF mode = "log" THEN AuxUartWriteByte("NL") ELSE fifo' = fifo
  /\ mode' = IF mode = "log" THEN "idle" ELSE "halted"
  /\ UNCHANGED <<formatting, NDEBUG, said, klog, ch, wire>>

WriteNewline ==
  /\ WritingString /\ klog[ch] = "NUL"
  /\ AuxUartWriteByte("NL")
  /\ mode' = IF mode = "log" THEN "idle" ELSE "halted"
  /\ UNCHANGED <<formatting, NDEBUG, said, klog, ch, wire>>

(* the UART *)
Transmit ==
  /\ fifo # <<>>
  /\ wire' = Append(wire, Head(fifo))
  /\ fifo' = Tail(fifo)
  /\ UNCHANGED <<formatting, NDEBUG, said, klog, ch, mode>>

Bootloader == Log \/ BootPanic \/ BootPanicNull \/ Vsnprintf \/ WriteChar \/ WriteNewline

Halted == mode = "halted" /\ fifo = <<>> /\ UNCHANGED vars

Next == Bootloader \/ Transmit \/ Halted

(* The bootloader runs alone and a UART that is switched on sends; between
   messages other code of the bootloader runs, which ends in a panic or not. *)
FairSpec == /\ Init /\ [][Next]_vars
            /\ WF_vars(Transmit) /\ WF_vars(Vsnprintf \/ WriteChar \/ WriteNewline)

-----------------------------------------------------------------------------
(* a message as it should be read: cut to what klog_entry holds, and ended *)
Line(text) == SubSeq(text, 1, IF Len(text) < KLogWidth THEN Len(text) ELSE KLogWidth) \o <<"NL">>
Lines == LET upto[m \in 0 .. Len(said)] == IF m = 0 THEN <<>> ELSE upto[m - 1] \o Line(said[m])
         IN  upto[Len(said)]

(* What is read at the other end of the line are the messages in order, each
   with the number its format asks for, whatever flags, written width and word,
   with all its characters that fit the buffer and none that an earlier, longer
   one has left there; and the conversion behind the first one starts afresh.
   What the comment above DoPrintf says of fields beyond that is not kept:
   WrittenWidth and DefaultWidth. *)
LinesRead == IsPrefix(wire \o fifo, Lines)

Formatted == pc = "done" /\ mode \in {"log", "panic"}

(* "w : decimal digits specifying field width" (bootloader/doprintf.c:44), which
   the format "(%)[-+#0][w](cdiuoxXs%)" (:35) has for every conversion: what is
   printed for one is as wide as is written. *)
WrittenWidth == Formatted /\ item.width # 0 => IsPrefix(Documented(item), out)

(* "default is right adjustment, flag width = 10" (bootloader/doprintf.c:39): a
   number for which no width is written is in a field of 10. *)
DefaultWidth == Formatted /\ item.width = 0 /\ item.conv \notin {"c", "s", "%", "l"} =>
  IsPrefix(Documented(item), out)

(* The byte behind the buffer is written only when a message is as long as the
   buffer or longer, and then it becomes zero: it is what ends the text. *)
OneByteBehind == klog[KLogWidth] # "foreign" =>
  /\ klog[KLogWidth] = "NUL"
  /\ \E m \in DOMAIN said : Len(said[m]) >= KLogWidth

(* Everything that was said is sent at last, the message of a panic included,
   although nothing runs after it. *)
AllSent == \A l \in 0 .. MaxMessages :
  (Len(said) > l) ~> (Len(SelectSeq(wire, LAMBDA b : b = "NL")) > l)
=============================================================================
