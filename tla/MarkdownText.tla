---------------------------- MODULE MarkdownText ----------------------------
(***************************************************************************)
(* Markdown to plain text (src/src/markup/markdown.rs): a fold over the    *)
(* parser's events with two flags.  Starts and ends of paragraphs, items   *)
(* and headings and the two line breaks are all handled alike: "break".    *)
(* Events that are passed over are left out.  A text is the number of its  *)
(* event; it is not blank.                                                 *)
(***************************************************************************)
EXTENDS Integers, SequencesExt

CONSTANTS
    Events      \* what the parser may produce: sequences of kinds

Kinds == {"text", "code", "break", "codeStart", "codeEnd"}

ASSUME EventsAssumption == Events \subseteq Seq(Kinds)

VARIABLES
    events,         \* the events of the document
    blocks, inline, spaces,     \* the three options
    handled,              \* events handled
    output,        \* the output: texts, and 0 for a space
    inCodeBlock, lastWasBreak,  \* the flags
    done            \* the output is trimmed and returned

markdownVars == <<events, blocks, inline, spaces, handled, output, inCodeBlock, lastWasBreak, done>>

Options == <<blocks, inline, spaces>>

MarkdownInit ==
    /\ events \in Events
    /\ blocks \in BOOLEAN /\ inline \in BOOLEAN /\ spaces \in BOOLEAN
    /\ handled = 0 /\ output = << >>
    /\ inCodeBlock = FALSE /\ lastWasBreak = TRUE
    /\ done = FALSE

Handle(kind) ==
    /\ handled < Len(events) /\ events[handled + 1] = kind
    /\ handled' = handled + 1
    /\ UNCHANGED <<events, Options, done>>

PushSpace ==
    IF spaces /\ ~lastWasBreak
    THEN output' = Append(output, 0) /\ lastWasBreak' = TRUE
    ELSE UNCHANGED <<output, lastWasBreak>>

Push(kept) ==
    IF kept
    THEN output' = Append(output, handled') /\ lastWasBreak' = FALSE
    ELSE UNCHANGED <<output, lastWasBreak>>

CodeBlockStart ==
    /\ Handle("codeStart")
    /\ inCodeBlock' = TRUE
    /\ UNCHANGED <<output, lastWasBreak>>

CodeBlockEnd ==
    /\ Handle("codeEnd")
    /\ inCodeBlock' = FALSE
    /\ PushSpace

Break ==
    /\ Handle("break")
    /\ PushSpace
    /\ UNCHANGED inCodeBlock

Text ==
    /\ Handle("text")
    /\ Push(~inCodeBlock \/ blocks)
    /\ UNCHANGED inCodeBlock

\* Mutant of Code: the flag stays as it is.
CodeWithoutFlag ==
    /\ Handle("code")
    /\ output' = IF inline THEN Append(output, handled') ELSE output
    /\ UNCHANGED <<inCodeBlock, lastWasBreak>>

Code ==
    /\ Handle("code")
    /\ Push(inline)
    /\ UNCHANGED inCodeBlock

\* The trim; a space is never written first.
Trim ==
    /\ handled = Len(events) /\ ~done
    /\ output' = IF output # << >> /\ Last(output) = 0 THEN Front(output) ELSE output
    /\ done' = TRUE
    /\ UNCHANGED <<events, Options, handled, inCodeBlock, lastWasBreak>>

MarkdownNext == CodeBlockStart \/ CodeBlockEnd \/ Break \/ Text \/ Code \/ Trim

MarkdownSpec == MarkdownInit /\ [][MarkdownNext]_markdownVars

-----------------------------------------------------------------------------
\* A text of a code block: one has started and not ended before it.
InBlock(e) ==
    \E s \in 1 .. e - 1 : events[s] = "codeStart" /\ \A m \in s .. e : events[m] # "codeEnd"

Wanted ==
    {e \in DOMAIN events :
        \/ events[e] = "text" /\ (blocks \/ ~InBlock(e))
        \/ events[e] = "code" /\ inline}

Parted(d, e) == spaces /\ \E m \in d .. e : events[m] \in {"break", "codeEnd"}

(* The plain text is the wanted texts in their order.  Two neighbours are kept apart by
   exactly one space if a break or the end of a code block lies between them, whatever
   was left out there, and run on if none does; no space is left at either end.
   Without it two words of the document would become one (markdown.rs:16-18). *)
WordsKeptApart ==
    done =>
        /\ Range(output) \ {0} = Wanted
        /\ \A i, j \in DOMAIN output :
              i < j /\ output[i] # 0 /\ output[j] # 0 => output[i] < output[j]
        /\ \A i \in DOMAIN output : output[i] = 0 =>
              /\ {i - 1, i + 1} \subseteq DOMAIN output
              /\ output[i - 1] # 0 /\ output[i + 1] # 0
              /\ Parted(output[i - 1], output[i + 1])
        /\ \A i, j \in DOMAIN output :
              j = i + 1 /\ output[i] # 0 /\ output[j] # 0 => ~Parted(output[i], output[j])
=============================================================================
