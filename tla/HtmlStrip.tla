----------------------------- MODULE HtmlStrip -----------------------------
(***************************************************************************)
(* Cutting script and style regions out of HTML before it is rendered      *)
(* (src/src/markup/html.rs).  A page is a sequence of lexemes: the four    *)
(* patterns the scanner looks for (a less-than sign with what follows, in  *)
(* any case), the characters it treats on their own, white space, and "x"  *)
(* for any other.  What is written to the output is positions of the page. *)
(***************************************************************************)
EXTENDS Integers, SequencesExt

CONSTANT Pages

Lexemes == {"<script", "<style", "</script", "</style", ">", "space", "/", "x"}

ASSUME PagesAssumption == Pages \subseteq Seq(Lexemes)

VARIABLES
    html,           \* the page
    pos,            \* the scanner's position
    regionStart,    \* where the text that is not copied yet begins
    copied,         \* the positions copied so far
    owned,          \* the copy exists: a region was dropped
    result          \* the positions returned, or Unfinished

htmlVars == <<html, pos, regionStart, copied, owned, result>>

Unfinished == <<0>>

Slice(from, to) == [k \in 1 .. to - from + 1 |-> from + k - 1]
End == Len(html) + 1

-----------------------------------------------------------------------------
\* Mutant of IsTagNameEnd: a prefix will do.
AlwaysTagNameEnd(p) == TRUE

IsTagNameEnd(p) == p < End => html[p] \in {"space", "/", ">"}

IsOpener(p) == html[p] \in {"<script", "<style"} /\ IsTagNameEnd(p + 1)

ClosePattern(opener) == IF opener = "<script" THEN "</script" ELSE "</style"

\* The first position from p on that holds no white space.
AfterSpaces(p) == Min({k \in p .. End : k = End \/ html[k] # "space"})

\* Where closing tags with this pattern end: one past their ">".
ClosersFrom(from, pattern) ==
    { AfterSpaces(j + 1) + 1 :
        j \in {j \in from .. Len(html) :
                /\ html[j] = pattern /\ IsTagNameEnd(j + 1)
                /\ AfterSpaces(j + 1) # End /\ html[AfterSpaces(j + 1)] = ">"} }

\* Mutant of FindCloseTags: either closing tag ends either region.
FindEitherCloseTag(from, pattern) == ClosersFrom(from, "</script") \cup ClosersFrom(from, "</style")

\* find_close_tag looks for the first of them.
FindCloseTags(from, pattern) == ClosersFrom(from, pattern)

HtmlInit ==
    /\ html \in Pages
    /\ pos = 1 /\ regionStart = 1
    /\ copied = << >> /\ owned = FALSE
    /\ result = Unfinished

Skip ==
    /\ pos < End /\ ~IsOpener(pos)
    /\ pos' = pos + 1
    /\ UNCHANGED <<html, regionStart, copied, owned, result>>

\* The text before the region is copied; an unclosed region reaches to the end.
DropRegion ==
    /\ pos < End /\ IsOpener(pos)
    /\ copied' = copied \o Slice(regionStart, pos - 1) /\ owned' = TRUE
    /\ LET ends == FindCloseTags(pos + 1, ClosePattern(html[pos]))
       IN  pos' = Min(ends \cup {End})
    /\ regionStart' = pos'
    /\ UNCHANGED <<html, result>>

\* The page itself is handed back if nothing was dropped.
Return ==
    /\ pos >= End /\ result = Unfinished
    /\ result' = IF owned THEN copied \o Slice(regionStart, Len(html)) ELSE Slice(1, Len(html))
    /\ UNCHANGED <<html, pos, regionStart, copied, owned>>

HtmlNext == Skip \/ DropRegion \/ Return

HtmlSpec == HtmlInit /\ [][HtmlNext]_htmlVars

-----------------------------------------------------------------------------
(* What HTML means by a region, position by position.                      *)

Opens(s) ==
    /\ html[s] \in {"<script", "<style"}
    /\ s = Len(html) \/ html[s + 1] \in {"space", "/", ">"}

\* A closing tag from j to k, with nothing but white space before its ">".
Closes(j, k, name) ==
    /\ html[j] = name /\ html[k] = ">" /\ j < k
    /\ \A q \in j + 1 .. k - 1 : html[q] = "space"

\* The region opened at s reaches p: no closing tag ends before p.
Reaches(s, p) ==
    /\ s <= p /\ Opens(s)
    /\ ~\E j \in s + 1 .. p - 1 : \E k \in j .. p - 1 :
          Closes(j, k, IF html[s] = "<script" THEN "</script" ELSE "</style")

Kept == Range(result)

(* No script or style text is left: a position that is kept lies in no region, except
   one whose opening tag is itself text of a region that ended before (html.rs:10-12). *)
NoScriptSurvives ==
    result # Unfinished =>
        \A p \in Kept, s \in DOMAIN html :
            Reaches(s, p) => \E t \in 1 .. s - 1 : Reaches(t, s) /\ ~Reaches(t, p)

(* No other text is lost, doubled or moved: what is not in the output lies in a region,
   and the rest is there once and in order.  Words that begin like a tag, and closing
   tags with white space, are where this goes wrong (html.rs:56-59). *)
OnlyScriptIsDropped ==
    result # Unfinished =>
        /\ \A p \in DOMAIN html \ Kept : \E s \in DOMAIN html : Reaches(s, p)
        /\ \A a, b \in DOMAIN result : a < b => result[a] < result[b]
=============================================================================
