------------------------------ MODULE MCParts ------------------------------
(***************************************************************************)
(* Six parts of the library side by side: the choice of a partition for    *)
(* the index, the two implementations of the shingle tokenizer, the codec  *)
(* of a stored signature, the canonicalizer and the two markup scanners.   *)
(* They share nothing, so a behaviour is one of a single part while the    *)
(* others rest.                                                            *)
(***************************************************************************)
EXTENDS LshBuilder, Shingles, SignatureCodec, Canonicalizer, HtmlStrip, MarkdownText

CONSTANTS
    MaxWords,               \* longest document of the tokenizer, in words
    MaxText,                \* longest text of the canonicalizer
    MaxPage, MaxEvents      \* longest page of HTML and longest Markdown document

VARIABLE active

-----------------------------------------------------------------------------
\* Strings of one and two characters; a grapheme tokenizer also yields separators.
MCStrings == {<<"x">>, <<"x", "y">>, <<Space>>}
MCDocuments == UNION {[1 .. n -> MCStrings] : n \in 0 .. MaxWords}

MCFieldLists ==
    { <<"schema", "hashes">>, <<"hashes", "schema">>, <<"schema">>, <<"hashes">>, << >>,
      <<"schema", "hashes", "other">>, <<"other", "hashes", "schema">>,
      <<"schema", "hashes", "schema">> }

\* Characters that occur in a text; the rest of the alphabet comes out of the tables.
MCCharacters == {"I", "O", "zero", "Idot", "wideO", "below", "dot", "zwsp", "rlo"}
MCInputs == UNION {[1 .. n -> MCCharacters] : n \in 0 .. MaxText}

MCBuffers == {<<"l">>}

\* Short pages of every kind, longer ones that begin with a script.
MCPages ==
    UNION {[1 .. n -> Lexemes] : n \in 0 .. MaxPage}
    \cup UNION {{<<"<script", ">">> \o rest : rest \in [1 .. n -> Lexemes]} : n \in MaxPage - 1 .. MaxPage}

\* A code block holds texts and ends before anything else comes.
WellFormed(s) ==
    \A p \in DOMAIN s :
        /\ s[p] = "codeStart" =>
              \E q \in p + 1 .. Len(s) : s[q] = "codeEnd" /\ \A m \in p + 1 .. q - 1 : s[m] = "text"
        /\ s[p] = "codeEnd" =>
              \E q \in 1 .. p - 1 : s[q] = "codeStart" /\ \A m \in q + 1 .. p - 1 : s[m] = "text"

MCEvents ==
    {s \in UNION {[1 .. n -> Kinds] : n \in 0 .. MaxEvents} : WellFormed(s)}

-----------------------------------------------------------------------------
\* A part that rests has nothing to do: an empty document, a signature nobody loads.
\* The builder's initial state is a single one.
TokenizerRests ==
    /\ inner = << >> /\ k = 0 /\ flat = << >> /\ ranges = << >> /\ buf = << >> /\ shingles = << >>
    /\ returned = FALSE
CodecRests ==
    /\ written = [schema |-> SCHEMA_VERSION, hashes |-> << >>]
    /\ cell = AsMap(SCHEMA_VERSION, << >>) /\ loaded = NotLoaded
TextRests == cfg = None /\ input = << >> /\ out = << >> /\ round = 0
HtmlRests ==
    /\ html = << >> /\ pos = 1 /\ regionStart = 1 /\ copied = << >> /\ owned = FALSE
    /\ result = Unfinished
EventsRest ==
    /\ events = << >> /\ blocks = FALSE /\ inline = FALSE /\ spaces = FALSE
    /\ handled = 0 /\ output = << >> /\ inCodeBlock = FALSE /\ lastWasBreak = TRUE /\ done = FALSE

PartsInit ==
    /\ active \in {"builder", "tokenizer", "codec", "canonicalizer", "html", "markdown"}
    /\ Init
    /\ IF active = "tokenizer" THEN ShingleInit ELSE TokenizerRests
    /\ IF active = "html" THEN HtmlInit ELSE HtmlRests
    /\ IF active = "markdown" THEN MarkdownInit ELSE EventsRest
    /\ IF active = "codec" THEN CodecInit ELSE CodecRests
    /\ IF active = "canonicalizer" THEN CanonInit ELSE TextRests

PartsNext ==
    \/ active = "builder" /\ Next
       /\ UNCHANGED <<active, shingleVars, codecVars, canonVars, htmlVars, markdownVars>>
    \/ active = "tokenizer" /\ ShingleNext
       /\ UNCHANGED <<active, vars, codecVars, canonVars, htmlVars, markdownVars>>
    \/ active = "codec" /\ CodecNext
       /\ UNCHANGED <<active, vars, shingleVars, canonVars, htmlVars, markdownVars>>
    \/ active = "canonicalizer" /\ CanonNext
       /\ UNCHANGED <<active, vars, shingleVars, codecVars, htmlVars, markdownVars>>
    \/ active = "html" /\ HtmlNext
       /\ UNCHANGED <<active, vars, shingleVars, codecVars, canonVars, markdownVars>>
    \/ active = "markdown" /\ MarkdownNext
       /\ UNCHANGED <<active, vars, shingleVars, codecVars, canonVars, htmlVars>>

PartsSpec ==
    /\ PartsInit
    /\ [][PartsNext]_<<active, vars, shingleVars, codecVars, canonVars, htmlVars, markdownVars>>
=============================================================================
