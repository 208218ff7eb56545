---------------------------- MODULE MarkupProofs ----------------------------
(***************************************************************************)
(* Cutting regions out of HTML and folding Markdown events into text, for  *)
(* pages and documents of any length.                                      *)
(***************************************************************************)
EXTENDS HtmlStrip, MarkdownText, SequenceTheorems, WellFoundedInduction, NaturalsInduction, TLAPS

(* The least of a set of numbers (Min) is one of them. *)
LEMMA LeastOf ==
    ASSUME NEW S \in SUBSET Nat, S # {}
    PROVE  Min(S) \in S /\ \A y \in S : Min(S) <= y
<1> DEFINE Less == OpToRel(<, Nat)
<1>1. IsWellFoundedOn(Less, Nat)
    BY NatLessThanWellFounded
<1>2. \A m, n \in Nat : m < n => <<m, n>> \in Less
    BY DEF OpToRel
<1> HIDE DEF Less
<1>3. PICK n \in S : \A m \in S : <<m, n>> \notin Less
    BY <1>1, WFMin
<1>4. \A m \in S : n <= m
    <2> SUFFICES ASSUME NEW m \in S PROVE n <= m
        OBVIOUS
    <2>1. m \in Nat /\ n \in Nat /\ ~(m < n)
        BY <1>2, <1>3
    <2>2. QED
        BY <2>1
<1>5. QED
    BY <1>4 DEF Min

LEMMA Below ==
    ASSUME NEW n \in Int
    PROVE  /\ \A p \in 1 .. n - 1 : p \in Int /\ 1 <= p /\ p < n
           /\ \A m \in Int : m < n => 1 .. m - 1 \subseteq 1 .. n - 1
OBVIOUS

(* Cutting a sequence out of the line of positions. *)
LEMMA SliceOf ==
    ASSUME NEW from \in Nat, NEW to \in Nat, from <= to + 1
    PROVE  /\ Slice(from, to) \in Seq(Nat) /\ Len(Slice(from, to)) = to - from + 1
           /\ \A k \in 1 .. to - from + 1 : Slice(from, to)[k] = from + k - 1
           /\ Range(Slice(from, to)) = from .. to
<1>1. to - from + 1 \in Nat
    OBVIOUS
<1>2. /\ Slice(from, to) \in Seq(Nat) /\ Len(Slice(from, to)) = to - from + 1
      /\ DOMAIN Slice(from, to) = 1 .. to - from + 1
      /\ \A k \in 1 .. to - from + 1 : Slice(from, to)[k] = from + k - 1
    <2>1. \A k \in 1 .. to - from + 1 : from + k - 1 \in Nat
        OBVIOUS
    <2>2. Slice(from, to) \in Seq(Nat)
        BY <1>1, <2>1, SeqDef DEF Slice
    <2>3. Len(Slice(from, to)) = to - from + 1
        BY <1>1, <2>2, LenProperties DEF Slice
    <2>4. QED
        BY <2>2, <2>3 DEF Slice
<1>3. \A p \in from .. to : p - from + 1 \in 1 .. to - from + 1 /\ Slice(from, to)[p - from + 1] = p
    BY <1>2
<1>4. Range(Slice(from, to)) = from .. to
    <2>1. \A k \in 1 .. to - from + 1 : from + k - 1 \in from .. to
        OBVIOUS
    <2> DEFINE t == Slice(from, to)
    <2>2. DOMAIN t = 1 .. to - from + 1 /\ \A k \in DOMAIN t : t[k] \in from .. to
        BY <1>2, <2>1
    <2>3. \A p \in from .. to : \E k \in DOMAIN t : t[k] = p
        BY <1>3, <2>2
    <2> HIDE DEF t
    <2>4. QED
        BY <2>2, <2>3 DEF Range, t
<1>5. QED
    BY <1>2, <1>4

Increasing(s) == \A i, j \in DOMAIN s : i < j => s[i] < s[j]

(* Appending a slice to positions that lie before it keeps the order. *)
LEMMA SliceAppended ==
    ASSUME NEW s \in Seq(Nat), NEW from \in Nat, NEW to \in Nat, from <= to + 1,
           Increasing(s), \A i \in DOMAIN s : s[i] < from
    PROVE  /\ s \o Slice(from, to) \in Seq(Nat)
           /\ Range(s \o Slice(from, to)) = Range(s) \cup (from .. to)
           /\ Increasing(s \o Slice(from, to))
<1> DEFINE t == Slice(from, to)
           all == s \o t
<1>1. /\ Len(s) \in Nat /\ DOMAIN s = 1 .. Len(s)
      /\ Len(t) \in Nat /\ DOMAIN t = 1 .. Len(t)
      /\ t \in Seq(Nat) /\ \A k \in 1 .. Len(t) : t[k] = from + k - 1
      /\ Range(t) = from .. to
    BY SliceOf, LenProperties
<1> HIDE DEF t
<1>2. /\ all \in Seq(Nat) /\ Len(all) = Len(s) + Len(t) /\ DOMAIN all = 1 .. Len(s) + Len(t)
      /\ \A i \in 1 .. Len(s) : all[i] = s[i]
      /\ \A i \in Len(s) + 1 .. Len(s) + Len(t) : all[i] = t[i - Len(s)]
    <2>1. /\ all \in Seq(Nat) /\ Len(all) = Len(s) + Len(t)
          /\ \A i \in 1 .. Len(s) + Len(t) : all[i] = IF i <= Len(s) THEN s[i] ELSE t[i - Len(s)]
        BY <1>1, ConcatProperties
    <2>2. DOMAIN all = 1 .. Len(s) + Len(t)
        BY <2>1, LenProperties
    <2>3. QED
        BY <1>1, <2>1, <2>2
<1> HIDE DEF all
<1>3. \A i, j \in DOMAIN all : i < j => all[i] < all[j]
    <2> SUFFICES ASSUME NEW i \in 1 .. Len(s) + Len(t), NEW j \in 1 .. Len(s) + Len(t), i < j
                 PROVE  all[i] < all[j]
        BY <1>2
    <2>1. CASE j <= Len(s)
        <3>1. i \in DOMAIN s /\ j \in DOMAIN s
            BY <1>1, <2>1
        <3>2. all[i] = s[i] /\ all[j] = s[j] /\ s[i] < s[j]
            BY <1>1, <1>2, <3>1 DEF Increasing
        <3>3. QED
            BY <3>2
    <2>2. CASE i <= Len(s) /\ j > Len(s)
        <3>1. all[i] = s[i] /\ s[i] < from /\ s[i] \in Nat
            <4>1. i \in 1 .. Len(s) /\ i \in DOMAIN s
                BY <1>1, <2>2
            <4>2. s[i] \in Nat
                BY <4>1, ElementOfSeq
            <4>3. QED
                BY <1>2, <4>1, <4>2
        <3>2. j - Len(s) \in 1 .. Len(t) /\ all[j] = from + (j - Len(s)) - 1
            BY <1>1, <1>2, <2>2
        <3>3. QED
            BY <1>1, <3>1, <3>2
    <2>3. CASE i > Len(s)
        <3>1. /\ i - Len(s) \in 1 .. Len(t) /\ all[i] = from + (i - Len(s)) - 1
              /\ j - Len(s) \in 1 .. Len(t) /\ all[j] = from + (j - Len(s)) - 1
            <4>1. i \in Len(s) + 1 .. Len(s) + Len(t) /\ j \in Len(s) + 1 .. Len(s) + Len(t)
                BY <1>1, <2>3
            <4>2. i - Len(s) \in 1 .. Len(t) /\ j - Len(s) \in 1 .. Len(t)
                BY <1>1, <4>1
            <4>3. all[i] = t[i - Len(s)] /\ all[j] = t[j - Len(s)]
                BY <1>2, <4>1
            <4>4. QED
                BY <1>1, <4>2, <4>3
        <3>2. QED
            BY <1>1, <3>1
    <2>4. QED
        BY <1>1, <2>1, <2>2, <2>3
<1>4. Range(all) = Range(s) \cup Range(t)
    <2>1. \A i \in DOMAIN s : i \in DOMAIN all /\ all[i] = s[i]
        BY <1>1, <1>2
    <2>2. \A k \in DOMAIN t : Len(s) + k \in DOMAIN all /\ all[Len(s) + k] = t[k]
        <3> SUFFICES ASSUME NEW k \in DOMAIN t
                     PROVE  Len(s) + k \in DOMAIN all /\ all[Len(s) + k] = t[k]
            OBVIOUS
        <3>1. Len(s) + k \in Len(s) + 1 .. Len(s) + Len(t) /\ (Len(s) + k) - Len(s) = k
            BY <1>1
        <3>2. all[Len(s) + k] = t[(Len(s) + k) - Len(s)]
            BY <1>2, <3>1
        <3>3. QED
            BY <1>1, <1>2, <3>1, <3>2
    <2>3. \A i \in DOMAIN all : i \notin DOMAIN s =>
                i - Len(s) \in DOMAIN t /\ all[i] = t[i - Len(s)]
        <3> SUFFICES ASSUME NEW i \in DOMAIN all, i \notin DOMAIN s
                     PROVE  i - Len(s) \in DOMAIN t /\ all[i] = t[i - Len(s)]
            OBVIOUS
        <3>1. i \in Len(s) + 1 .. Len(s) + Len(t)
            BY <1>1, <1>2
        <3>2. i - Len(s) \in 1 .. Len(t)
            BY <1>1, <3>1
        <3>3. QED
            BY <1>1, <1>2, <3>1, <3>2
    <2>4. QED
        BY <2>1, <2>2, <2>3 DEF Range
<1>5. Increasing(all)
    BY <1>3 DEF Increasing
<1>6. QED
    BY <1>1, <1>2, <1>4, <1>5 DEF all, t

-----------------------------------------------------------------------------
(* Every page is a sequence of lexemes, no longer than it is. *)
LEMMA PageShape ==
    ASSUME html \in Pages
    PROVE  /\ html \in Seq(Lexemes) /\ Len(html) \in Nat /\ DOMAIN html = 1 .. Len(html)
           /\ End \in Nat /\ End = Len(html) + 1
BY PagesAssumption, LenProperties DEF End

LEMMA AfterSpacesIs ==
    ASSUME html \in Pages, NEW p \in 1 .. End
    PROVE  /\ AfterSpaces(p) \in p .. End
           /\ AfterSpaces(p) = End \/ html[AfterSpaces(p)] # "space"
           /\ \A q \in p .. AfterSpaces(p) - 1 : html[q] = "space"
<1> DEFINE S == {k \in p .. End : k = End \/ html[k] # "space"}
<1>1. Len(html) \in Nat /\ End = Len(html) + 1 /\ End \in Nat
    BY PageShape
<1>2. S \in SUBSET Nat /\ End \in S
    BY <1>1
<1>3. Min(S) \in S /\ \A y \in S : Min(S) <= y
    <2> HIDE DEF S
    <2> QED
        BY <1>2, LeastOf
<1>4. AfterSpaces(p) = Min(S)
    BY DEF AfterSpaces
<1>5. Min(S) \in p .. End /\ (Min(S) = End \/ html[Min(S)] # "space")
    BY <1>3
<1>6. ASSUME NEW q \in p .. Min(S) - 1
      PROVE  html[q] = "space"
    <2>1. q \in p .. End /\ q # End /\ ~(Min(S) <= q)
        BY <1>1, <1>5
    <2>2. q \notin S
        BY <1>3, <2>1
    <2>3. QED
        BY <2>1, <2>2
<1>7. QED
    BY <1>4, <1>5, <1>6

(* find_close_tag finds the ends of the closing tags, as HTML means them. *)
LEMMA ClosersAre ==
    ASSUME html \in Pages, NEW from \in 1 .. End, NEW name \in {"</script", "</style"}, NEW e
    PROVE  e \in ClosersFrom(from, name) <=>
               \E j \in from .. Len(html), k \in 1 .. Len(html) : Closes(j, k, name) /\ e = k + 1
<1>1. /\ Len(html) \in Nat /\ End = Len(html) + 1 /\ End \in Nat
    BY PageShape
<1>2. ASSUME e \in ClosersFrom(from, name)
      PROVE  \E j \in from .. Len(html), k \in 1 .. Len(html) : Closes(j, k, name) /\ e = k + 1
    <2>1. PICK j \in from .. Len(html) :
              /\ html[j] = name
              /\ AfterSpaces(j + 1) # End /\ html[AfterSpaces(j + 1)] = ">"
              /\ e = AfterSpaces(j + 1) + 1
        BY <1>2 DEF ClosersFrom
    <2>2. j + 1 \in 1 .. End
        BY <1>1
    <2>3. /\ AfterSpaces(j + 1) \in j + 1 .. End
          /\ \A q \in j + 1 .. AfterSpaces(j + 1) - 1 : html[q] = "space"
        BY <2>2, AfterSpacesIs
    <2>4. AfterSpaces(j + 1) \in 1 .. Len(html) /\ j < AfterSpaces(j + 1)
        BY <1>1, <2>1, <2>3
    <2>5. Closes(j, AfterSpaces(j + 1), name)
        BY <2>1, <2>3, <2>4 DEF Closes
    <2>6. QED
        BY <2>1, <2>4, <2>5
<1>3. ASSUME NEW j \in from .. Len(html), NEW k \in 1 .. Len(html), Closes(j, k, name), e = k + 1
      PROVE  e \in ClosersFrom(from, name)
    <2>1. /\ html[j] = name /\ html[k] = ">" /\ j < k
          /\ \A q \in j + 1 .. k - 1 : html[q] = "space"
        BY <1>3 DEF Closes
    <2>2. j + 1 \in 1 .. End
        BY <1>1
    <2>3. /\ AfterSpaces(j + 1) \in j + 1 .. End
          /\ AfterSpaces(j + 1) = End \/ html[AfterSpaces(j + 1)] # "space"
          /\ \A q \in j + 1 .. AfterSpaces(j + 1) - 1 : html[q] = "space"
        BY <2>2, AfterSpacesIs
    <2>4. AfterSpaces(j + 1) = k
        <3>1. CASE AfterSpaces(j + 1) < k
            <4>1. AfterSpaces(j + 1) \in j + 1 .. k - 1 /\ AfterSpaces(j + 1) # End
                BY <1>1, <2>3, <3>1
            <4>2. QED
                BY <2>1, <2>3, <4>1
        <3>2. CASE AfterSpaces(j + 1) > k
            <4>1. k \in j + 1 .. AfterSpaces(j + 1) - 1
                BY <2>1, <2>3, <3>2
            <4>2. QED
                BY <2>1, <2>3, <4>1
        <3>3. QED
            BY <1>1, <2>3, <3>1, <3>2
    <2>5. IsTagNameEnd(j + 1)
        <3>1. j + 1 = k \/ j + 1 \in j + 1 .. k - 1
            BY <1>1, <2>1
        <3>2. html[j + 1] \in {"space", ">"}
            BY <2>1, <3>1
        <3>3. QED
            BY <3>2 DEF IsTagNameEnd
    <2>6. k # End
        BY <1>1
    <2>7. QED
        BY <1>3, <2>1, <2>4, <2>5, <2>6 DEF ClosersFrom
<1>4. QED
    BY <1>2, <1>3

LEMMA OpenerOpens ==
    ASSUME html \in Pages, NEW s \in DOMAIN html
    PROVE  IsOpener(s) <=> Opens(s)
<1>1. Len(html) \in Nat /\ DOMAIN html = 1 .. Len(html) /\ End = Len(html) + 1
    BY PageShape
<1>2. s + 1 < End <=> s # Len(html)
    BY <1>1
<1>3. QED
    BY <1>2 DEF IsOpener, Opens, IsTagNameEnd

\* Where the scanner goes on after the region opened at s.
Resumes(s) == Min(FindCloseTags(s + 1, ClosePattern(html[s])) \cup {End})

(* The scanner leaves out what HTML counts as the region, and no more (html.rs:95-107). *)
LEMMA RegionIs ==
    ASSUME html \in Pages, NEW s \in DOMAIN html, Opens(s)
    PROVE  /\ Resumes(s) \in s + 1 .. End
           /\ \A p \in DOMAIN html : Reaches(s, p) <=> s <= p /\ p < Resumes(s)
<1> DEFINE name == ClosePattern(html[s])
           ends == FindCloseTags(s + 1, name)
           next == Min(ends \cup {End})
<1>1. /\ Len(html) \in Nat /\ DOMAIN html = 1 .. Len(html)
      /\ End = Len(html) + 1 /\ End \in Nat /\ s \in 1 .. Len(html)
    BY PageShape
<1>2. /\ name \in {"</script", "</style"}
      /\ name = IF html[s] = "<script" THEN "</script" ELSE "</style"
    BY DEF ClosePattern
<1>3. s + 1 \in 1 .. End
    BY <1>1
<1> HIDE DEF name
<1>4. \A e : e \in ends <=>
          \E j \in s + 1 .. Len(html), k \in 1 .. Len(html) : Closes(j, k, name) /\ e = k + 1
    BY <1>2, <1>3, ClosersAre DEF FindCloseTags
<1> HIDE DEF ends
<1>5. ends \cup {End} \in SUBSET Nat /\ \A e \in ends : e \in s + 1 .. End
    <2>1. \A e \in ends : e \in s + 1 .. End
        <3> SUFFICES ASSUME NEW e \in ends PROVE e \in s + 1 .. End
            OBVIOUS
        <3>1. PICK j \in s + 1 .. Len(html), k \in 1 .. Len(html) : Closes(j, k, name) /\ e = k + 1
            BY <1>4
        <3>2. j < k
            BY <3>1 DEF Closes
        <3>3. QED
            BY <1>1, <3>1, <3>2
    <2>2. QED
        BY <1>1, <2>1
<1>6. next \in ends \cup {End} /\ \A e \in ends \cup {End} : next <= e
    BY <1>5, LeastOf
<1>7. next \in s + 1 .. End
    BY <1>1, <1>5, <1>6
<1>8. ASSUME NEW p \in 1 .. Len(html), s <= p, p < next
      PROVE  Reaches(s, p)
    <2> SUFFICES ASSUME NEW j \in s + 1 .. p - 1, NEW k \in j .. p - 1, Closes(j, k, name)
                 PROVE  FALSE
        BY <1>2, <1>8 DEF Reaches
    <2>1. j \in s + 1 .. Len(html) /\ k \in 1 .. Len(html) /\ k + 1 <= p
        BY <1>1
    <2>2. k + 1 \in ends
        BY <1>4, <2>1
    <2>3. next <= k + 1
        BY <1>6, <2>2
    <2>4. QED
        BY <1>1, <1>7, <1>8, <2>1, <2>3
<1>9. ASSUME NEW p \in 1 .. Len(html), Reaches(s, p)
      PROVE  s <= p /\ p < next
    <2>1. s <= p
        BY <1>9 DEF Reaches
    <2>2. SUFFICES ASSUME next <= p PROVE FALSE
        BY <1>1, <1>7, <2>1
    <2>3. next \in ends
        BY <1>1, <1>6, <2>2
    <2>4. PICK j \in s + 1 .. Len(html), k \in 1 .. Len(html) : Closes(j, k, name) /\ next = k + 1
        BY <1>4, <2>3
    <2>5. j < k
        BY <2>4 DEF Closes
    <2>6. j \in s + 1 .. p - 1 /\ k \in j .. p - 1
        BY <1>1, <2>2, <2>4, <2>5
    <2>7. QED
        BY <1>2, <1>9, <2>4, <2>6 DEF Reaches
<1>10. Resumes(s) = next
    BY DEF Resumes, name, ends
<1>11. QED
    BY <1>1, <1>7, <1>8, <1>9, <1>10

-----------------------------------------------------------------------------
\* What the output holds of the page up to the scanner's position.
KeptSoFar == Range(copied) \cup (regionStart .. pos - 1)

\* What is dropped lies in a region none of whose later text is kept, then or ever.
DroppedBecause ==
    \A p \in (1 .. pos - 1) \ KeptSoFar : \E t \in 1 .. p :
        /\ Reaches(t, p)
        /\ \A q \in DOMAIN html : q > p /\ Reaches(t, q) => q < pos /\ q \notin KeptSoFar

\* The scan, position by position.  No kept position opens a region.
HInv ==
    /\ html \in Pages
    /\ regionStart \in 1 .. End /\ pos \in regionStart .. End
    /\ owned \in BOOLEAN
    /\ owned = FALSE => copied = << >> /\ regionStart = 1
    /\ copied \in Seq(Nat) /\ Increasing(copied) /\ Range(copied) \subseteq 1 .. regionStart - 1
    /\ \A p \in KeptSoFar : ~Opens(p)
    /\ DroppedBecause
    /\ result # Unfinished =>
          pos = End /\ result \in Seq(Nat) /\ Increasing(result) /\ Range(result) = KeptSoFar

LEMMA InitHInv == HtmlInit => HInv
<1> SUFFICES ASSUME HtmlInit PROVE HInv
    OBVIOUS
<1>1. /\ html \in Pages /\ pos = 1 /\ regionStart = 1
      /\ copied = << >> /\ owned = FALSE /\ result = Unfinished
    BY DEF HtmlInit
<1>2. End \in Nat /\ End >= 1
    BY <1>1, PageShape
<1>3. copied \in Seq(Nat) /\ DOMAIN copied = {} /\ Range(copied) = {}
    BY <1>1 DEF Range
<1>4. KeptSoFar = {} /\ 1 .. pos - 1 = {}
    BY <1>1, <1>3 DEF KeptSoFar
<1>5. Increasing(copied)
    BY <1>3 DEF Increasing
<1>6. DroppedBecause
    BY <1>4 DEF DroppedBecause
<1>7. regionStart \in 1 .. End /\ pos \in regionStart .. End
    BY <1>1, <1>2
<1>8. QED
    BY <1>1, <1>3, <1>4, <1>5, <1>6, <1>7 DEF HInv

(* The region that starts here is dropped; what was kept before stays kept. *)
LEMMA DropHInv == ASSUME HInv, DropRegion PROVE HInv'
<1>1. /\ html \in Pages /\ html' = html
      /\ regionStart \in 1 .. End /\ pos \in regionStart .. End
      /\ copied \in Seq(Nat) /\ Increasing(copied) /\ Range(copied) \subseteq 1 .. regionStart - 1
      /\ pos < End /\ IsOpener(pos) /\ result' = result
      /\ copied' = copied \o Slice(regionStart, pos - 1) /\ owned' = TRUE
      /\ pos' = Resumes(pos) /\ regionStart' = pos'
    BY DEF DropRegion, HInv, Resumes
<1>2. /\ Len(html) \in Nat /\ End = Len(html) + 1 /\ DOMAIN html = 1 .. Len(html)
      /\ pos \in 1 .. Len(html) /\ regionStart \in 1 .. pos /\ pos - 1 \in Nat
    BY <1>1, PageShape
<1>3. End' = End
    BY <1>1 DEF End
<1>4. result = Unfinished
    BY <1>1, <1>2 DEF HInv
<1>5. /\ pos' \in pos + 1 .. End
      /\ \A p \in DOMAIN html : Reaches(pos, p) <=> pos <= p /\ p < pos'
    BY <1>1, <1>2, RegionIs, OpenerOpens
<1>6. /\ copied' \in Seq(Nat) /\ Range(copied') = Range(copied) \cup (regionStart .. pos - 1)
      /\ Increasing(copied)'
    <2>1. \A i \in DOMAIN copied : copied[i] < regionStart
        <3>1. \A i \in DOMAIN copied : copied[i] \in 1 .. regionStart - 1
            BY <1>1 DEF Range
        <3>2. QED
            BY <1>2, <3>1
    <2>2. regionStart \in Nat /\ pos - 1 \in Nat /\ regionStart <= (pos - 1) + 1
        BY <1>2
    <2>3. Increasing(copied')
        BY <1>1, <2>1, <2>2, SliceAppended
    <2>4. QED
        BY <1>1, <2>1, <2>2, <2>3, SliceAppended DEF Increasing
<1>7. Range(copied') = KeptSoFar /\ KeptSoFar \subseteq 1 .. pos - 1
    BY <1>1, <1>2, <1>6 DEF KeptSoFar
<1>8. KeptSoFar' = KeptSoFar
    <2>1. regionStart' .. pos' - 1 = {}
        BY <1>1, <1>2, <1>5
    <2>2. QED
        BY <1>7, <2>1 DEF KeptSoFar
<1>9. \A s, p : Reaches(s, p)' <=> Reaches(s, p)
    BY <1>1 DEF Reaches, Opens, Closes
<1>10. \A p \in KeptSoFar' : ~Opens(p)'
    BY <1>1, <1>8 DEF HInv, Opens
<1>11. DroppedBecause'
    <2> SUFFICES ASSUME NEW p \in (1 .. pos' - 1) \ KeptSoFar
                 PROVE  \E t \in 1 .. p :
                           /\ Reaches(t, p)
                           /\ \A q \in DOMAIN html : q > p /\ Reaches(t, q) => q < pos' /\ q \notin KeptSoFar
        BY <1>1, <1>8, <1>9 DEF DroppedBecause
    <2>1. CASE p < pos
        <3>1. p \in (1 .. pos - 1) \ KeptSoFar
            BY <1>2, <1>5, <2>1
        <3>2. PICK t \in 1 .. p :
                  /\ Reaches(t, p)
                  /\ \A q \in DOMAIN html : q > p /\ Reaches(t, q) => q < pos /\ q \notin KeptSoFar
            BY <3>1 DEF HInv, DroppedBecause
        <3>3. \A q \in DOMAIN html : q < pos => q < pos'
            BY <1>2, <1>5
        <3>4. QED
            BY <3>2, <3>3
    <2>2. CASE p >= pos
        <3>1. pos \in 1 .. p /\ p \in DOMAIN html /\ p < pos'
            <4>1. pos' \in Int /\ pos' <= Len(html) + 1
                BY <1>2, <1>5
            <4>2. p \in 1 .. pos' - 1
                OBVIOUS
            <4> HIDE DEF KeptSoFar
            <4>3. p \in Int /\ p >= 1 /\ p < pos'
                BY <4>1, <4>2, Below
            <4>4. p <= Len(html)
                BY <1>2, <4>1, <4>3
            <4>5. QED
                BY <1>2, <2>2, <4>3, <4>4
        <3>2. Reaches(pos, p)
            BY <1>5, <2>2, <3>1
        <3>3. \A q \in DOMAIN html : q > p /\ Reaches(pos, q) => q < pos' /\ q \notin KeptSoFar
            <4> SUFFICES ASSUME NEW q \in DOMAIN html, q > p, Reaches(pos, q)
                         PROVE  q < pos' /\ q \notin KeptSoFar
                OBVIOUS
            <4>1. q < pos'
                BY <1>5
            <4>2. q \notin 1 .. pos - 1
                BY <1>2, <2>2, <3>1
            <4>3. QED
                BY <1>7, <4>1, <4>2
        <3>4. QED
            BY <3>1, <3>2, <3>3
    <2>3. QED
        BY <1>2, <1>5, <2>1, <2>2
<1>12. /\ regionStart' \in 1 .. End' /\ pos' \in regionStart' .. End'
       /\ Range(copied') \subseteq 1 .. regionStart' - 1
    <2>1. regionStart' = pos' /\ pos' \in 1 .. End /\ pos' > pos
        BY <1>1, <1>2, <1>5
    <2>2. 1 .. pos - 1 \subseteq 1 .. regionStart' - 1
        <3>1. regionStart' \in Int /\ pos \in Int /\ pos < regionStart'
            BY <1>2, <2>1
        <3>2. QED
            BY <3>1, Below, Zenon
    <2>3. regionStart' \in 1 .. End /\ pos' \in regionStart' .. End
        BY <1>2, <2>1
    <2>4. QED
        BY <1>3, <1>7, <2>2, <2>3
<1>13. QED
    BY <1>1, <1>4, <1>6, <1>10, <1>11, <1>12 DEF HInv

LEMMA SkipHInv == ASSUME HInv, Skip PROVE HInv'
<1>1. /\ html \in Pages /\ html' = html
      /\ regionStart \in 1 .. End /\ pos \in regionStart .. End
      /\ copied \in Seq(Nat) /\ Range(copied) \subseteq 1 .. regionStart - 1
      /\ pos < End /\ ~IsOpener(pos) /\ pos' = pos + 1
      /\ UNCHANGED <<html, regionStart, copied, owned, result>>
    BY DEF Skip, HInv
<1>2. /\ Len(html) \in Nat /\ End = Len(html) + 1 /\ DOMAIN html = 1 .. Len(html)
      /\ pos \in 1 .. Len(html) /\ regionStart \in 1 .. pos
      /\ End' = End
    BY <1>1, PageShape DEF End
<1>3. result = Unfinished /\ ~Opens(pos)
    BY <1>1, <1>2, OpenerOpens DEF HInv
<1>4. KeptSoFar' = KeptSoFar \cup {pos} /\ pos \notin KeptSoFar /\ KeptSoFar \subseteq 1 .. pos - 1
    <2>1. regionStart .. pos' - 1 = (regionStart .. pos - 1) \cup {pos}
        BY <1>1, <1>2
    <2>2. KeptSoFar \subseteq 1 .. pos - 1
        BY <1>1, <1>2 DEF KeptSoFar
    <2>3. QED
        BY <1>1, <1>2, <2>1, <2>2 DEF KeptSoFar
<1>5. \A s, p : Reaches(s, p)' <=> Reaches(s, p)
    BY <1>1 DEF Reaches, Opens, Closes
<1>6. \A p \in KeptSoFar' : ~Opens(p)'
    BY <1>1, <1>3, <1>4 DEF HInv, Opens
<1>7. DroppedBecause'
    <2> SUFFICES ASSUME NEW p \in (1 .. pos' - 1) \ KeptSoFar'
                 PROVE  \E t \in 1 .. p :
                           /\ Reaches(t, p)
                           /\ \A q \in DOMAIN html : q > p /\ Reaches(t, q) => q < pos' /\ q \notin KeptSoFar'
        BY <1>1, <1>5 DEF DroppedBecause
    <2>1. p \in (1 .. pos - 1) \ KeptSoFar
        BY <1>1, <1>2, <1>4
    <2>2. PICK t \in 1 .. p :
              /\ Reaches(t, p)
              /\ \A q \in DOMAIN html : q > p /\ Reaches(t, q) => q < pos /\ q \notin KeptSoFar
        BY <2>1 DEF HInv, DroppedBecause
    <2>3. \A q \in DOMAIN html : q < pos => q < pos' /\ q # pos
        BY <1>1, <1>2
    <2>4. QED
        BY <1>4, <2>2, <2>3
<1>8. regionStart' \in 1 .. End' /\ pos' \in regionStart' .. End'
    BY <1>1, <1>2
<1>9. QED
    BY <1>1, <1>3, <1>6, <1>7, <1>8 DEF HInv, Increasing

(* What is returned is the text that was kept. *)
LEMMA ReturnHInv == ASSUME HInv, Return PROVE HInv'
<1>1. /\ html \in Pages
      /\ regionStart \in 1 .. End /\ pos \in regionStart .. End
      /\ copied \in Seq(Nat) /\ Increasing(copied) /\ Range(copied) \subseteq 1 .. regionStart - 1
      /\ pos >= End
      /\ UNCHANGED <<html, pos, regionStart, copied, owned>>
      /\ owned = FALSE => copied = << >> /\ regionStart = 1
      /\ result' = IF owned THEN copied \o Slice(regionStart, Len(html)) ELSE Slice(1, Len(html))
    BY DEF Return, HInv
<1>2. /\ Len(html) \in Nat /\ End = Len(html) + 1 /\ pos = End /\ pos - 1 = Len(html)
      /\ regionStart \in Nat /\ regionStart <= Len(html) + 1 /\ End' = End
    BY <1>1, PageShape DEF End
<1>3. \A i \in DOMAIN copied : copied[i] < regionStart
    <2>1. \A i \in DOMAIN copied : copied[i] \in 1 .. regionStart - 1
        BY <1>1 DEF Range
    <2>2. QED
        BY <1>2, <2>1
<1>4. /\ result' \in Seq(Nat) /\ Increasing(result') /\ Range(result') = KeptSoFar
    <2>1. CASE owned
        BY <1>1, <1>2, <1>3, <2>1, SliceAppended DEF KeptSoFar
    <2>2. CASE ~owned
        <3>1. /\ << >> \o Slice(1, Len(html)) = Slice(1, Len(html))
              /\ copied = << >> /\ regionStart = 1
            BY <1>1, <1>2, <2>2, SliceOf, ConcatEmptySeq DEF HInv
        <3>2. result' = copied \o Slice(regionStart, Len(html))
            BY <1>1, <2>2, <3>1
        <3>3. /\ copied \o Slice(regionStart, Len(html)) \in Seq(Nat)
              /\ Increasing(copied \o Slice(regionStart, Len(html)))
              /\ Range(copied \o Slice(regionStart, Len(html)))
                     = Range(copied) \cup (regionStart .. Len(html))
            BY <1>1, <1>2, <1>3, SliceAppended
        <3>4. QED
            BY <1>2, <3>2, <3>3 DEF KeptSoFar
    <2>3. QED
        BY <2>1, <2>2
<1>5. KeptSoFar' = KeptSoFar /\ (\A s, p : Reaches(s, p)' <=> Reaches(s, p)) /\ (\A p : Opens(p)' <=> Opens(p))
    BY <1>1 DEF KeptSoFar, Reaches, Opens, Closes
<1>6. DroppedBecause'
    BY <1>1, <1>5 DEF HInv, DroppedBecause
<1>7. QED
    BY <1>1, <1>2, <1>4, <1>5, <1>6 DEF HInv, Increasing

LEMMA HtmlInvariance == HtmlSpec => []HInv
<1>1. HInv /\ [HtmlNext]_htmlVars => HInv'
    <2> SUFFICES ASSUME HInv, [HtmlNext]_htmlVars PROVE HInv'
        OBVIOUS
    <2>1. CASE UNCHANGED htmlVars
        BY <2>1 DEF htmlVars, HInv, KeptSoFar, DroppedBecause, Increasing, Reaches, Opens, Closes, End
    <2>2. QED
        BY <2>1, SkipHInv, DropHInv, ReturnHInv DEF HtmlNext
<1>2. QED
    BY <1>1, InitHInv, PTL DEF HtmlSpec

(* No script or style text survives strip_script_and_style (html.rs:10-12, 64-122), in a
   page of any length with regions unclosed, nested or alike. *)
THEOREM NoScriptIsLeft == HtmlSpec => []NoScriptSurvives
<1>1. HInv => NoScriptSurvives
    <2> SUFFICES ASSUME HInv, result # Unfinished, NEW p \in Kept, NEW s \in DOMAIN html, Reaches(s, p)
                 PROVE  \E t \in 1 .. s - 1 : Reaches(t, s) /\ ~Reaches(t, p)
        BY DEF NoScriptSurvives
    <2>1. /\ Len(html) \in Nat /\ DOMAIN html = 1 .. Len(html) /\ pos = Len(html) + 1
          /\ Kept = KeptSoFar /\ KeptSoFar \subseteq 1 .. Len(html)
        <3>1. /\ Len(html) \in Nat /\ DOMAIN html = 1 .. Len(html) /\ pos = Len(html) + 1
              /\ Kept = KeptSoFar
            BY PageShape DEF HInv, Kept
        <3>2. regionStart \in 1 .. Len(html) + 1 /\ Range(copied) \subseteq 1 .. regionStart - 1
            BY <3>1, PageShape DEF HInv
        <3>3. QED
            BY <3>1, <3>2 DEF KeptSoFar
    <2>2. s <= p /\ Opens(s) /\ s \notin KeptSoFar
        BY DEF HInv, Reaches
    <2>3. s \in (1 .. pos - 1) \ KeptSoFar /\ p > s /\ p \in DOMAIN html
        <3>1. p # s
            BY <2>1, <2>2
        <3>2. QED
            BY <2>1, <2>2, <3>1
    <2>4. PICK t \in 1 .. s :
              /\ Reaches(t, s)
              /\ \A q \in DOMAIN html : q > s /\ Reaches(t, q) => q < pos /\ q \notin KeptSoFar
        BY <2>3 DEF HInv, DroppedBecause
    <2>5. ~Reaches(t, p)
        BY <2>1, <2>3, <2>4
    <2>6. t # s /\ t \in 1 .. s - 1
        <3>1. t # s
            BY <2>5
        <3>2. QED
            BY <2>1, <3>1
    <2>7. QED
        BY <2>4, <2>5, <2>6
<1>2. QED
    BY <1>1, HtmlInvariance, PTL

(* Nothing but regions is left out of the output, and nothing is moved or doubled: words
   that begin like a tag stay (html.rs:56-59, 125-160). *)
THEOREM OnlyRegionsAreCut == HtmlSpec => []OnlyScriptIsDropped
<1>1. HInv => OnlyScriptIsDropped
    <2> SUFFICES ASSUME HInv, result # Unfinished
                 PROVE  /\ \A p \in DOMAIN html \ Kept : \E s \in DOMAIN html : Reaches(s, p)
                        /\ \A a, b \in DOMAIN result : a < b => result[a] < result[b]
        BY DEF OnlyScriptIsDropped
    <2>1. /\ Len(html) \in Nat /\ DOMAIN html = 1 .. Len(html) /\ pos = Len(html) + 1
          /\ Kept = KeptSoFar
        BY PageShape DEF HInv, Kept
    <2>2. ASSUME NEW p \in DOMAIN html \ Kept
          PROVE  \E s \in DOMAIN html : Reaches(s, p)
        <3>1. p \in (1 .. pos - 1) \ KeptSoFar
            BY <2>1
        <3>2. PICK t \in 1 .. p : Reaches(t, p)
            BY <3>1 DEF HInv, DroppedBecause
        <3>3. t \in DOMAIN html
            BY <2>1
        <3>4. QED
            BY <3>2, <3>3
    <2>3. QED
        BY <2>2 DEF HInv, Increasing
<1>2. QED
    BY <1>1, HtmlInvariance, PTL

-----------------------------------------------------------------------------
(* Markdown.  The texts are numbered by their events, so the output of a document of   *)
(* which n events are handled is described by n alone.                                 *)

Ends == {"break", "codeEnd"}

BlockAfter(n) == \E s \in 1 .. n : events[s] = "codeStart" /\ \A m \in s .. n : events[m] # "codeEnd"

EndsInWord(out) == out # << >> /\ out[Len(out)] # 0

\* Every wanted text, once and in order.
Complete(out, n) == Range(out) \ {0} = {e \in Wanted : e <= n}
Ordered(out) ==
    \A i, j \in DOMAIN out : i < j /\ out[i] # 0 /\ out[j] # 0 => out[i] < out[j]

\* A space stands behind a text, and before another one unless it is the last.
Spaced(out, n) ==
    \A i \in DOMAIN out : out[i] = 0 =>
        /\ i - 1 \in DOMAIN out /\ out[i - 1] # 0
        /\ i = Len(out) => Parted(out[i - 1], n)
        /\ i # Len(out) => out[i + 1] # 0 /\ Parted(out[i - 1], out[i + 1])

RunsOn(out, n) ==
    /\ \A i, j \in DOMAIN out : j = i + 1 /\ out[i] # 0 /\ out[j] # 0 => ~Parted(out[i], out[j])
    /\ EndsInWord(out) => ~Parted(out[Len(out)], n)

Good(out, n) ==
    out \in Seq(0 .. n) /\ Complete(out, n) /\ Ordered(out) /\ Spaced(out, n) /\ RunsOn(out, n)

LEMMA Appended ==
    ASSUME NEW n \in Nat, NEW out \in Seq(0 .. n), NEW m \in Nat, n <= m, NEW x \in 0 .. m
    PROVE  /\ Append(out, x) \in Seq(0 .. m)
           /\ Len(out) \in Nat /\ DOMAIN out = 1 .. Len(out)
           /\ Len(Append(out, x)) = Len(out) + 1
           /\ DOMAIN Append(out, x) = 1 .. Len(out) + 1
           /\ \A i \in 1 .. Len(out) : Append(out, x)[i] = out[i] /\ out[i] \in 0 .. n
           /\ Append(out, x)[Len(out) + 1] = x
           /\ Range(Append(out, x)) = Range(out) \cup {x}
<1>1. out \in Seq(0 .. m)
    <2>1. 0 .. n \subseteq 0 .. m
        OBVIOUS
    <2>2. QED
        BY <2>1, SeqMonotonic
<1>2. /\ Append(out, x) \in Seq(0 .. m)
      /\ Len(Append(out, x)) = Len(out) + 1
      /\ \A i \in 1 .. Len(out) : Append(out, x)[i] = out[i]
      /\ Append(out, x)[Len(out) + 1] = x
    BY <1>1, AppendProperties
<1>3. /\ Len(out) \in Nat /\ DOMAIN out = 1 .. Len(out)
      /\ DOMAIN Append(out, x) = 1 .. Len(out) + 1
      /\ \A i \in 1 .. Len(out) : out[i] \in 0 .. n
    BY <1>2, LenProperties, ElementOfSeq
<1> DEFINE longer == Append(out, x)
<1>4. \A i \in DOMAIN longer : (i \in DOMAIN out /\ longer[i] = out[i]) \/ longer[i] = x
    BY <1>2, <1>3
<1>5. /\ \A i \in DOMAIN out : i \in DOMAIN longer /\ longer[i] = out[i]
      /\ Len(out) + 1 \in DOMAIN longer /\ longer[Len(out) + 1] = x
    BY <1>2, <1>3
<1> HIDE DEF longer
<1>6. Range(longer) = Range(out) \cup {x}
    BY <1>4, <1>5 DEF Range
<1>7. QED
    BY <1>2, <1>3, <1>6 DEF longer

LEMMA EventNumbers ==
    ASSUME events \in Events
    PROVE  /\ Len(events) \in Nat /\ DOMAIN events = 1 .. Len(events)
           /\ \A e \in DOMAIN events : e \in Nat /\ events[e] \in Kinds
           /\ \A e \in Wanted : e \in Nat /\ 1 <= e
<1>1. events \in Seq(Kinds)
    BY EventsAssumption
<1>2. Len(events) \in Nat /\ DOMAIN events = 1 .. Len(events)
    BY <1>1, LenProperties
<1>3. \A e \in DOMAIN events : e \in Nat /\ 1 <= e /\ events[e] \in Kinds
    BY <1>1, <1>2, ElementOfSeq
<1>4. QED
    BY <1>2, <1>3 DEF Wanted

(* An event that leaves the output alone: it is no wanted text, and no break that counts. *)
LEMMA GoodPassed ==
    ASSUME events \in Events, NEW n \in Nat, n + 1 \in DOMAIN events, NEW out, Good(out, n),
           n + 1 \notin Wanted,
           events[n + 1] \in Ends /\ spaces => ~EndsInWord(out)
    PROVE  Good(out, n + 1)
<1>1. out \in Seq(0 .. n + 1) /\ Len(out) \in Nat /\ DOMAIN out = 1 .. Len(out)
      /\ \A i \in 1 .. Len(out) : out[i] \in 0 .. n
    <2>1. 0 .. n \subseteq 0 .. n + 1
        OBVIOUS
    <2>2. out \in Seq(0 .. n)
        BY DEF Good
    <2>3. QED
        BY <2>1, <2>2, SeqMonotonic, LenProperties, ElementOfSeq
<1>2. Complete(out, n + 1)
    <2>1. \A e \in Wanted : e \in Nat
        BY EventNumbers
    <2>2. {e \in Wanted : e <= n + 1} = {e \in Wanted : e <= n}
        BY <2>1
    <2>3. QED
        BY <2>2 DEF Good, Complete
<1>3. \A d \in 0 .. n : Parted(d, n) => Parted(d, n + 1)
    <2>1. \A d \in 0 .. n : d .. n \subseteq d .. n + 1
        OBVIOUS
    <2>2. QED
        BY <2>1 DEF Parted
<1>4. Spaced(out, n + 1)
    BY <1>1, <1>3 DEF Good, Spaced
<1>5. EndsInWord(out) => ~Parted(out[Len(out)], n + 1)
    <2> SUFFICES ASSUME EndsInWord(out), Parted(out[Len(out)], n + 1) PROVE FALSE
        OBVIOUS
    <2>1. PICK m \in out[Len(out)] .. n + 1 : events[m] \in Ends
        BY DEF Parted, Ends
    <2>2. spaces /\ m # n + 1
        BY <2>1 DEF Parted
    <2>3. Len(out) \in 1 .. Len(out)
        BY <1>1 DEF EndsInWord
    <2>4. out[Len(out)] \in 0 .. n
        BY <1>1, <2>3
    <2>5. m \in out[Len(out)] .. n
        BY <2>2, <2>4
    <2>6. QED
        BY <2>1, <2>2, <2>5 DEF Good, RunsOn, Parted, Ends
<1>6. QED
    BY <1>1, <1>2, <1>4, <1>5 DEF Good, RunsOn

(* A break behind a text: the space. *)
LEMMA GoodSpace ==
    ASSUME events \in Events, NEW n \in Nat, n + 1 \in DOMAIN events, NEW out, Good(out, n),
           events[n + 1] \in Ends, spaces, EndsInWord(out)
    PROVE  Good(Append(out, 0), n + 1) /\ ~EndsInWord(Append(out, 0))
<1> DEFINE longer == Append(out, 0)
           size == Len(out)
<1>1. out \in Seq(0 .. n)
    BY DEF Good
<1>2. /\ longer \in Seq(0 .. n + 1) /\ size \in Nat /\ DOMAIN out = 1 .. size
      /\ Len(longer) = size + 1 /\ DOMAIN longer = 1 .. size + 1
      /\ \A i \in 1 .. size : longer[i] = out[i] /\ out[i] \in 0 .. n
      /\ longer[size + 1] = 0 /\ Range(longer) = Range(out) \cup {0}
    <2>1. 0 \in 0 .. n + 1 /\ n + 1 \in Nat /\ n <= n + 1
        OBVIOUS
    <2>2. QED
        BY <1>1, <2>1, Appended
<1> HIDE DEF longer
<1>3. size \in 1 .. size /\ out[size] # 0 /\ out[size] \in 0 .. n
    <2>1. size # 0
        BY <1>1, EmptySeq DEF EndsInWord
    <2>2. QED
        BY <1>2, <2>1 DEF EndsInWord
<1> HIDE DEF size
<1>4. Complete(longer, n + 1)
    <2>1. \A e \in Wanted : e \in Nat
        BY EventNumbers
    <2>2. n + 1 \notin Wanted
        BY DEF Wanted, Ends
    <2>3. {e \in Wanted : e <= n + 1} = {e \in Wanted : e <= n}
        BY <2>1, <2>2
    <2>4. QED
        BY <1>2, <2>3 DEF Good, Complete
<1>5. Ordered(longer)
    <2> SUFFICES ASSUME NEW i \in 1 .. size + 1, NEW j \in 1 .. size + 1, i < j,
                        longer[i] # 0, longer[j] # 0
                 PROVE  longer[i] < longer[j]
        BY <1>2 DEF Ordered
    <2>1. i \in 1 .. size /\ j \in 1 .. size
        BY <1>2
    <2>2. QED
        BY <1>2, <2>1 DEF Good, Ordered
<1>6. Spaced(longer, n + 1)
    <2> SUFFICES ASSUME NEW i \in 1 .. size + 1, longer[i] = 0
                 PROVE  /\ i - 1 \in DOMAIN longer /\ longer[i - 1] # 0
                        /\ i = Len(longer) => Parted(longer[i - 1], n + 1)
                        /\ i # Len(longer) => longer[i + 1] # 0 /\ Parted(longer[i - 1], longer[i + 1])
        BY <1>2 DEF Spaced
    <2>1. CASE i = size + 1
        <3>1. i - 1 = size /\ longer[i - 1] = out[size] /\ i = Len(longer)
            BY <1>2, <1>3, <2>1
        <3>2. n + 1 \in out[size] .. n + 1
            BY <1>3
        <3>3. Parted(out[size], n + 1)
            BY <3>2 DEF Parted, Ends
        <3>4. QED
            BY <1>2, <1>3, <3>1, <3>3
    <2>2. CASE i \in 1 .. size
        <3>1. out[i] = 0 /\ i # size
            BY <1>2, <1>3, <2>2
        <3>2. /\ i - 1 \in 1 .. size /\ out[i - 1] # 0
              /\ out[i + 1] # 0 /\ Parted(out[i - 1], out[i + 1])
            BY <1>2, <2>2, <3>1 DEF Good, Spaced, size
        <3>3. i + 1 \in 1 .. size /\ i # Len(longer)
            BY <1>2, <2>2, <3>1
        <3>4. longer[i - 1] = out[i - 1] /\ longer[i + 1] = out[i + 1]
            BY <1>2, <3>2, <3>3
        <3>5. QED
            BY <1>2, <3>2, <3>3, <3>4
    <2>3. QED
        BY <1>2, <2>1, <2>2
<1>7. ~EndsInWord(longer)
    BY <1>2 DEF EndsInWord
<1>8. RunsOn(longer, n + 1)
    <2> SUFFICES ASSUME NEW i \in 1 .. size + 1, NEW j \in 1 .. size + 1, j = i + 1,
                        longer[i] # 0, longer[j] # 0
                 PROVE  ~Parted(longer[i], longer[j])
        BY <1>2, <1>7 DEF RunsOn
    <2>1. i \in 1 .. size /\ j \in 1 .. size
        BY <1>2
    <2>2. QED
        BY <1>2, <2>1 DEF Good, RunsOn
<1>9. QED
    BY <1>2, <1>4, <1>5, <1>6, <1>7, <1>8 DEF Good, longer

(* A wanted text. *)
LEMMA GoodText ==
    ASSUME events \in Events, NEW n \in Nat, n + 1 \in DOMAIN events, NEW out, Good(out, n), n + 1 \in Wanted
    PROVE  Good(Append(out, n + 1), n + 1) /\ EndsInWord(Append(out, n + 1))
<1> DEFINE longer == Append(out, n + 1)
           size == Len(out)
<1>1. out \in Seq(0 .. n) /\ events[n + 1] \in {"text", "code"}
    BY DEF Good, Wanted
<1>2. /\ longer \in Seq(0 .. n + 1) /\ size \in Nat /\ DOMAIN out = 1 .. size
      /\ Len(longer) = size + 1 /\ DOMAIN longer = 1 .. size + 1
      /\ \A i \in 1 .. size : longer[i] = out[i] /\ out[i] \in 0 .. n
      /\ longer[size + 1] = n + 1 /\ Range(longer) = Range(out) \cup {n + 1}
    <2>1. n + 1 \in 0 .. n + 1 /\ n + 1 \in Nat /\ n <= n + 1
        OBVIOUS
    <2>2. QED
        BY <1>1, <2>1, Appended
<1> HIDE DEF longer, size
<1>3. Complete(longer, n + 1)
    <2>1. \A e \in Wanted : e \in Nat
        BY EventNumbers
    <2>2. {e \in Wanted : e <= n + 1} = {e \in Wanted : e <= n} \cup {n + 1}
        BY <2>1
    <2>3. n + 1 # 0
        OBVIOUS
    <2>4. QED
        BY <1>2, <2>2, <2>3 DEF Good, Complete
<1>4. Ordered(longer)
    <2> SUFFICES ASSUME NEW i \in 1 .. size + 1, NEW j \in 1 .. size + 1, i < j,
                        longer[i] # 0, longer[j] # 0
                 PROVE  longer[i] < longer[j]
        BY <1>2 DEF Ordered
    <2>1. i \in 1 .. size
        BY <1>2
    <2>2. CASE j \in 1 .. size
        BY <1>2, <2>1, <2>2 DEF Good, Ordered
    <2>3. CASE j = size + 1
        BY <1>2, <2>1, <2>3
    <2>4. QED
        BY <1>2, <2>2, <2>3
<1>5. \A d \in 0 .. n : Parted(d, n) <=> Parted(d, n + 1)
    <2>1. \A d \in 0 .. n : \A m : m \in d .. n + 1 <=> m \in d .. n \/ m = n + 1
        OBVIOUS
    <2>2. events[n + 1] \notin {"break", "codeEnd"}
        BY <1>1
    <2>3. QED
        BY <2>1, <2>2 DEF Parted
<1>6. Spaced(longer, n + 1)
    <2> SUFFICES ASSUME NEW i \in 1 .. size + 1, longer[i] = 0
                 PROVE  /\ i - 1 \in DOMAIN longer /\ longer[i - 1] # 0
                        /\ i # Len(longer)
                        /\ longer[i + 1] # 0 /\ Parted(longer[i - 1], longer[i + 1])
        BY <1>2 DEF Spaced
    <2>1. i \in 1 .. size /\ out[i] = 0 /\ i # Len(longer)
        BY <1>2
    <2>2. /\ i - 1 \in 1 .. size /\ out[i - 1] # 0
          /\ i = size => Parted(out[i - 1], n)
          /\ i # size => out[i + 1] # 0 /\ Parted(out[i - 1], out[i + 1])
        BY <1>2, <2>1 DEF Good, Spaced, size
    <2>3. CASE i = size
        <3>1. longer[i + 1] = n + 1 /\ longer[i - 1] = out[i - 1] /\ out[i - 1] \in 0 .. n
            BY <1>2, <2>2, <2>3
        <3>2. Parted(out[i - 1], n + 1)
            BY <1>5, <2>2, <2>3, <3>1
        <3>3. n + 1 # 0
            OBVIOUS
        <3>4. QED
            BY <1>2, <2>1, <2>2, <3>1, <3>2, <3>3
    <2>4. CASE i # size
        <3>1. size \in Nat
            BY <1>2
        <3>2. i + 1 \in 1 .. size
            BY <2>1, <2>4, <3>1
        <3>3. longer[i - 1] = out[i - 1] /\ longer[i + 1] = out[i + 1]
            BY <1>2, <2>2, <3>2
        <3>4. QED
            BY <1>2, <2>1, <2>2, <2>4, <3>3
    <2>5. QED
        BY <2>3, <2>4
<1>7. EndsInWord(longer)
    <2>1. longer # << >>
        BY <1>2
    <2>2. QED
        BY <1>2, <2>1 DEF EndsInWord
<1>8. RunsOn(longer, n + 1)
    <2>1. ~Parted(longer[Len(longer)], n + 1)
        <3>1. \A m \in n + 1 .. n + 1 : m = n + 1
            OBVIOUS
        <3>2. QED
            BY <1>1, <1>2, <3>1 DEF Parted
    <2> SUFFICES ASSUME NEW i \in 1 .. size + 1, NEW j \in 1 .. size + 1, j = i + 1,
                        longer[i] # 0, longer[j] # 0
                 PROVE  ~Parted(longer[i], longer[j])
        BY <1>2, <2>1 DEF RunsOn
    <2>2. CASE j \in 1 .. size
        <3>1. i \in 1 .. size
            BY <1>2
        <3>2. QED
            BY <1>2, <2>2, <3>1 DEF Good, RunsOn
    <2>3. CASE j = size + 1
        <3>1. i = size /\ size \in 1 .. size /\ out[size] # 0
            <4>1. size \in Nat /\ i \in 1 .. size + 1 /\ i + 1 = size + 1
                BY <1>2, <2>3
            <4>2. i = size /\ size \in 1 .. size
                BY <4>1
            <4>3. QED
                BY <1>2, <4>2
        <3>2. EndsInWord(out)
            BY <1>1, <3>1, EmptySeq DEF EndsInWord, size
        <3>3. ~Parted(out[size], n) /\ out[size] \in 0 .. n
            BY <1>2, <3>1, <3>2 DEF Good, RunsOn, size
        <3>4. ~Parted(out[size], n + 1)
            BY <1>5, <3>3
        <3>5. QED
            BY <1>2, <2>3, <3>1, <3>4
    <2>4. QED
        BY <1>2, <2>2, <2>3
<1>9. QED
    BY <1>2, <1>3, <1>4, <1>6, <1>7, <1>8 DEF Good, longer

\* What WordsKeptApart asks of the text that is returned.
Arranged(out) ==
    /\ Range(out) \ {0} = Wanted
    /\ Ordered(out)
    /\ \A i \in DOMAIN out : out[i] = 0 =>
          /\ {i - 1, i + 1} \subseteq DOMAIN out
          /\ out[i - 1] # 0 /\ out[i + 1] # 0 /\ Parted(out[i - 1], out[i + 1])
    /\ \A i, j \in DOMAIN out : j = i + 1 /\ out[i] # 0 /\ out[j] # 0 => ~Parted(out[i], out[j])

LEMMA GoodTrimmed ==
    ASSUME events \in Events, NEW out, Good(out, Len(events))
    PROVE  Arranged(IF out # << >> /\ Last(out) = 0 THEN Front(out) ELSE out)
<1> DEFINE size == Len(out)
<1>1. /\ size \in Nat /\ DOMAIN out = 1 .. size /\ out \in Seq(0 .. Len(events))
      /\ Last(out) = out[size]
    BY LenProperties DEF Good, Last
<1>2. {e \in Wanted : e <= Len(events)} = Wanted
    <2>1. \A e \in Wanted : e \in 1 .. Len(events)
        BY EventNumbers DEF Wanted
    <2>2. QED
        BY <2>1, EventNumbers
<1>3. Range(out) \ {0} = Wanted
    BY <1>2 DEF Good, Complete
<1>4. \A i \in 1 .. size : out[i] = 0 =>
          /\ i - 1 \in 1 .. size /\ out[i - 1] # 0
          /\ i # size => out[i + 1] # 0 /\ Parted(out[i - 1], out[i + 1])
    BY <1>1 DEF Good, Spaced
<1> HIDE DEF size
<1>5. CASE out = << >> \/ out[size] # 0
    <2>1. \A i \in 1 .. size : out[i] = 0 => i + 1 \in 1 .. size /\ i # size
        <3>1. ASSUME out = << >> PROVE size = 0
            BY <3>1 DEF size
        <3>2. QED
            BY <1>1, <1>5, <3>1
    <2>2. Arranged(out)
        BY <1>1, <1>3, <1>4, <2>1 DEF Arranged, Good, RunsOn
    <2>3. QED
        BY <1>1, <1>5, <2>2
<1>6. CASE out # << >> /\ out[size] = 0
    <2> DEFINE short == Front(out)
    <2>1. size \in 1 .. size
        BY <1>1, <1>6, EmptySeq DEF size
    <2>2. size - 1 \in 1 .. size /\ out[size - 1] # 0
        BY <1>4, <1>6, <2>1
    <2>3. /\ DOMAIN short = 1 .. size - 1 /\ \A i \in 1 .. size - 1 : short[i] = out[i]
        <3>1. \A i \in 1 .. size - 1 : out[i] \in 0 .. Len(events)
            <4>1. \A i \in 1 .. size - 1 : i \in 1 .. size
                BY <1>1
            <4>2. QED
                BY <1>1, <4>1, ElementOfSeq DEF size
        <3>2. short = SubSeq(out, 1, size - 1)
            BY DEF Front, size
        <3>3. size - 1 \in Int /\ 1 <= size - 1 /\ (size - 1) - 1 + 1 = size - 1
            BY <1>1, <2>2
        <3>4. /\ SubSeq(out, 1, size - 1) \in Seq(0 .. Len(events))
              /\ Len(SubSeq(out, 1, size - 1)) = size - 1
              /\ \A i \in 1 .. size - 1 : SubSeq(out, 1, size - 1)[i] = out[i]
            BY <3>1, <3>3, SubSeqProperties
        <3>5. QED
            BY <3>2, <3>4, LenProperties
    <2> HIDE DEF short
    <2>4. Range(short) \ {0} = Range(out) \ {0}
        <3>1. \A i \in DOMAIN short : i \in DOMAIN out /\ short[i] = out[i]
            BY <1>1, <2>3
        <3>2. \A i \in DOMAIN out : out[i] # 0 => i \in DOMAIN short /\ short[i] = out[i]
            <4>1. \A i \in 1 .. size : i # size => i \in 1 .. size - 1
                BY <1>1
            <4>2. QED
                BY <1>1, <1>6, <2>3, <4>1
        <3>3. QED
            BY <3>1, <3>2 DEF Range
    <2>5. \A i \in 1 .. size - 1 : i \in 1 .. size /\ i # size
        BY <1>1
    <2>6. Ordered(short)
        BY <1>1, <2>3, <2>5 DEF Good, Ordered
    <2>7. ASSUME NEW i \in 1 .. size - 1, short[i] = 0
          PROVE  /\ {i - 1, i + 1} \subseteq DOMAIN short
                 /\ short[i - 1] # 0 /\ short[i + 1] # 0 /\ Parted(short[i - 1], short[i + 1])
        <3>1. /\ i - 1 \in 1 .. size /\ out[i - 1] # 0
              /\ out[i + 1] # 0 /\ Parted(out[i - 1], out[i + 1])
            BY <1>4, <2>3, <2>5, <2>7
        <3>2. i + 1 # size
            BY <1>6, <3>1
        <3>3. i - 1 \in 1 .. size - 1 /\ i + 1 \in 1 .. size - 1
            BY <1>1, <3>1, <3>2
        <3>4. QED
            BY <2>3, <3>1, <3>3
    <2>8. \A i, j \in 1 .. size - 1 :
              j = i + 1 /\ short[i] # 0 /\ short[j] # 0 => ~Parted(short[i], short[j])
        BY <1>1, <2>3, <2>5 DEF Good, RunsOn
    <2>9. Arranged(short)
        BY <1>3, <2>3, <2>4, <2>6, <2>7, <2>8 DEF Arranged
    <2>10. QED
        BY <1>1, <1>6, <2>9 DEF short
<1>7. QED
    BY <1>5, <1>6

-----------------------------------------------------------------------------
LEMMA BlockGoesOn ==
    ASSUME events \in Events, NEW n \in Nat, n + 1 \in DOMAIN events
    PROVE  /\ BlockAfter(n + 1) <=>
                  events[n + 1] = "codeStart" \/ (BlockAfter(n) /\ events[n + 1] # "codeEnd")
           /\ events[n + 1] # "codeEnd" => (InBlock(n + 1) <=> BlockAfter(n))
<1>1. /\ \A s : s \in 1 .. n + 1 <=> s \in 1 .. n \/ s = n + 1
      /\ \A s \in 1 .. n : \A m : m \in s .. n + 1 <=> m \in s .. n \/ m = n + 1
      /\ \A m : m \in n + 1 .. n + 1 <=> m = n + 1
      /\ (n + 1) - 1 = n
    OBVIOUS
<1>2. BlockAfter(n + 1) <=>
          events[n + 1] = "codeStart" \/ (BlockAfter(n) /\ events[n + 1] # "codeEnd")
    <2>1. ASSUME BlockAfter(n + 1)
          PROVE  events[n + 1] = "codeStart" \/ (BlockAfter(n) /\ events[n + 1] # "codeEnd")
        <3>1. PICK s \in 1 .. n + 1 :
                  events[s] = "codeStart" /\ \A m \in s .. n + 1 : events[m] # "codeEnd"
            BY <2>1 DEF BlockAfter
        <3>2. CASE s = n + 1
            BY <3>1, <3>2
        <3>3. CASE s \in 1 .. n
            BY <1>1, <3>1, <3>3 DEF BlockAfter
        <3>4. QED
            BY <1>1, <3>2, <3>3
    <2>2. ASSUME events[n + 1] = "codeStart" PROVE BlockAfter(n + 1)
        <3>1. n + 1 \in 1 .. n + 1 /\ \A m \in n + 1 .. n + 1 : events[m] # "codeEnd"
            BY <1>1, <2>2
        <3>2. QED
            BY <2>2, <3>1 DEF BlockAfter
    <2>3. ASSUME BlockAfter(n), events[n + 1] # "codeEnd" PROVE BlockAfter(n + 1)
        BY <1>1, <2>3 DEF BlockAfter
    <2>4. QED
        BY <2>1, <2>2, <2>3
<1>3. events[n + 1] # "codeEnd" => (InBlock(n + 1) <=> BlockAfter(n))
    BY <1>1 DEF InBlock, BlockAfter
<1>4. QED
    BY <1>2, <1>3

\* The fold, event by event: the flags say what they are for.
MInv ==
    /\ events \in Events /\ handled \in 0 .. Len(events)
    /\ blocks \in BOOLEAN /\ inline \in BOOLEAN /\ spaces \in BOOLEAN /\ done \in BOOLEAN
    /\ inCodeBlock \in BOOLEAN /\ lastWasBreak \in BOOLEAN
    /\ inCodeBlock <=> BlockAfter(handled)
    /\ ~done => Good(output, handled) /\ (lastWasBreak <=> ~EndsInWord(output))
    /\ done => handled = Len(events) /\ Arranged(output)

LEMMA InitMInv == MarkdownInit => MInv
<1> SUFFICES ASSUME MarkdownInit PROVE MInv
    OBVIOUS
<1>1. /\ events \in Events /\ handled = 0 /\ output = << >> /\ lastWasBreak = TRUE
      /\ inCodeBlock = FALSE /\ done = FALSE
    BY DEF MarkdownInit
<1>2. ~EndsInWord(output) /\ DOMAIN output = {} /\ Range(output) = {} /\ output \in Seq(0 .. 0)
    BY <1>1 DEF EndsInWord, Range
<1>3. ~BlockAfter(0)
    BY DEF BlockAfter
<1>4. {e \in Wanted : e <= 0} = {}
    BY <1>1, EventNumbers
<1>5. Good(output, 0)
    BY <1>2, <1>4 DEF Good, Complete, Ordered, Spaced, RunsOn
<1>6. 0 \in 0 .. Len(events)
    BY <1>1, EventNumbers
<1>7. QED
    BY <1>1, <1>2, <1>3, <1>5, <1>6 DEF MInv, MarkdownInit

\* Before an event is handled.
LEMMA BeforeEvent ==
    ASSUME MInv, NEW kind \in Kinds, Handle(kind)
    PROVE  /\ events \in Events /\ handled \in Nat /\ handled + 1 \in DOMAIN events
           /\ events[handled + 1] = kind /\ handled' = handled + 1
           /\ handled' \in 0 .. Len(events')
           /\ ~done /\ Good(output, handled) /\ (lastWasBreak <=> ~EndsInWord(output))
           /\ UNCHANGED <<events, blocks, inline, spaces, done>>
<1>1. events \in Events /\ handled \in 0 .. Len(events) /\ handled < Len(events)
      /\ events[handled + 1] = kind /\ handled' = handled + 1
      /\ UNCHANGED <<events, blocks, inline, spaces, done>>
    BY DEF MInv, Handle, Options
<1>2. Len(events) \in Nat /\ DOMAIN events = 1 .. Len(events)
    BY <1>1, EventNumbers
<1>3. handled \in Nat /\ handled + 1 \in 1 .. Len(events) /\ handled + 1 \in 0 .. Len(events)
    BY <1>1, <1>2
<1>4. ~done
    <2>1. handled # Len(events)
        <3>1. handled < Len(events) /\ handled \in Nat /\ Len(events) \in Nat
            BY <1>1, <1>2, <1>3
        <3>2. QED
            BY <3>1
    <2>2. done => handled = Len(events)
        BY DEF MInv
    <2>3. QED
        BY <2>1, <2>2
<1>5. QED
    BY <1>1, <1>2, <1>3, <1>4 DEF MInv

\* And after it: what the event made of the output and the flags is enough.
LEMMA AfterEvent ==
    ASSUME MInv, NEW kind \in Kinds, Handle(kind),
           Good(output', handled + 1), lastWasBreak' \in BOOLEAN,
           lastWasBreak' <=> ~EndsInWord(output'),
           inCodeBlock' \in BOOLEAN,
           inCodeBlock' <=> kind = "codeStart" \/ (inCodeBlock /\ kind # "codeEnd")
    PROVE  MInv'
<1>1. /\ events \in Events /\ handled \in Nat /\ handled + 1 \in DOMAIN events
      /\ events[handled + 1] = kind /\ handled' = handled + 1
      /\ handled' \in 0 .. Len(events')
      /\ ~done
      /\ UNCHANGED <<events, blocks, inline, spaces, done>>
    BY BeforeEvent
<1>2. inCodeBlock' <=> BlockAfter(handled + 1)
    <2>1. inCodeBlock <=> BlockAfter(handled)
        BY DEF MInv
    <2>2. BlockAfter(handled + 1) <=>
              kind = "codeStart" \/ (BlockAfter(handled) /\ kind # "codeEnd")
        BY <1>1, BlockGoesOn
    <2>3. QED
        BY <2>1, <2>2
<1>3. inCodeBlock' <=> BlockAfter(handled)'
    BY <1>1, <1>2 DEF BlockAfter
<1>4. Good(output, handled)'
    BY <1>1 DEF Good, Complete, Ordered, Spaced, RunsOn, EndsInWord, Wanted, InBlock, Parted
<1>5. lastWasBreak' <=> ~EndsInWord(output)'
    BY DEF EndsInWord
<1>6. QED
    BY <1>1, <1>3, <1>4, <1>5 DEF MInv

LEMMA SpaceMInv ==
    ASSUME MInv, NEW kind \in Ends, Handle(kind), PushSpace
    PROVE  /\ Good(output', handled + 1) /\ lastWasBreak' \in BOOLEAN
           /\ lastWasBreak' <=> ~EndsInWord(output')
<1>1. /\ events \in Events /\ handled \in Nat /\ handled + 1 \in DOMAIN events
      /\ events[handled + 1] = kind /\ Good(output, handled)
      /\ (lastWasBreak <=> ~EndsInWord(output)) /\ lastWasBreak \in BOOLEAN
    BY BeforeEvent DEF Ends, Kinds, MInv
<1>2. CASE spaces /\ ~lastWasBreak
    <2>1. output' = Append(output, 0) /\ lastWasBreak' = TRUE
        BY <1>2 DEF PushSpace
    <2>2. QED
        BY <1>1, <1>2, <2>1, GoodSpace
<1>3. CASE ~(spaces /\ ~lastWasBreak)
    <2>1. output' = output /\ lastWasBreak' = lastWasBreak
        BY <1>3 DEF PushSpace
    <2>2. handled + 1 \notin Wanted
        BY <1>1 DEF Wanted, Ends
    <2>3. QED
        BY <1>1, <1>3, <2>1, <2>2, GoodPassed
<1>4. QED
    BY <1>2, <1>3

LEMMA PushMInv ==
    ASSUME MInv, NEW kind \in {"text", "code"}, NEW kept \in BOOLEAN, Handle(kind), Push(kept),
           kept <=> handled + 1 \in Wanted
    PROVE  /\ Good(output', handled + 1) /\ lastWasBreak' \in BOOLEAN
           /\ lastWasBreak' <=> ~EndsInWord(output')
<1>1. /\ events \in Events /\ handled \in Nat /\ handled + 1 \in DOMAIN events
      /\ events[handled + 1] = kind /\ Good(output, handled) /\ handled' = handled + 1
      /\ (lastWasBreak <=> ~EndsInWord(output)) /\ lastWasBreak \in BOOLEAN
    BY BeforeEvent DEF Kinds, MInv
<1>2. CASE kept
    <2>1. output' = Append(output, handled + 1) /\ lastWasBreak' = FALSE
        BY <1>1, <1>2 DEF Push
    <2>2. QED
        BY <1>1, <1>2, <2>1, GoodText
<1>3. CASE ~kept
    <2>1. output' = output /\ lastWasBreak' = lastWasBreak
        BY <1>3 DEF Push
    <2>2. events[handled + 1] \notin Ends
        BY <1>1 DEF Ends
    <2>3. QED
        BY <1>1, <1>3, <2>1, <2>2, GoodPassed
<1>4. QED
    BY <1>2, <1>3

LEMMA EventMInv ==
    ASSUME MInv, CodeBlockStart \/ CodeBlockEnd \/ Break \/ Text \/ Code
    PROVE  MInv'
<1>1. CASE CodeBlockStart
    <2>1. /\ Handle("codeStart") /\ inCodeBlock' = TRUE
          /\ output' = output /\ lastWasBreak' = lastWasBreak
        BY <1>1 DEF CodeBlockStart
    <2>2. "codeStart" \in Kinds
        BY DEF Kinds
    <2>3. /\ events \in Events /\ handled \in Nat /\ handled + 1 \in DOMAIN events
          /\ events[handled + 1] = "codeStart" /\ Good(output, handled)
          /\ (lastWasBreak <=> ~EndsInWord(output)) /\ lastWasBreak \in BOOLEAN
        BY <2>1, <2>2, BeforeEvent DEF MInv
    <2>4. handled + 1 \notin Wanted /\ events[handled + 1] \notin Ends
        BY <2>3 DEF Wanted, Ends
    <2>5. Good(output', handled + 1)
        BY <2>1, <2>3, <2>4, GoodPassed
    <2>6. QED
        BY <2>1, <2>2, <2>3, <2>5, AfterEvent
<1>2. CASE CodeBlockEnd
    <2>1. Handle("codeEnd") /\ inCodeBlock' = FALSE /\ PushSpace
        BY <1>2 DEF CodeBlockEnd
    <2>2. "codeEnd" \in Kinds /\ "codeEnd" \in Ends
        BY DEF Kinds, Ends
    <2>3. /\ Good(output', handled + 1) /\ lastWasBreak' \in BOOLEAN
          /\ lastWasBreak' <=> ~EndsInWord(output')
        BY <2>1, <2>2, SpaceMInv
    <2>4. QED
        BY <2>1, <2>2, <2>3, AfterEvent
<1>3. CASE Break
    <2>1. Handle("break") /\ inCodeBlock' = inCodeBlock /\ PushSpace
        BY <1>3 DEF Break
    <2>2. "break" \in Kinds /\ "break" \in Ends
        BY DEF Kinds, Ends
    <2>3. /\ Good(output', handled + 1) /\ lastWasBreak' \in BOOLEAN
          /\ lastWasBreak' <=> ~EndsInWord(output')
        BY <2>1, <2>2, SpaceMInv
    <2>4. QED
        BY <2>1, <2>2, <2>3, AfterEvent DEF MInv
<1>4. CASE Text
    <2> DEFINE kept == ~inCodeBlock \/ blocks
    <2>1. Handle("text") /\ inCodeBlock' = inCodeBlock /\ Push(kept)
        BY <1>4 DEF Text
    <2>2. "text" \in Kinds /\ "text" \in {"text", "code"} /\ kept \in BOOLEAN
        BY DEF Kinds
    <2>3. /\ events \in Events /\ handled \in Nat /\ handled + 1 \in DOMAIN events
          /\ events[handled + 1] = "text"
        BY <2>1, <2>2, BeforeEvent
    <2>4. InBlock(handled + 1) <=> inCodeBlock
        BY <2>3, BlockGoesOn DEF MInv
    <2>5. kept <=> handled + 1 \in Wanted
        BY <2>3, <2>4 DEF Wanted
    <2> HIDE DEF kept
    <2>6. /\ Good(output', handled + 1) /\ lastWasBreak' \in BOOLEAN
          /\ lastWasBreak' <=> ~EndsInWord(output')
        BY <2>1, <2>2, <2>5, PushMInv
    <2>7. QED
        BY <2>1, <2>2, <2>6, AfterEvent DEF MInv
<1>5. CASE Code
    <2>1. Handle("code") /\ inCodeBlock' = inCodeBlock /\ Push(inline)
        BY <1>5 DEF Code
    <2>2. "code" \in Kinds /\ "code" \in {"text", "code"} /\ inline \in BOOLEAN
        BY DEF Kinds, MInv
    <2>3. /\ events \in Events /\ handled \in Nat /\ handled + 1 \in DOMAIN events
          /\ events[handled + 1] = "code"
        BY <2>1, <2>2, BeforeEvent
    <2>4. inline <=> handled + 1 \in Wanted
        BY <2>3 DEF Wanted
    <2>5. /\ Good(output', handled + 1) /\ lastWasBreak' \in BOOLEAN
          /\ lastWasBreak' <=> ~EndsInWord(output')
        BY <2>1, <2>2, <2>4, PushMInv
    <2>6. QED
        BY <2>1, <2>2, <2>5, AfterEvent DEF MInv
<1>6. QED
    BY <1>1, <1>2, <1>3, <1>4, <1>5

LEMMA TrimMInv == ASSUME MInv, Trim PROVE MInv'
<1>1. /\ handled = Len(events) /\ ~done /\ done' = TRUE
      /\ output' = IF output # << >> /\ Last(output) = 0 THEN Front(output) ELSE output
      /\ UNCHANGED <<events, blocks, inline, spaces, handled, inCodeBlock, lastWasBreak>>
    BY DEF Trim, Options
<1>2. events \in Events /\ Good(output, Len(events))
    BY <1>1 DEF MInv
<1>3. Arranged(output')
    BY <1>1, <1>2, GoodTrimmed
<1>4. Arranged(output)'
    BY <1>1, <1>3 DEF Arranged, Ordered, Wanted, InBlock, Parted
<1>5. BlockAfter(handled)' <=> BlockAfter(handled)
    BY <1>1 DEF BlockAfter
<1>6. QED
    BY <1>1, <1>4, <1>5 DEF MInv

(* markdown_to_text_with (markdown.rs:87-157), on documents of any length and with any
   events between two texts: the wanted texts, in order, a space between two exactly
   where the document has a break between them. *)
THEOREM WordsStayApart == MarkdownSpec => []WordsKeptApart
<1>1. MInv /\ [MarkdownNext]_markdownVars => MInv'
    <2> SUFFICES ASSUME MInv, [MarkdownNext]_markdownVars PROVE MInv'
        OBVIOUS
    <2>1. CASE UNCHANGED markdownVars
        <3>1. UNCHANGED <<events, blocks, inline, spaces, handled, output, inCodeBlock, lastWasBreak, done>>
            BY <2>1 DEF markdownVars
        <3>2. UNCHANGED <<BlockAfter(handled), EndsInWord(output)>>
            BY <3>1 DEF BlockAfter, EndsInWord
        <3>3. UNCHANGED Arranged(output)
            BY <3>1 DEF Arranged, Ordered, Wanted, InBlock, Parted
        <3>4. UNCHANGED Good(output, handled)
            BY <3>1 DEF Good, Complete, Ordered, Spaced, RunsOn, EndsInWord, Wanted, InBlock, Parted
        <3>5. QED
            BY <3>1, <3>2, <3>3, <3>4 DEF MInv
    <2>2. QED
        BY <2>1, EventMInv, TrimMInv DEF MarkdownNext
<1>2. MInv => WordsKeptApart
    BY DEF MInv, WordsKeptApart, Arranged, Ordered
<1>3. QED
    BY <1>1, <1>2, InitMInv, PTL DEF MarkdownSpec
=============================================================================
