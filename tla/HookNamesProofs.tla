--------------------------- MODULE HookNamesProofs ---------------------------
(* Proofs about HookNames: names fit and are apart, edits change the checksum. *)
EXTENDS HookNames, Minima, SequenceTheorems

-----------------------------------------------------------------------------
(* Characters.                                                                *)

LEMMA CharFacts ==
  /\ Plain \subseteq Chars /\ Dash \in Plain /\ Zero \in Plain /\ Char("r") \in Plain /\ Char("h") \in Plain
  /\ Char("r") # Dash /\ Char("h") # Dash
<1>1. <<>> \in Seq(Plain)
  BY EmptySeq
<1>2. "-" # "r" /\ "-" # "h"
  OBVIOUS
<1>3. Plain \subseteq Chars
  BY <1>1 DEF Plain, Chars
<1>4. \A x \in Letters : Char(x) \in Plain
  BY DEF Plain, Char
<1>5. Dash \in Plain /\ Zero \in Plain /\ Char("r") \in Plain /\ Char("h") \in Plain
  BY <1>4, NamesOK DEF NamesOK, Dash, Zero
<1>6. Dash.char = "-" /\ Char("r").char = "r" /\ Char("h").char = "h"
  BY DEF Dash, Char
<1>7. Char("r") # Dash /\ Char("h") # Dash
  BY <1>2, <1>6
<1> QED
  BY <1>3, <1>5, <1>7

\* The two parts, the separator, a dash and 8 digits fit; so do a node's dash and 6 digits.
LEMMA Limits ==
  /\ Sep \in Seq(Plain) /\ Sep \in Seq(Chars) /\ Len(Sep) \in Nat /\ Len(Sep) >= 4 /\ Len(Sep) <= 4
  /\ Sep[1] = Dash /\ Sep[2] # Dash /\ Sep[3] # Dash /\ Sep[4] = Dash
  /\ PerPart \in Nat /\ PerPart >= 1 /\ PerPart + PerPart + Len(Sep) + 9 <= MaxLen
  /\ MaxLen \in Nat /\ MaxLen >= 8
<1>1. Sep \in Seq(Plain) /\ Len(Sep) = 4
  BY CharFacts DEF Sep
<1>2. Sep[1] = Dash /\ Sep[2] # Dash /\ Sep[3] # Dash /\ Sep[4] = Dash
  BY CharFacts DEF Sep
<1>3. PerPart = 25
  BY <1>1 DEF PerPart, MaxLen
<1>4. \A n : n = 4 => n \in Nat /\ n >= 4 /\ n <= 4
  OBVIOUS
<1>5. Len(Sep) \in Nat /\ Len(Sep) >= 4 /\ Len(Sep) <= 4
  BY <1>1, <1>4, Zenon
<1>6. Sep \in Seq(Chars)
  BY <1>1, CharFacts, SeqMonotonic
<1>7. PerPart + PerPart + Len(Sep) + 9 <= MaxLen
  <2>1. \A n \in Nat : n <= 4 => 25 + 25 + n + 9 <= 63
    OBVIOUS
  <2> QED
    BY <1>3, <1>5, <2>1, Zenon DEF MaxLen
<1> QED
  BY <1>1, <1>2, <1>3, <1>5, <1>6, <1>7 DEF MaxLen

\* A digit is no dash and tells what was hashed.
LEMMA HashFacts ==
  ASSUME NEW s \in Seq(Plain), NEW n \in 1 .. 8
  PROVE  /\ Hash(s, n) \in Seq(Chars)
         /\ Len(Hash(s, n)) \in Nat /\ Len(Hash(s, n)) >= n /\ Len(Hash(s, n)) <= n
         /\ \A i \in 1 .. Len(Hash(s, n)) : Hash(s, n)[i] # Dash /\ Hash(s, n)[i].of = s
<1>1. ASSUME NEW i \in 1 .. 8 PROVE DigitNames[i] \in Letters /\ DigitNames[i] # "-"
  <2>1. i = 1 \/ i = 2 \/ i = 3 \/ i = 4 \/ i = 5 \/ i = 6 \/ i = 7 \/ i = 8
    OBVIOUS
  <2>2. /\ DigitNames[1] = "1" /\ DigitNames[2] = "2" /\ DigitNames[3] = "3" /\ DigitNames[4] = "4"
        /\ DigitNames[5] = "5" /\ DigitNames[6] = "6" /\ DigitNames[7] = "7" /\ DigitNames[8] = "8"
        /\ DOMAIN DigitNames = 1 .. 8
    BY DEF DigitNames
  <2>3. /\ "1" # "-" /\ "2" # "-" /\ "3" # "-" /\ "4" # "-"
        /\ "5" # "-" /\ "6" # "-" /\ "7" # "-" /\ "8" # "-"
    OBVIOUS
  <2>4. DigitNames[i] # "-"
    BY <2>1, <2>2, <2>3
  <2>5. DigitNames[i] \in Range(DigitNames)
    BY <2>2 DEF Range
  <2> QED
    BY <2>4, <2>5, NamesOK DEF NamesOK
<1>2. ASSUME NEW i \in 1 .. n
      PROVE  /\ [char |-> DigitNames[i], of |-> s] \in Chars
             /\ [char |-> DigitNames[i], of |-> s] # Dash
  <2>1. i \in 1 .. 8
    OBVIOUS
  <2> QED
    BY <1>1, <2>1 DEF Chars, Dash, Char
<1>3. Hash(s, n) \in [1 .. n -> Chars]
  BY <1>2 DEF Hash
<1>4. Hash(s, n) \in Seq(Chars) /\ Len(Hash(s, n)) = n
  BY <1>3, SeqDef
<1>5. \A i \in 1 .. n : Hash(s, n)[i] # Dash /\ Hash(s, n)[i].of = s
  BY <1>2 DEF Hash
<1>6. n \in Nat /\ n >= n /\ n <= n
  OBVIOUS
<1> QED
  BY <1>4, <1>5, <1>6, Zenon

LEMMA PlainSeq ==
  ASSUME NEW s \in Seq(Plain)
  PROVE  s \in Seq(Chars) /\ Len(s) \in Nat /\ \A i \in 1 .. Len(s) : s[i] \in Plain /\ s[i].of = <<>>
<1>1. \A i \in 1 .. Len(s) : s[i] \in Plain
  BY ElementOfSeq
<1> QED
  BY <1>1, CharFacts, SeqMonotonic, LenProperties DEF Plain

-----------------------------------------------------------------------------
(* hookJobName and perNodeJobName.                                            *)

\* What the code has to work with: not empty, no dash at either end.
Name(s)  == s \in Seq(Plain) /\ s # <<>> /\ Head(s) # Dash /\ Last(s) # Dash
Label(s) == s \in Seq(Chars) /\ Len(s) \in 1 .. MaxLen /\ s[1] # Dash /\ s[Len(s)] # Dash

LEMMA NameFacts ==
  ASSUME NEW s, Name(s)
  PROVE  s \in Seq(Plain) /\ s \in Seq(Chars) /\ Len(s) \in Nat /\ Len(s) >= 1 /\ s[1] # Dash /\ s[Len(s)] # Dash
BY PlainSeq, EmptySeq DEF Name, Last

LEMMA LabelIsLabel ==
  ASSUME NEW s, Label(s)
  PROVE  IsLabel(s)
BY EmptySeq DEF Label, IsLabel, Last, MaxLen

LEMMA GivenNames ==
  ASSUME NEW s \in PlanNames \cup HookKeys \cup Nodes
  PROVE  Name(s)
BY NamesOK DEF NamesOK, Name

LEMMA PrefixFacts ==
  ASSUME NEW s \in Seq(Chars), NEW n \in 0 .. Len(s)
  PROVE  Prefix(s, n) \in Seq(Chars) /\ Len(Prefix(s, n)) = n /\ \A i \in 1 .. n : Prefix(s, n)[i] = s[i]
<1>1. Len(s) \in Nat /\ n \in Int /\ 1 \in Int /\ \A i \in 1 .. n : s[i] \in Chars
  BY LenProperties, ElementOfSeq
<1>2. Prefix(s, n) \in Seq(Chars) /\ Len(Prefix(s, n)) = IF 1 <= n THEN n - 1 + 1 ELSE 0
  BY <1>1, SubSeqProperties DEF Prefix
<1>3. \A i \in 1 .. n - 1 + 1 : Prefix(s, n)[i] = s[1 + i - 1]
  BY <1>1, SubSeqProperties DEF Prefix
<1> QED
  BY <1>1, <1>2, <1>3

\* A name that begins with another character than a dash is not trimmed away.
LEMMA TrimRightFacts ==
  ASSUME NEW s \in Seq(Chars), Len(s) >= 1, s[1] # Dash
  PROVE  /\ TrimRight(s) \in Seq(Chars) /\ Len(TrimRight(s)) \in 1 .. Len(s)
         /\ TrimRight(s)[1] # Dash
<1> DEFINE kept == {i \in DOMAIN s : s[i] # Dash}
<1>1. Len(s) \in Nat /\ DOMAIN s = 1 .. Len(s)
  BY LenProperties
<1>2. kept \in SUBSET Nat /\ kept # {} /\ 1 \in kept /\ \A i \in kept : i \in 1 .. Len(s)
  BY <1>1
<1>3. TrimRight(s) = Prefix(s, Max(kept))
  BY <1>2 DEF TrimRight
<1> HIDE DEF kept
<1>4. \E n \in kept : \A m \in kept : m <= n
  <2>1. \A n \in kept : n <= Len(s)
    BY <1>1, <1>2
  <2> QED
    BY <1>1, <1>2, <2>1, GreatestNatural
<1>5. Max(kept) \in kept /\ Max(kept) \in 1 .. Len(s)
  BY <1>2, <1>4 DEF Max
<1>6. Max(kept) \in 0 .. Len(s) /\ 1 \in 1 .. Max(kept)
  BY <1>1, <1>5
<1> QED
  BY <1>1, <1>3, <1>5, <1>6, PrefixFacts

\* Where the elements of three parts are in their whole.
Joined(w, s, t, u) ==
  /\ w = s \o (t \o u)
  /\ Len(w) = Len(s) + Len(t) + Len(u)
  /\ \A i \in 1 .. Len(s) : w[i] = s[i]
  /\ \A i \in 1 .. Len(t) : w[Len(s) + i] = t[i]
  /\ \A i \in 1 .. Len(u) : w[Len(s) + Len(t) + i] = u[i]

LEMMA ThreeParts ==
  ASSUME NEW S, NEW s \in Seq(S), NEW t \in Seq(S), NEW u \in Seq(S)
  PROVE  s \o t \o u \in Seq(S) /\ Joined(s \o t \o u, s, t, u)
<1>1. Len(s) \in Nat /\ Len(t) \in Nat /\ Len(u) \in Nat
  BY LenProperties
<1>2. PICK st \in Seq(S) : st = s \o t
  BY ConcatProperties
<1>3. /\ Len(st) = Len(s) + Len(t)
      /\ \A i \in 1 .. Len(s) + Len(t) : st[i] = IF i <= Len(s) THEN s[i] ELSE t[i - Len(s)]
  BY <1>2, ConcatProperties
<1>4. /\ st \o u \in Seq(S) /\ Len(st \o u) = Len(st) + Len(u)
      /\ \A i \in 1 .. Len(st) + Len(u) : (st \o u)[i] = IF i <= Len(st) THEN st[i] ELSE u[i - Len(st)]
  BY ConcatProperties
<1>5. ASSUME NEW i \in 1 .. Len(s) PROVE (st \o u)[i] = s[i]
  BY <1>1, <1>3, <1>4
<1>6. ASSUME NEW i \in 1 .. Len(t) PROVE (st \o u)[Len(s) + i] = t[i]
  BY <1>1, <1>3, <1>4
<1>7. ASSUME NEW i \in 1 .. Len(u) PROVE (st \o u)[Len(s) + Len(t) + i] = u[i]
  BY <1>1, <1>3, <1>4
<1> QED
  BY <1>1, <1>2, <1>3, <1>4, <1>5, <1>6, <1>7, ConcatAssociative DEF Joined

\* Where the elements are after one was appended.
Appended(x, s, e) ==
  /\ x = Append(s, e) /\ x = s \o <<e>> /\ x # <<>>
  /\ Len(x) = Len(s) + 1 /\ x[Len(s) + 1] = e /\ \A i \in 1 .. Len(s) : x[i] = s[i]

LEMMA AppendFacts ==
  ASSUME NEW S, NEW s \in Seq(S), NEW e \in S
  PROVE  Append(s, e) \in Seq(S) /\ Appended(Append(s, e), s, e)
<1>1. Append(s, e) = s \o <<e>>
  BY AppendIsConcat
<1>2. /\ Append(s, e) \in Seq(S) /\ Append(s, e) # <<>> /\ Len(Append(s, e)) = Len(s) + 1
      /\ Append(s, e)[Len(s) + 1] = e /\ \A i \in 1 .. Len(s) : Append(s, e)[i] = s[i]
  BY AppendProperties
<1> QED
  BY <1>1, <1>2, Zenon DEF Appended

\* A dash between two parts.
LEMMA DashBetween ==
  ASSUME NEW s \in Seq(Chars), NEW u \in Seq(Chars)
  PROVE  /\ s \o <<Dash>> \o u \in Seq(Chars)
         /\ s \o <<Dash>> \o u = s \o (<<Dash>> \o u)
         /\ Len(s \o <<Dash>> \o u) \in Nat /\ Len(s \o <<Dash>> \o u) = Len(s) + 1 + Len(u)
         /\ \A i \in 1 .. Len(s) : (s \o <<Dash>> \o u)[i] = s[i]
         /\ \A i \in 1 .. Len(u) : (s \o <<Dash>> \o u)[Len(s) + 1 + i] = u[i]
<1>1. <<Dash>> \in Seq(Chars) /\ Len(<<Dash>>) = 1
  <2>1. Dash \in Chars
    BY CharFacts
  <2> QED
    BY <2>1
<1>2. s \o <<Dash>> \o u \in Seq(Chars) /\ Joined(s \o <<Dash>> \o u, s, <<Dash>>, u)
  BY <1>1, ThreeParts, Zenon
<1>3. Len(s \o <<Dash>> \o u) \in Nat
  BY <1>2, LenProperties
<1> QED
  BY <1>1, <1>2, <1>3, Zenon DEF Joined

LEMMA ShortenFacts ==
  ASSUME NEW s, Name(s)
  PROVE  /\ Shorten(s) \in Seq(Chars) /\ Len(Shorten(s)) \in Nat
         /\ Len(Shorten(s)) >= 1 /\ Len(Shorten(s)) <= PerPart /\ Shorten(s)[1] # Dash
<1>1. s \in Seq(Chars) /\ Len(s) \in Nat /\ Len(s) >= 1 /\ s[1] # Dash /\ PerPart \in Nat /\ PerPart >= 1
  BY NameFacts, Limits
<1>2. CASE Len(s) > PerPart
  <2>1. PerPart \in 0 .. Len(s) /\ 1 \in 1 .. PerPart
    BY <1>1, <1>2
  <2>2. PICK t \in Seq(Chars) : t = Prefix(s, PerPart) /\ Len(t) = PerPart /\ \A i \in 1 .. PerPart : t[i] = s[i]
    BY <1>1, <2>1, PrefixFacts
  <2>3. t[1] = s[1]
    BY <2>1, <2>2, Zenon
  <2>4. Len(t) >= 1 /\ t[1] # Dash
    BY <1>1, <2>2, <2>3
  <2>5. TrimRight(t) \in Seq(Chars) /\ Len(TrimRight(t)) \in 1 .. Len(t) /\ TrimRight(t)[1] # Dash
    BY <2>4, TrimRightFacts, Zenon
  <2>6. Shorten(s) = TrimRight(t)
    BY <1>1, <1>2, <2>2 DEF Shorten
  <2>7. Len(TrimRight(t)) \in Nat /\ Len(TrimRight(t)) >= 1 /\ Len(TrimRight(t)) <= PerPart
    BY <1>1, <2>2, <2>5
  <2> QED
    BY <2>5, <2>6, <2>7, Zenon
<1>3. CASE ~(Len(s) > PerPart)
  <2>1. Shorten(s) = s
    BY <1>1, <1>3 DEF Shorten
  <2>2. Len(s) <= PerPart
    BY <1>1, <1>3
  <2> QED
    BY <1>1, <2>1, <2>2, Zenon
<1> QED
  BY <1>2, <1>3

FullName(plan_, hook_) == plan_ \o Sep \o hook_

\* What is hashed where a name is too long: its parts and the separator.
LEMMA FullNameFacts ==
  ASSUME NEW p, Name(p), NEW h, Name(h)
  PROVE  FullName(p, h) \in Seq(Plain) /\ Joined(FullName(p, h), p, Sep, h)
<1>1. p \in Seq(Plain) /\ h \in Seq(Plain) /\ Sep \in Seq(Plain)
  BY NameFacts, Limits
<1> QED
  BY <1>1, ThreeParts, Zenon DEF FullName

\* The name of a Job is a label, and its last character tells whether the name is whole.
LEMMA JobNameFacts ==
  ASSUME NEW p, Name(p), NEW h, Name(h)
  PROVE  /\ Label(JobName(p, h))
         /\ Len(FullName(p, h)) <= MaxLen =>
                JobName(p, h) = FullName(p, h) /\ Last(JobName(p, h)).of = <<>>
         /\ Len(FullName(p, h)) > MaxLen => Last(JobName(p, h)).of = FullName(p, h)
<1>1. /\ Len(p) \in Nat /\ Len(h) \in Nat /\ Len(p) >= 1 /\ Len(h) >= 1
      /\ p[1] # Dash /\ h[Len(h)] # Dash
  BY NameFacts
<1>2. h[Len(h)].of = <<>> /\ 1 \in 1 .. Len(p) /\ Len(h) \in 1 .. Len(h)
  BY <1>1, NameFacts, PlainSeq
<1>3. PICK full \in Seq(Plain) : full = FullName(p, h) /\ Joined(full, p, Sep, h)
  BY FullNameFacts
<1>4. full[1] = p[1] /\ full[Len(full)] = h[Len(h)] /\ Len(full) = Len(p) + Len(Sep) + Len(h)
  BY <1>2, <1>3, Zenon DEF Joined
<1>5. full \in Seq(Chars)
  BY PlainSeq
<1>6. CASE Len(full) <= MaxLen
  <2>1. JobName(p, h) = full
    BY <1>3, <1>6 DEF JobName, FullName
  <2>2. Len(full) \in 1 .. MaxLen /\ ~(Len(full) > MaxLen)
    BY <1>1, <1>4, <1>6, Limits
  <2>3. full[1] # Dash /\ full[Len(full)] # Dash /\ full[Len(full)].of = <<>>
    BY <1>1, <1>2, <1>4, Zenon
  <2> QED
    BY <1>3, <1>5, <2>1, <2>2, <2>3, Zenon DEF Label, Last
<1>7. CASE ~(Len(full) <= MaxLen)
  <2>1. PICK a \in Seq(Chars) :
          a = Shorten(p) /\ Len(a) \in Nat /\ Len(a) >= 1 /\ Len(a) <= PerPart /\ a[1] # Dash
    BY ShortenFacts, Zenon
  <2>2. PICK b \in Seq(Chars) : b = Shorten(h) /\ Len(b) \in Nat /\ Len(b) <= PerPart
    BY ShortenFacts, Zenon
  <2>3. PICK cut \in Seq(Chars) : cut = a \o Sep \o b /\ Joined(cut, a, Sep, b)
    <3>1. Sep \in Seq(Chars)
      BY Limits
    <3> QED
      BY <3>1, ThreeParts, Zenon
  <2>4. Len(cut) \in Nat /\ Len(cut) >= 1 /\ Len(cut) + 9 <= MaxLen /\ 1 \in 1 .. Len(a)
    BY <2>1, <2>2, <2>3, Limits DEF Joined
  <2>5. cut[1] # Dash
    BY <2>1, <2>3, <2>4, Zenon DEF Joined
  <2>6. PICK digits \in Seq(Chars) :
          /\ digits = Hash(full, 8) /\ Len(digits) \in Nat /\ Len(digits) >= 8 /\ Len(digits) <= 8
          /\ \A i \in 1 .. Len(digits) : digits[i] # Dash /\ digits[i].of = full
    <3>1. 8 \in 1 .. 8
      OBVIOUS
    <3> QED
      BY <3>1, HashFacts, Zenon
  <2>7. PICK name \in Seq(Chars) :
          /\ name = cut \o <<Dash>> \o digits
          /\ Len(name) \in Nat /\ Len(name) = Len(cut) + 1 + Len(digits)
          /\ \A i \in 1 .. Len(cut) : name[i] = cut[i]
          /\ \A i \in 1 .. Len(digits) : name[Len(cut) + 1 + i] = digits[i]
    BY DashBetween, Zenon
  <2>8. JobName(p, h) = name
    BY <1>3, <1>7, <2>1, <2>2, <2>3, <2>6, <2>7 DEF JobName, FullName
  <2>9. Len(name) \in 1 .. MaxLen /\ 1 \in 1 .. Len(cut) /\ Len(digits) \in 1 .. Len(digits)
    BY <2>4, <2>6, <2>7, Limits
  <2>10. name[1] = cut[1] /\ name[Len(name)] = digits[Len(digits)]
    BY <2>7, <2>9, Zenon
  <2>11. name[1] # Dash /\ name[Len(name)] # Dash /\ name[Len(name)].of = full
    BY <2>5, <2>6, <2>9, <2>10, Zenon
  <2> QED
    BY <1>3, <1>7, <2>8, <2>9, <2>11, Zenon DEF Label, Last
<1> QED
  BY <1>6, <1>7

\* The name of a node's Job is a label, and its last character tells the node; the name
\* of the hook is cut only where it leaves no room for the node.
LEMMA NodeJobNameFacts ==
  ASSUME NEW base, Label(base), NEW n, Name(n)
  PROVE  /\ Label(NodeJobName(base, n)) /\ Last(NodeJobName(base, n)).of = n
         /\ Len(base) + 7 <= MaxLen => NodeJobName(base, n) = base \o (<<Dash>> \o Hash(n, 6))
<1>1. /\ base \in Seq(Chars) /\ Len(base) \in Nat /\ Len(base) >= 1 /\ Len(base) <= MaxLen
      /\ base[1] # Dash /\ MaxLen \in Nat /\ MaxLen >= 8
  BY LenProperties, Limits DEF Label
<1>2. PICK digits \in Seq(Chars) :
        /\ digits = Hash(n, 6) /\ Len(digits) \in Nat /\ Len(digits) >= 6 /\ Len(digits) <= 6
        /\ \A i \in 1 .. Len(digits) : digits[i] # Dash /\ digits[i].of = n
  <2>1. 6 \in 1 .. 8 /\ n \in Seq(Plain)
    BY NameFacts
  <2> QED
    BY <2>1, HashFacts, Zenon
<1>3. ASSUME NEW b \in Seq(Chars), Len(b) \in Nat, Len(b) >= 1, Len(b) + 7 <= MaxLen, b[1] # Dash
      PROVE  Label(b \o (<<Dash>> \o digits)) /\ Last(b \o (<<Dash>> \o digits)).of = n
  <2>1. PICK name \in Seq(Chars) :
          /\ name = b \o (<<Dash>> \o digits)
          /\ Len(name) \in Nat /\ Len(name) = Len(b) + 1 + Len(digits)
          /\ \A i \in 1 .. Len(b) : name[i] = b[i]
          /\ \A i \in 1 .. Len(digits) : name[Len(b) + 1 + i] = digits[i]
    BY DashBetween, Zenon
  <2>2. Len(name) \in 1 .. MaxLen /\ 1 \in 1 .. Len(b) /\ Len(digits) \in 1 .. Len(digits)
    BY <1>1, <1>2, <1>3, <2>1
  <2>3. name[1] = b[1] /\ name[Len(name)] = digits[Len(digits)]
    BY <2>1, <2>2, Zenon
  <2>4. name[1] # Dash /\ name[Len(name)] # Dash /\ name[Len(name)].of = n
    BY <1>2, <1>3, <2>2, <2>3, Zenon
  <2> QED
    BY <2>1, <2>2, <2>4, Zenon DEF Label, Last
<1>4. PICK whole \in Seq(Chars) :
        whole = base \o (<<Dash>> \o digits) /\ Len(whole) = Len(base) + 1 + Len(digits)
  BY <1>1, DashBetween, Zenon
<1>5. CASE Len(whole) <= MaxLen
  <2>1. NodeJobName(base, n) = base \o (<<Dash>> \o digits)
    BY <1>2, <1>4, <1>5 DEF NodeJobName
  <2>2. Len(base) + 7 <= MaxLen
    BY <1>1, <1>2, <1>4, <1>5
  <2> QED
    BY <1>1, <1>2, <1>3, <2>1, <2>2, Zenon
<1>6. CASE ~(Len(whole) <= MaxLen)
  <2> DEFINE room == MaxLen - 7
  <2>1. room \in Nat /\ room >= 1 /\ room \in 0 .. Len(base) /\ 1 \in 1 .. room /\ room + 7 <= MaxLen
    BY <1>1, <1>2, <1>4, <1>6
  <2>2. NodeJobName(base, n) = TrimRight(Prefix(base, room)) \o (<<Dash>> \o digits)
    BY <1>2, <1>4, <1>6 DEF NodeJobName
  <2>3. ~(Len(base) + 7 <= MaxLen)
    BY <1>1, <1>2, <1>4, <1>6
  <2> HIDE DEF room
  <2>4. PICK cut \in Seq(Chars) : cut = Prefix(base, room) /\ Len(cut) = room /\ \A i \in 1 .. room : cut[i] = base[i]
    BY <1>1, <2>1, PrefixFacts, Zenon
  <2>5. cut[1] = base[1]
    BY <2>1, <2>4, Zenon
  <2>6. Len(cut) >= 1 /\ cut[1] # Dash
    BY <1>1, <2>1, <2>4, <2>5
  <2>7. PICK b \in Seq(Chars) : b = TrimRight(cut) /\ Len(b) \in 1 .. Len(cut) /\ b[1] # Dash
    BY <2>6, TrimRightFacts, Zenon
  <2>8. Len(b) \in Nat /\ Len(b) >= 1 /\ Len(b) + 7 <= MaxLen
    BY <1>1, <2>1, <2>4, <2>7
  <2> QED
    BY <1>3, <2>2, <2>3, <2>4, <2>7, <2>8, Zenon
<1> QED
  BY <1>5, <1>6

-----------------------------------------------------------------------------
(* The separator tells the names of plan and hook apart.                      *)

LEMMA Within ==
  ASSUME NEW S, NEW t \in Seq(S), NEW a \in Nat, NEW l \in Nat, \A i \in 1 .. l : a + i \in 1 .. Len(t)
  PROVE  /\ SubSeq(t, a + 1, a + l) \in Seq(S) /\ Len(SubSeq(t, a + 1, a + l)) = l
         /\ \A i \in 1 .. l : SubSeq(t, a + 1, a + l)[i] = t[a + i]
<1>1. PICK m \in Int, n \in Int : m = a + 1 /\ n = a + l
  OBVIOUS
<1>2. ASSUME NEW i \in m .. n PROVE t[i] \in S
  <2>1. i - a \in 1 .. l /\ a + (i - a) = i
    BY <1>1
  <2>2. i \in 1 .. Len(t)
    BY <2>1
  <2> QED
    BY <2>2, ElementOfSeq
<1>3. SubSeq(t, m, n) \in Seq(S) /\ Len(SubSeq(t, m, n)) = IF m <= n THEN n - m + 1 ELSE 0
  BY <1>2, SubSeqProperties
<1>4. \A i \in 1 .. n - m + 1 : SubSeq(t, m, n)[i] = t[m + i - 1]
  BY <1>2, SubSeqProperties
<1> QED
  BY <1>1, <1>3, <1>4

\* Of two ways to read one name neither ends its first part before the other.
LEMMA NotShorter ==
  ASSUME NEW p, Name(p), NEW h, Name(h), NEW q, Name(q), NEW k, Name(k),
         FullName(p, h) = FullName(q, k), Separated(q)
  PROVE  ~(Len(p) < Len(q))
<1>1. PICK a \in Nat, b \in Nat : a = Len(p) /\ b = Len(q)
  BY NameFacts
<1>2. PICK l \in Nat : l = Len(Sep) /\ l >= 4 /\ l <= 4
  BY Limits
<1>3. PICK full \in Seq(Plain) : Joined(full, p, Sep, h) /\ Joined(full, q, Sep, k)
  BY FullNameFacts, Zenon
<1>4. \A j \in 1 .. l : full[a + j] = Sep[j] /\ full[b + j] = Sep[j]
  BY <1>1, <1>2, <1>3, Zenon DEF Joined
<1>5. 1 \in 1 .. l /\ 2 \in 1 .. l /\ 3 \in 1 .. l /\ 4 \in 1 .. l
  BY <1>2
<1>6. full[b + 1] = Dash /\ full[a + 2] # Dash /\ full[a + 3] # Dash
  BY <1>4, <1>5, Limits, Zenon
<1>7. PICK t \in Seq(Plain) :
        /\ t = q \o <<Dash>> /\ Len(t) = b + 1 /\ t[b + 1] = Dash
        /\ \A i \in 1 .. b : t[i] = q[i]
  <2>1. Dash \in Plain /\ q \in Seq(Plain)
    BY CharFacts, NameFacts
  <2>2. PICK t \in Seq(Plain) : Appended(t, q, Dash)
    BY <2>1, AppendFacts, Zenon
  <2> QED
    BY <1>1, <2>2, Zenon DEF Appended
<1>8. \A i \in 1 .. b : t[i] = full[i]
  BY <1>1, <1>3, <1>7, Zenon DEF Joined
<1> SUFFICES ASSUME a < b PROVE FALSE
  BY <1>1
<1>9. a + 2 <= b
  BY <1>6
<1>10. a + 3 <= b
  BY <1>6, <1>9
<1>11. ASSUME NEW j \in 1 .. l PROVE t[a + j] = Sep[j] /\ a + j \in 1 .. Len(t)
  <2>1. CASE a + j <= b
    <3>1. a + j \in 1 .. b
      BY <2>1
    <3>2. t[a + j] = full[a + j]
      BY <1>8, <3>1, Zenon
    <3>3. full[a + j] = Sep[j]
      BY <1>4
    <3> QED
      BY <1>7, <3>1, <3>2, <3>3
  <2>2. CASE ~(a + j <= b)
    <3>1. j = 4 /\ a + j = b + 1
      BY <1>2, <1>10, <2>2
    <3>2. t[a + j] = Dash /\ Sep[j] = Dash
      BY <1>7, <3>1, Limits
    <3> QED
      BY <1>7, <3>1, <3>2
  <2> QED
    BY <2>1, <2>2
<1>12. SubSeq(t, a + 1, a + l) = Sep
  <2>1. \A i \in 1 .. l : a + i \in 1 .. Len(t)
    BY <1>11
  <2>2. PICK u \in Seq(Plain) : u = SubSeq(t, a + 1, a + l) /\ Len(u) = l /\ \A i \in 1 .. l : u[i] = t[a + i]
    <3>1. /\ SubSeq(t, a + 1, a + l) \in Seq(Plain) /\ Len(SubSeq(t, a + 1, a + l)) = l
          /\ \A i \in 1 .. l : SubSeq(t, a + 1, a + l)[i] = t[a + i]
      BY <2>1, Within
    <3> QED
      BY <3>1, Zenon
  <2>3. \A i \in 1 .. l : u[i] = Sep[i]
    BY <1>11, <2>2
  <2>4. Sep \in Seq(Plain)
    BY Limits
  <2> QED
    BY <1>2, <2>2, <2>3, <2>4, SeqEqual
<1>13. a \in 0 .. Len(t) - Len(Sep)
  BY <1>2, <1>7, <1>10
<1> QED
  BY <1>2, <1>7, <1>12, <1>13 DEF Separated

LEMMA FullNamesApart ==
  ASSUME NEW p, Name(p), NEW h, Name(h), NEW q, Name(q), NEW k, Name(k),
         FullName(p, h) = FullName(q, k), Separated(p), Separated(q)
  PROVE  p = q /\ h = k
<1>1. /\ p \in Seq(Plain) /\ h \in Seq(Plain) /\ q \in Seq(Plain) /\ k \in Seq(Plain)
      /\ Len(p) \in Nat /\ Len(h) \in Nat /\ Len(q) \in Nat /\ Len(k) \in Nat /\ Len(Sep) \in Nat
  BY NameFacts, Limits
<1>2. Len(p) = Len(q)
  BY <1>1, NotShorter
<1>3. PICK full \in Seq(Plain) : Joined(full, p, Sep, h) /\ Joined(full, q, Sep, k)
  BY FullNameFacts, Zenon
<1>4. \A i \in 1 .. Len(p) : p[i] = q[i]
  BY <1>2, <1>3, Zenon DEF Joined
<1>5. Len(h) = Len(k)
  BY <1>1, <1>2, <1>3 DEF Joined
<1>6. \A i \in 1 .. Len(h) : h[i] = k[i]
  BY <1>2, <1>3, <1>5, Zenon DEF Joined
<1> QED
  BY <1>1, <1>2, <1>4, <1>5, <1>6, SeqEqual

LEMMA JobNamesApart ==
  ASSUME NEW p, Name(p), NEW h, Name(h), NEW q, Name(q), NEW k, Name(k),
         JobName(p, h) = JobName(q, k), Separated(p), Separated(q)
  PROVE  p = q /\ h = k
<1>1. /\ FullName(p, h) \in Seq(Plain) /\ FullName(q, k) \in Seq(Plain)
      /\ Len(FullName(p, h)) \in Nat /\ Len(FullName(q, k)) \in Nat /\ MaxLen \in Nat
  BY FullNameFacts, PlainSeq, Limits
<1>2. /\ Len(FullName(p, h)) > MaxLen => FullName(p, h) # <<>>
      /\ Len(FullName(q, k)) > MaxLen => FullName(q, k) # <<>>
  BY <1>1, EmptySeq
<1>3. FullName(p, h) = FullName(q, k)
  <2>1. Len(FullName(p, h)) <= MaxLen \/ Len(FullName(p, h)) > MaxLen
    BY <1>1
  <2>2. Len(FullName(q, k)) <= MaxLen \/ Len(FullName(q, k)) > MaxLen
    BY <1>1
  <2>3. /\ Len(FullName(p, h)) <= MaxLen => JobName(p, h) = FullName(p, h) /\ Last(JobName(p, h)).of = <<>>
        /\ Len(FullName(p, h)) > MaxLen => Last(JobName(p, h)).of = FullName(p, h)
    BY JobNameFacts, Zenon
  <2>4. /\ Len(FullName(q, k)) <= MaxLen => JobName(q, k) = FullName(q, k) /\ Last(JobName(q, k)).of = <<>>
        /\ Len(FullName(q, k)) > MaxLen => Last(JobName(q, k)).of = FullName(q, k)
    BY JobNameFacts, Zenon
  <2> QED
    BY <1>2, <2>1, <2>2, <2>3, <2>4, Zenon
<1> QED
  BY <1>3, FullNamesApart, Zenon

LEMMA NodeJobNamesApart ==
  ASSUME NEW b, Label(b), NEW c, Label(c), NEW m, Name(m), NEW n, Name(n),
         NodeJobName(b, m) = NodeJobName(c, n)
  PROVE  m = n /\ (Len(b) + 7 <= MaxLen /\ Len(c) + 7 <= MaxLen => b = c)
<1>1. m = n
  <2>1. Last(NodeJobName(b, m)).of = m
    BY NodeJobNameFacts, Zenon
  <2>2. Last(NodeJobName(c, n)).of = n
    BY NodeJobNameFacts, Zenon
  <2> QED
    BY <2>1, <2>2
<1>2. ASSUME Len(b) + 7 <= MaxLen, Len(c) + 7 <= MaxLen PROVE b = c
  <2>1. PICK tail \in Seq(Chars) : tail = <<Dash>> \o Hash(n, 6)
    <3>1. <<Dash>> \in Seq(Chars) /\ n \in Seq(Plain) /\ 6 \in 1 .. 8
      BY CharFacts, NameFacts
    <3>2. Hash(n, 6) \in Seq(Chars)
      BY <3>1, HashFacts, Zenon
    <3> QED
      BY <3>1, <3>2, ConcatProperties
  <2>2. b \o tail = c \o tail
    BY <1>1, <1>2, <2>1, NodeJobNameFacts, Zenon
  <2>3. b \in Seq(Chars) /\ c \in Seq(Chars)
    BY DEF Label
  <2> QED
    BY <2>2, <2>3, ConcatSimplifications
<1> QED
  BY <1>1, <1>2

-----------------------------------------------------------------------------
(* FlattenSeq, by induction over the number of its parts.                     *)

\* f[i] is the first i parts in one.
Fills(f, s, n) == f = [i \in 1 .. n |-> IF i = 1 THEN s[i] ELSE f[i - 1] \o s[i]]

FilledAt(f, s, i, j) == (i = 1 => f[i] = s[i]) /\ (i # 1 => f[i] = f[j] \o s[i])
Agree(f, g, l)       == \A i \in 1 .. l : f[i] = g[i]

LEMMA FillsAt ==
  ASSUME NEW f, NEW s, NEW n \in Nat, Fills(f, s, n), NEW j \in Nat, j + 1 \in 1 .. n
  PROVE  FilledAt(f, s, j + 1, j)
<1>1. PICK i \in 1 .. n : i = j + 1 /\ i - 1 = j
  OBVIOUS
<1>2. (i = 1 => f[i] = s[i]) /\ (i # 1 => f[i] = f[i - 1] \o s[i])
  BY DEF Fills
<1> QED
  BY <1>1, <1>2 DEF FilledAt

LEMMA FillsExists ==
  ASSUME NEW s, NEW n \in Nat
  PROVE  \E f : Fills(f, s, n)
<1> DEFINE T == {k \in Nat : \E f : Fills(f, s, k)}
<1>1. 0 \in T
  <2>1. Fills([i \in 1 .. 0 |-> s], s, 0)
    BY DEF Fills
  <2> QED
    BY <2>1
<1>2. ASSUME NEW k \in Nat, k \in T PROVE k + 1 \in T
  <2>1. PICK f : Fills(f, s, k)
    BY <1>2
  <2> DEFINE g == [i \in 1 .. k + 1 |->
                     IF i = 1 THEN s[i] ELSE IF i = k + 1 THEN f[k] \o s[i] ELSE f[i]]
             h == [i \in 1 .. k + 1 |-> IF i = 1 THEN s[i] ELSE g[i - 1] \o s[i]]
  <2>2. ASSUME NEW i \in 1 .. k PROVE g[i] = f[i]
    <3>1. i \in 1 .. k + 1 /\ i # k + 1
      OBVIOUS
    <3>2. i = 1 => f[i] = s[i]
      BY <2>1 DEF Fills
    <3> QED
      BY <3>1, <3>2
  <2>3. ASSUME NEW i \in 1 .. k + 1 PROVE g[i] = h[i]
    <3>1. CASE i = 1
      BY <3>1
    <3>2. CASE i # 1 /\ i = k + 1
      <4>1. k \in 1 .. k /\ i - 1 = k
        BY <3>2
      <4>2. g[k] = f[k]
        BY <2>2, <4>1
      <4>3. g[i] = f[k] \o s[i] /\ h[i] = g[i - 1] \o s[i]
        BY <3>2
      <4> QED
        BY <4>1, <4>2, <4>3
    <3>3. CASE i # 1 /\ i # k + 1
      <4>1. i \in 1 .. k /\ i - 1 \in 1 .. k
        BY <3>3
      <4>2. g[i] = f[i] /\ g[i - 1] = f[i - 1]
        BY <2>2, <4>1
      <4>3. f[i] = f[i - 1] \o s[i]
        BY <2>1, <3>3, <4>1 DEF Fills
      <4>4. h[i] = g[i - 1] \o s[i]
        BY <3>3
      <4> QED
        BY <4>2, <4>3, <4>4
    <3> QED
      BY <3>1, <3>2, <3>3
  <2>4. g = h
    <3> HIDE DEF g
    <3>1. g = [i \in 1 .. k + 1 |-> g[i]]
      BY DEF g
    <3> QED
      BY <2>3, <3>1
  <2>5. Fills(g, s, k + 1)
    <3> HIDE DEF g
    <3> QED
      BY <2>4 DEF Fills
  <2> QED
    BY <2>5
<1> HIDE DEF T
<1>3. \A k \in Nat : k \in T
  BY <1>1, <1>2, InductiveSet
<1> QED
  BY <1>3 DEF T

\* The first parts in one do not depend on those that follow.
LEMMA FillsAgree ==
  ASSUME NEW s, NEW f, NEW m \in Nat, Fills(f, s, m), NEW t, NEW g, NEW n \in Nat, Fills(g, t, n),
         NEW l \in Nat, l <= m, l <= n, Agree(s, t, l)
  PROVE  Agree(f, g, l)
<1> DEFINE T == {k \in Nat : k \in 1 .. l => f[k] = g[k]}
<1>1. 0 \in T
  OBVIOUS
<1>2. ASSUME NEW k \in Nat, k \in T PROVE k + 1 \in T
  <2>1. ASSUME k + 1 \in 1 .. l PROVE f[k + 1] = g[k + 1]
    <3>1. k + 1 \in 1 .. m /\ k + 1 \in 1 .. n /\ s[k + 1] = t[k + 1]
      BY <2>1 DEF Agree
    <3>2. FilledAt(f, s, k + 1, k) /\ FilledAt(g, t, k + 1, k)
      BY <3>1, FillsAt, Zenon
    <3>3. k + 1 # 1 => f[k] = g[k]
      BY <1>2, <2>1
    <3> QED
      BY <3>1, <3>2, <3>3 DEF FilledAt
  <2> QED
    BY <2>1
<1> HIDE DEF T
<1>3. \A k \in Nat : k \in T
  BY <1>1, <1>2, InductiveSet
<1> QED
  BY <1>3 DEF T, Agree

LEMMA FlattenIs ==
  ASSUME NEW s, Len(s) \in Nat, Len(s) # 0
  PROVE  \E f : Fills(f, s, Len(s)) /\ FlattenSeq(s) = f[Len(s)]
<1>1. \E f : Fills(f, s, Len(s))
  BY FillsExists
<1> QED
  BY <1>1 DEF FlattenSeq, Fills

LEMMA FlattenAppend ==
  ASSUME NEW S, NEW s \in Seq(Seq(S)), NEW w \in Seq(S)
  PROVE  FlattenSeq(<<>>) = <<>> /\ FlattenSeq(Append(s, w)) = FlattenSeq(s) \o w
<1>1. FlattenSeq(<<>>) = <<>>
  BY EmptySeq DEF FlattenSeq
<1>2. PICK n \in Nat : n = Len(s)
  BY LenProperties
<1>3. PICK t \in Seq(Seq(S)) :
        t = Append(s, w) /\ Len(t) = n + 1 /\ t[n + 1] = w /\ \A i \in 1 .. n : t[i] = s[i]
  <2>1. PICK t \in Seq(Seq(S)) : Appended(t, s, w)
    BY AppendFacts, Zenon
  <2> QED
    BY <1>2, <2>1, Zenon DEF Appended
<1>4. PICK g : Fills(g, t, n + 1) /\ FlattenSeq(t) = g[n + 1]
  <2>1. n + 1 \in Nat /\ n + 1 # 0
    OBVIOUS
  <2>2. Len(t) \in Nat /\ Len(t) # 0
    BY <1>3, <2>1, Zenon
  <2> QED
    BY <1>3, <2>2, FlattenIs, Zenon
<1>5. FilledAt(g, t, n + 1, n)
  <2>1. n + 1 \in Nat /\ n + 1 \in 1 .. n + 1
    OBVIOUS
  <2> QED
    BY <1>4, <2>1, FillsAt, Zenon
<1>6. CASE n = 0
  <2>1. s = <<>>
    BY <1>2, <1>6, EmptySeq
  <2>2. FlattenSeq(t) = w
    BY <1>3, <1>4, <1>5, <1>6 DEF FilledAt
  <2>3. <<>> \o w = w
    BY ConcatEmptySeq
  <2> QED
    BY <1>1, <1>3, <2>1, <2>2, <2>3
<1>7. CASE n # 0
  <2>1. PICK f : Fills(f, s, n) /\ FlattenSeq(s) = f[n]
    BY <1>2, <1>7, FlattenIs, Zenon
  <2>2. n + 1 \in Nat /\ n <= n /\ n <= n + 1 /\ n \in 1 .. n /\ n + 1 # 1
    BY <1>7
  <2>3. \A i \in 1 .. n : s[i] = t[i]
    BY <1>3
  <2>4. f[n] = g[n]
    <3>1. Agree(s, t, n)
      BY <2>3 DEF Agree
    <3>2. Agree(f, g, n)
      BY <1>4, <2>1, <2>2, <3>1, FillsAgree, Zenon
    <3> QED
      BY <2>2, <3>2, Zenon DEF Agree
  <2> QED
    <3>1. g[n + 1] = g[n] \o t[n + 1]
      BY <1>5, <2>2 DEF FilledAt
    <3>2. FlattenSeq(t) = f[n] \o w
      BY <1>3, <1>4, <2>4, <3>1, Zenon
    <3> QED
      BY <1>1, <1>3, <2>1, <3>2, Zenon
<1> QED
  BY <1>6, <1>7

-----------------------------------------------------------------------------
(* What hookChecksum hashes tells the words apart.                            *)

Words == Seq(Plain \ {Zero})

LEMMA WordFacts ==
  ASSUME NEW w \in Words
  PROVE  w \in Seq(Plain) /\ w \o <<Zero>> \in Seq(Plain) /\ <<Zero>> \in Seq(Plain)
         /\ Len(w) \in Nat /\ \A i \in 1 .. Len(w) : w[i] # Zero
<1>1. w \in Seq(Plain \ {Zero}) /\ Zero \in Plain
  BY CharFacts DEF Words
<1>2. w \in Seq(Plain)
  BY <1>1, SeqMonotonic
<1>3. \A i \in 1 .. Len(w) : w[i] \in Plain \ {Zero}
  BY <1>1, ElementOfSeq
<1>4. <<Zero>> \in Seq(Plain)
  BY <1>1
<1>5. w \o <<Zero>> \in Seq(Plain)
  BY <1>2, <1>4, ConcatProperties
<1> QED
  BY <1>2, <1>3, <1>4, <1>5, LenProperties

LEMMA StreamAppend ==
  ASSUME NEW ws \in Seq(Words), NEW w \in Words
  PROVE  Stream(<<>>) = <<>> /\ Stream(Append(ws, w)) = Stream(ws) \o (w \o <<Zero>>)
<1> DEFINE Zeroed(vs) == [i \in DOMAIN vs |-> vs[i] \o <<Zero>>]
<1>1. \A vs : Stream(vs) = FlattenSeq(Zeroed(vs))
  BY DEF Stream
<1>2. ASSUME NEW vs \in Seq(Words) PROVE Zeroed(vs) \in Seq(Seq(Plain)) /\ Len(Zeroed(vs)) = Len(vs)
  <2>1. Len(vs) \in Nat /\ DOMAIN vs = 1 .. Len(vs)
    BY LenProperties
  <2>2. ASSUME NEW i \in 1 .. Len(vs) PROVE vs[i] \o <<Zero>> \in Seq(Plain)
    BY ElementOfSeq, WordFacts
  <2>3. Zeroed(vs) \in [1 .. Len(vs) -> Seq(Plain)]
    BY <2>1, <2>2
  <2> QED
    BY <2>1, <2>3, SeqDef
<1>3. <<>> \in Seq(Words) /\ Len(<<>>) = 0
  BY EmptySeq
<1>4. Zeroed(<<>>) = <<>>
  <2>1. Zeroed(<<>>) \in Seq(Seq(Plain)) /\ Len(Zeroed(<<>>)) = 0
    BY <1>2, <1>3
  <2> HIDE DEF Zeroed
  <2> QED
    BY <2>1, EmptySeq
<1>5. PICK vs \in Seq(Words) :
        vs = Append(ws, w) /\ Len(vs) = Len(ws) + 1 /\ vs[Len(ws) + 1] = w /\ \A i \in 1 .. Len(ws) : vs[i] = ws[i]
  <2>1. PICK vs \in Seq(Words) : Appended(vs, ws, w)
    BY AppendFacts, Zenon
  <2> QED
    BY <2>1, Zenon DEF Appended
<1>6. PICK e \in Seq(Plain) : e = w \o <<Zero>>
  BY WordFacts
<1>7. Zeroed(vs) = Append(Zeroed(ws), e)
  <2>1. /\ Zeroed(vs) \in Seq(Seq(Plain)) /\ Len(Zeroed(vs)) = Len(ws) + 1
        /\ Zeroed(ws) \in Seq(Seq(Plain)) /\ Len(Zeroed(ws)) = Len(ws) /\ Len(ws) \in Nat
    BY <1>2, <1>5, LenProperties
  <2>2. DOMAIN ws = 1 .. Len(ws) /\ DOMAIN vs = 1 .. Len(ws) + 1
    BY <1>5, LenProperties
  <2>3. PICK u \in Seq(Seq(Plain)) : u = Zeroed(ws) /\ \A i \in 1 .. Len(ws) : u[i] = ws[i] \o <<Zero>>
    BY <2>1, <2>2
  <2>4. PICK x \in Seq(Seq(Plain)) :
          /\ x = Append(u, e) /\ Len(x) = Len(ws) + 1 /\ x[Len(ws) + 1] = e
          /\ \A i \in 1 .. Len(ws) : x[i] = u[i]
    <3>1. Len(u) = Len(ws)
      BY <2>1, <2>3, Zenon
    <3>2. PICK x \in Seq(Seq(Plain)) : Appended(x, u, e)
      BY AppendFacts, Zenon
    <3> QED
      BY <3>1, <3>2, Zenon DEF Appended
  <2>5. PICK y \in Seq(Seq(Plain)) :
          y = Zeroed(vs) /\ Len(y) = Len(ws) + 1 /\ \A i \in 1 .. Len(ws) + 1 : y[i] = vs[i] \o <<Zero>>
    BY <2>1, <2>2
  <2>6. ASSUME NEW i \in 1 .. Len(ws) + 1 PROVE y[i] = x[i]
    <3>1. CASE i \in 1 .. Len(ws)
      BY <1>5, <2>3, <2>4, <2>5, <3>1, Zenon
    <3>2. CASE i = Len(ws) + 1
      <4>1. y[i] = vs[Len(ws) + 1] \o <<Zero>> /\ x[i] = e
        BY <2>4, <2>5, <3>2, Zenon
      <4> QED
        BY <1>5, <1>6, <4>1, Zenon
    <3> QED
      BY <2>1, <3>1, <3>2
  <2>7. y = x
    <3>1. Len(y) = Len(x) /\ Len(y) = Len(ws) + 1
      BY <2>4, <2>5, Zenon
    <3>2. \A i \in 1 .. Len(y) : y[i] = x[i]
      BY <2>6, <3>1, Zenon
    <3> QED
      BY <3>1, <3>2, SeqEqual, Zenon
  <2> QED
    BY <2>3, <2>4, <2>5, <2>7, Zenon
<1>8. FlattenSeq(<<>>) = <<>> /\ FlattenSeq(Append(Zeroed(ws), e)) = FlattenSeq(Zeroed(ws)) \o e
  <2>1. Zeroed(ws) \in Seq(Seq(Plain))
    BY <1>2
  <2> HIDE DEF Zeroed
  <2> QED
    BY <2>1, FlattenAppend, Zenon
<1> HIDE DEF Zeroed
<1> QED
  BY <1>1, <1>4, <1>5, <1>6, <1>7, <1>8, Zenon

\* A stream is empty or ends with a zero byte.
Closed(s) == s \in Seq(Plain) /\ (s # <<>> => s[Len(s)] = Zero)

LEMMA ClosedAppend ==
  ASSUME NEW s \in Seq(Plain), NEW w \in Words
  PROVE  Closed(s \o (w \o <<Zero>>)) /\ s \o (w \o <<Zero>>) # <<>>
<1>1. w \in Seq(Plain) /\ w \o <<Zero>> \in Seq(Plain) /\ <<Zero>> \in Seq(Plain)
  BY WordFacts
<1>2. PICK y \in Seq(Plain) : y = s \o w
  BY <1>1, ConcatProperties
<1>3. y \o <<Zero>> = s \o (w \o <<Zero>>)
  <2>1. Joined(s \o w \o <<Zero>>, s, w, <<Zero>>)
    BY <1>1, ThreeParts, Zenon
  <2> QED
    BY <1>2, <2>1, Zenon DEF Joined
<1>4. PICK x \in Seq(Plain) : Appended(x, y, Zero)
  BY CharFacts, AppendFacts, Zenon
<1>5. x = s \o (w \o <<Zero>>) /\ x # <<>> /\ x[Len(x)] = Zero
  BY <1>3, <1>4, Zenon DEF Appended
<1> QED
  BY <1>4, <1>5, Zenon DEF Closed

\* A sequence of words that is not empty has a last word.
LEMMA LastOf ==
  ASSUME NEW n \in Nat, NEW vs \in Seq(Words), Len(vs) = n + 1
  PROVE  \E us \in Seq(Words), w \in Words : vs = Append(us, w) /\ Len(us) = n
<1>1. vs # <<>>
  <2>1. Len(vs) # 0
    OBVIOUS
  <2> QED
    BY <2>1, EmptySeq
<1>2. PICK us \in Seq(Words), w \in Words : vs = Append(us, w)
  BY <1>1, SequenceEmptyOrAppend
<1>3. Len(vs) = Len(us) + 1 /\ Len(us) \in Nat
  BY <1>2, AppendProperties, LenProperties
<1> QED
  BY <1>2, <1>3

LEMMA StreamPlain ==
  ASSUME NEW ws \in Seq(Words)
  PROVE  Closed(Stream(ws)) /\ (ws # <<>> => Stream(ws) # <<>>)
<1> DEFINE T == {n \in Nat : \A vs \in Seq(Words) : Len(vs) = n => Closed(Stream(vs)) /\ (vs # <<>> => Stream(vs) # <<>>)}
<1>0. Closed(Stream(<<>>))
  <2>1. <<>> \in Seq(Words) /\ <<>> \in Seq(Plain) /\ <<>> \in Words
    BY EmptySeq DEF Words
  <2> QED
    BY <2>1, StreamAppend DEF Closed
<1>1. 0 \in T
  <2>1. ASSUME NEW vs \in Seq(Words), Len(vs) = 0 PROVE vs = <<>>
    BY <2>1, EmptySeq
  <2> QED
    BY <1>0, <2>1
<1>2. ASSUME NEW n \in Nat, n \in T PROVE n + 1 \in T
  <2>1. ASSUME NEW vs \in Seq(Words), Len(vs) = n + 1
        PROVE  Closed(Stream(vs)) /\ Stream(vs) # <<>>
    <3>1. PICK us \in Seq(Words), w \in Words : vs = Append(us, w) /\ Len(us) = n
      BY <2>1, LastOf
    <3>2. Closed(Stream(us))
      BY <1>2, <3>1
    <3>3. Stream(vs) = Stream(us) \o (w \o <<Zero>>)
      BY <3>1, StreamAppend
    <3>4. Stream(us) \in Seq(Plain)
      BY <3>2 DEF Closed
    <3> QED
      BY <3>3, <3>4, ClosedAppend
  <2> QED
    BY <2>1
<1> HIDE DEF T
<1>3. \A n \in Nat : n \in T
  BY <1>1, <1>2, InductiveSet
<1>4. Len(ws) \in T
  BY <1>3, LenProperties
<1> QED
  BY <1>4 DEF T

LEMMA StreamConcat ==
  ASSUME NEW ws \in Seq(Words), NEW vs \in Seq(Words)
  PROVE  Stream(ws) \o Stream(vs) = Stream(ws \o vs)
<1> DEFINE T == {n \in Nat : \A us \in Seq(Words) : Len(us) = n => Stream(ws) \o Stream(us) = Stream(ws \o us)}
<1>1. 0 \in T
  <2>1. ASSUME NEW us \in Seq(Words), Len(us) = 0 PROVE us = <<>>
    BY <2>1, EmptySeq
  <2>2. Stream(<<>>) = <<>>
    BY EmptySeq, StreamAppend DEF Words
  <2>3. Stream(ws) \o <<>> = Stream(ws) /\ ws \o <<>> = ws
    BY StreamPlain, ConcatEmptySeq DEF Closed
  <2> QED
    BY <2>1, <2>2, <2>3
<1>2. ASSUME NEW n \in Nat, n \in T PROVE n + 1 \in T
  <2>1. ASSUME NEW us \in Seq(Words), Len(us) = n + 1
        PROVE  Stream(ws) \o Stream(us) = Stream(ws \o us)
    <3>1. PICK ts \in Seq(Words), w \in Words : us = Append(ts, w) /\ Len(ts) = n
      BY <2>1, LastOf
    <3>2. Stream(ws) \o Stream(ts) = Stream(ws \o ts)
      BY <1>2, <3>1
    <3>3. PICK x \in Seq(Plain), y \in Seq(Plain), e \in Seq(Plain) :
            x = Stream(ws) /\ y = Stream(ts) /\ e = w \o <<Zero>>
      BY StreamPlain, WordFacts DEF Closed
    <3>4. PICK zs \in Seq(Words) : zs = ws \o ts
      BY ConcatProperties
    <3>5. Stream(us) = y \o e /\ Stream(Append(zs, w)) = Stream(zs) \o e
      BY <3>1, <3>3, StreamAppend, Zenon
    <3>6. ws \o us = Append(zs, w)
      <4>1. <<w>> \in Seq(Words) /\ Append(ts, w) = ts \o <<w>> /\ Append(zs, w) = zs \o <<w>>
        BY AppendIsConcat
      <4>2. Joined(ws \o ts \o <<w>>, ws, ts, <<w>>)
        BY <4>1, ThreeParts, Zenon
      <4> QED
        BY <3>1, <3>4, <4>1, <4>2, Zenon DEF Joined
    <3>7. (x \o y) \o e = x \o (y \o e)
      <4>1. Joined(x \o y \o e, x, y, e)
        BY ThreeParts, Zenon
      <4> QED
        BY <4>1, Zenon DEF Joined
    <3> QED
      BY <3>2, <3>3, <3>4, <3>5, <3>6, <3>7, Zenon
  <2> QED
    BY <2>1
<1> HIDE DEF T
<1>3. \A n \in Nat : n \in T
  BY <1>1, <1>2, InductiveSet
<1>4. Len(vs) \in T
  BY <1>3, LenProperties
<1> QED
  BY <1>4 DEF T

\* Of two ways to cut the last word off neither has the longer word: it would reach over
\* the zero byte the word before ends with.
LEMMA NotLonger ==
  ASSUME NEW x, NEW s, NEW w, NEW t, NEW v, Closed(s), Closed(t), w \in Words, v \in Words,
         Joined(x, s, w, <<Zero>>), Joined(x, t, v, <<Zero>>)
  PROVE  ~(Len(w) < Len(v))
<1>1. PICK a \in Nat, b \in Nat, c \in Nat, d \in Nat, z \in Nat :
        a = Len(w) /\ b = Len(v) /\ c = Len(s) /\ d = Len(t) /\ z = Len(<<Zero>>)
  <2>1. s \in Seq(Plain) /\ t \in Seq(Plain)
    BY DEF Closed
  <2> QED
    BY <2>1, WordFacts, LenProperties
<1>2. c + a + z = d + b + z
  <2>1. Len(x) = c + a + z /\ Len(x) = d + b + z
    BY <1>1, Zenon DEF Joined
  <2> QED
    BY <2>1
<1> SUFFICES ASSUME a < b PROVE FALSE
  BY <1>1
<1>3. c \in 1 .. c /\ c # 0 /\ c - d \in 1 .. b /\ d + (c - d) = c
  BY <1>2
<1>4. s # <<>>
  BY <1>1, <1>3, EmptySeq
<1>5. x[c] = Zero
  <2>1. s[c] = Zero
    BY <1>1, <1>4, Zenon DEF Closed
  <2> QED
    BY <1>1, <1>3, <2>1, Zenon DEF Joined
<1>6. x[d + (c - d)] = v[c - d]
  BY <1>1, <1>3, Zenon DEF Joined
<1>7. v[c - d] # Zero
  BY <1>1, <1>3, WordFacts
<1> QED
  BY <1>3, <1>5, <1>6, <1>7, Zenon

LEMMA LastWordsAgree ==
  ASSUME NEW s, NEW w \in Words, NEW t, NEW v \in Words, Closed(s), Closed(t),
         s \o (w \o <<Zero>>) = t \o (v \o <<Zero>>)
  PROVE  s = t /\ w = v
<1>1. /\ s \in Seq(Plain) /\ t \in Seq(Plain) /\ w \in Seq(Plain) /\ v \in Seq(Plain) /\ <<Zero>> \in Seq(Plain)
      /\ Len(s) \in Nat /\ Len(t) \in Nat /\ Len(w) \in Nat /\ Len(v) \in Nat /\ Len(<<Zero>>) \in Nat
  BY WordFacts, LenProperties DEF Closed
<1>2. Joined(s \o w \o <<Zero>>, s, w, <<Zero>>) /\ Joined(t \o v \o <<Zero>>, t, v, <<Zero>>)
  BY <1>1, ThreeParts, Zenon
<1>3. s \o w \o <<Zero>> = t \o v \o <<Zero>>
  BY <1>2, Zenon DEF Joined
<1>4. PICK x : Joined(x, s, w, <<Zero>>) /\ Joined(x, t, v, <<Zero>>)
  BY <1>2, <1>3, Zenon
<1>5. Len(w) = Len(v)
  <2>1. ~(Len(w) < Len(v)) /\ ~(Len(v) < Len(w))
    BY <1>4, NotLonger, Zenon
  <2> QED
    BY <1>1, <2>1
<1>6. Len(s) = Len(t)
  <2>1. Len(s) + Len(w) + Len(<<Zero>>) = Len(t) + Len(v) + Len(<<Zero>>)
    BY <1>4, Zenon DEF Joined
  <2> QED
    BY <1>1, <1>5, <2>1
<1>7. \A i \in 1 .. Len(s) : s[i] = t[i]
  BY <1>4, <1>6, Zenon DEF Joined
<1>8. \A i \in 1 .. Len(w) : w[i] = v[i]
  BY <1>4, <1>5, <1>6, Zenon DEF Joined
<1> QED
  BY <1>1, <1>5, <1>6, <1>7, <1>8, SeqEqual

\* Sequences of words that differ have streams that differ.
LEMMA StreamsApart ==
  ASSUME NEW ws \in Seq(Words), NEW vs \in Seq(Words), Stream(ws) = Stream(vs)
  PROVE  ws = vs
<1> DEFINE T == {n \in Nat : \A us, ts \in Seq(Words) : Len(us) = n /\ Stream(us) = Stream(ts) => us = ts}
<1>1. 0 \in T
  <2>1. ASSUME NEW us \in Seq(Words), NEW ts \in Seq(Words), Len(us) = 0, Stream(us) = Stream(ts)
        PROVE  us = ts
    <3>1. us = <<>>
      BY <2>1, EmptySeq
    <3>2. Stream(us) = <<>>
      BY <3>1, EmptySeq, StreamAppend DEF Words
    <3> QED
      BY <2>1, <3>1, <3>2, StreamPlain
  <2> QED
    BY <2>1
<1>2. ASSUME NEW n \in Nat, n \in T PROVE n + 1 \in T
  <2>1. ASSUME NEW us \in Seq(Words), NEW ts \in Seq(Words), Len(us) = n + 1, Stream(us) = Stream(ts)
        PROVE  us = ts
    <3>1. PICK u \in Seq(Words), w \in Words : us = Append(u, w) /\ Len(u) = n
      BY <2>1, LastOf
    <3>2. Stream(us) = Stream(u) \o (w \o <<Zero>>) /\ Closed(Stream(u))
      BY <3>1, StreamAppend, StreamPlain
    <3>3. ts # <<>>
      <4>1. us # <<>>
        BY <3>1, AppendProperties
      <4>2. Stream(us) # <<>>
        BY <4>1, StreamPlain
      <4>3. Stream(<<>>) = <<>>
        BY EmptySeq, StreamAppend DEF Words
      <4> QED
        BY <2>1, <4>2, <4>3
    <3>4. PICK t \in Seq(Words), v \in Words : ts = Append(t, v)
      BY <3>3, SequenceEmptyOrAppend
    <3>5. Stream(ts) = Stream(t) \o (v \o <<Zero>>) /\ Closed(Stream(t))
      BY <3>4, StreamAppend, StreamPlain
    <3>6. Stream(u) = Stream(t) /\ w = v
      BY <2>1, <3>2, <3>5, LastWordsAgree, Zenon
    <3>7. u = t
      BY <1>2, <3>1, <3>6
    <3> QED
      BY <3>1, <3>4, <3>6, <3>7
  <2> QED
    BY <2>1
<1> HIDE DEF T
<1>3. \A n \in Nat : n \in T
  BY <1>1, <1>2, InductiveSet
<1>4. Len(ws) \in T
  BY <1>3, LenProperties
<1> QED
  BY <1>4 DEF T

\* Equal checksums are checksums of one sequence of words.
LEMMA ChecksumsApart ==
  ASSUME NEW a \in Seq(Words), NEW b \in Seq(Words), NEW c \in Seq(Words), NEW d \in Seq(Words),
         Checksum(a, b) = Checksum(c, d)
  PROVE  a \o b = c \o d
<1>1. PICK s, t : s = Stream(a) \o Stream(b) /\ t = Stream(c) \o Stream(d)
  OBVIOUS
<1>2. Hash(s, 8) = Hash(t, 8)
  BY <1>1 DEF Checksum
<1>3. Hash(s, 8)[1].of = s /\ Hash(t, 8)[1].of = t
  BY DEF Hash
<1>4. s = t
  BY <1>2, <1>3, Zenon
<1>5. Stream(a \o b) = Stream(c \o d)
  <2>1. Stream(a) \o Stream(b) = Stream(a \o b)
    BY StreamConcat
  <2>2. Stream(c) \o Stream(d) = Stream(c \o d)
    BY StreamConcat
  <2> QED
    BY <1>1, <1>4, <2>1, <2>2, Zenon
<1>6. a \o b \in Seq(Words) /\ c \o d \in Seq(Words)
  BY ConcatProperties
<1> QED
  BY <1>5, <1>6, StreamsApart

-----------------------------------------------------------------------------
(* The specification.                                                         *)

Typed ==
  /\ plan \in PlanNames /\ hook \in HookKeys /\ node \in Nodes
  /\ other \in PlanNames /\ another \in HookKeys /\ next \in Nodes
  /\ was \in Settings /\ is \in Settings

LEMMA TypedAlways == Spec => []Typed
<1>1. Init => Typed
  BY DEF Init, Typed
<1>2. Typed /\ [Next]_vars => Typed'
  <2> SUFFICES ASSUME Typed, [Next]_vars PROVE Typed'
    OBVIOUS
  <2>1. CASE Meet
    BY <2>1 DEF Meet, aHook, settings, Typed
  <2>2. CASE Edit
    BY <2>2 DEF Edit, aHook, Typed
  <2>3. CASE UNCHANGED vars
    BY <2>3 DEF vars, aHook, settings, Typed
  <2> QED
    BY <2>1, <2>2, <2>3 DEF Next
<1> QED
  BY <1>1, <1>2, PTL DEF Spec

\* In every state the hooks and nodes have names as they are given.
LEMMA NamesOfState ==
  ASSUME Typed
  PROVE  Name(plan) /\ Name(hook) /\ Name(node) /\ Name(other) /\ Name(another) /\ Name(next)
BY GivenNames DEF Typed

\* The names of Jobs are labels of at most 63 characters without a dash at either end,
\* whatever plans, hooks and nodes are called (hookJobName, perNodeJobName).
THEOREM NamesAreLabels == Spec => []NamesFit
<1>1. Typed => NamesFit
  <2> SUFFICES ASSUME Typed PROVE NamesFit
    OBVIOUS
  <2>1. Label(JobName(plan, hook))
    BY NamesOfState, JobNameFacts, Zenon
  <2>2. Label(NodeJobName(JobName(plan, hook), node))
    BY <2>1, NamesOfState, NodeJobNameFacts, Zenon
  <2> QED
    BY <2>1, <2>2, LabelIsLabel, Zenon DEF NamesFit
<1> QED
  BY <1>1, TypedAlways, PTL

\* Two hooks never share the name of a Job, ConfigMap and status entry, if the names of
\* their plans keep clear of the separator (hookJobName).
THEOREM HooksHaveTheirNames == Spec => []HooksApart
<1>1. Typed => HooksApart
  <2> SUFFICES ASSUME Typed, OtherHook, JobName(plan, hook) = JobName(other, another) PROVE FALSE
    BY DEF HooksApart
  <2>1. plan = other /\ hook = another
    BY NamesOfState, JobNamesApart, Zenon DEF OtherHook
  <2> QED
    BY <2>1 DEF OtherHook
<1> QED
  BY <1>1, TypedAlways, PTL

\* The Jobs for two nodes never share a name, whichever hooks they are of; nor do those of
\* two hooks on one node whose own names leave room for the node's hash (perNodeJobName).
THEOREM NodesHaveTheirNames == Spec => []NodesApart
<1>1. Typed => NodesApart
  <2> DEFINE b == JobName(plan, hook)  c == JobName(other, another)
  <2> SUFFICES ASSUME Typed,
                      node # next \/ (OtherHook /\ \A base \in {b, c} : Len(base) <= MaxLen - 7),
                      NodeJobName(b, node) = NodeJobName(c, next)
               PROVE  FALSE
    BY DEF NodesApart
  <2>1. Label(b) /\ Label(c)
    BY NamesOfState, JobNameFacts, Zenon
  <2>2. node = next /\ (Len(b) + 7 <= MaxLen /\ Len(c) + 7 <= MaxLen => b = c)
    <3>1. Name(node) /\ Name(next)
      BY NamesOfState
    <3> QED
      BY <2>1, <3>1, NodeJobNamesApart, Zenon
  <2>3. OtherHook /\ Len(b) <= MaxLen - 7 /\ Len(c) <= MaxLen - 7
    BY <2>2
  <2>4. Len(b) + 7 <= MaxLen /\ Len(c) + 7 <= MaxLen
    <3>1. MaxLen \in Nat /\ Len(b) \in Nat /\ Len(c) \in Nat
      BY <2>1, Limits, LenProperties DEF Label
    <3> HIDE DEF b, c
    <3> QED
      BY <2>3, <3>1
  <2>5. plan = other /\ hook = another
    BY <2>2, <2>3, <2>4, NamesOfState, JobNamesApart, Zenon DEF OtherHook
  <2> QED
    BY <2>3, <2>5 DEF OtherHook
<1> QED
  BY <1>1, TypedAlways, PTL

\* Whatever is edited in command and args of a mutable hook, the checksum changes with
\* the sequence of their words (hookChecksum ends each word with a zero byte).
THEOREM EditsChangeTheChecksum == Spec => []EditsSeen
<1>1. Typed => EditsSeen
  <2> SUFFICES ASSUME Typed, Checksum(was.command, was.args) = Checksum(is.command, is.args)
               PROVE  was.command \o was.args = is.command \o is.args
    BY DEF EditsSeen
  <2>1. was.command \in Lines /\ was.args \in Lines /\ is.command \in Lines /\ is.args \in Lines
    BY DEF Typed, Settings
  <2>2. \A ws \in Lines : ws \in Seq(Words)
    BY NamesOK DEF NamesOK, Words
  <2>3. /\ was.command \in Seq(Words) /\ was.args \in Seq(Words)
        /\ is.command \in Seq(Words) /\ is.args \in Seq(Words)
    BY <2>1, <2>2, Zenon
  <2>4. PICK a \in Seq(Words), b \in Seq(Words), c \in Seq(Words), d \in Seq(Words) :
          a = was.command /\ b = was.args /\ c = is.command /\ d = is.args
    BY <2>3, Zenon
  <2>5. Checksum(a, b) = Checksum(c, d)
    BY <2>4, Zenon
  <2>6. a \o b = c \o d
    BY <2>5, ChecksumsApart
  <2> QED
    BY <2>4, <2>6, Zenon
<1> QED
  BY <1>1, TypedAlways, PTL
=============================================================================
