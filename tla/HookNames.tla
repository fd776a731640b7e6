----------------------------- MODULE HookNames -----------------------------
(***************************************************************************)
(* The names a hook's Job, ConfigMap and status entry are found by, and    *)
(* the checksum its changes are found by.                                  *)
(*                                                                         *)
(* A name is the sequence of its characters.  A digit of a SHA-256 is a    *)
(* character that carries the string that was hashed: that two strings     *)
(* have the same digits is not modelled.                                   *)
(***************************************************************************)
EXTENDS Naturals, SequencesExt

CONSTANTS
    Letters,    \* what stands for the characters, "zero" for the zero byte
    PlanNames,  \* names of plans and of hooks, as sequences of Char(x)
    HookKeys,
    Nodes,      \* names of nodes, the same
    Lines       \* what command and args may be: sequences of words, the same

Char(x) == [char |-> x, of |-> <<>>]
Dash    == Char("-")
Zero    == Char("zero")

\* The names that are given consist of Plain characters, those made from them may have
\* digits of a hash as well.
Plain == [char : Letters, of : {<<>>}]
Chars == [char : Letters, of : Seq(Plain)]

DigitNames == <<"1", "2", "3", "4", "5", "6", "7", "8">>

\* The first n hex digits of the SHA-256 of s.
Hash(s, n) == [i \in 1 .. n |-> [char |-> DigitNames[i], of |-> s]]

ASSUME NamesOK ==
    /\ {"-", "r", "h", "zero"} \cup Range(DigitNames) \subseteq Letters
    /\ \A s \in PlanNames \cup HookKeys \cup Nodes :
           s \in Seq(Plain) /\ s # <<>> /\ Head(s) # Dash /\ Last(s) # Dash
    /\ \A ws \in Lines : ws \in Seq(Seq(Plain \ {Zero}))

MaxLen == 63
Sep    == <<Dash, Char("r"), Char("h"), Dash>>

Prefix(s, n) == SubSeq(s, 1, n)

\* strings.TrimRight(s, "-").
TrimRight(s) ==
    LET kept == {i \in DOMAIN s : s[i] # Dash} IN
    IF kept = {} THEN <<>> ELSE Prefix(s, Max(kept))

\* (A variant that forgets the separator in the length of the parts.)
PerPartWithoutSep == (MaxLen - 9) \div 2

\* What remains of 63 for each part, with the separator and a dash and 8 digits.
PerPart == (MaxLen - 9 - Len(Sep)) \div 2

Shorten(s) == IF Len(s) > PerPart THEN TrimRight(Prefix(s, PerPart)) ELSE s

\* (A variant that shortens without a hash.)
JobNameWithoutHash(plan, hook) ==
    LET full == plan \o Sep \o hook IN
    IF Len(full) <= MaxLen THEN full ELSE Shorten(plan) \o Sep \o Shorten(hook)

\* hookJobName.
JobName(plan, hook) ==
    LET full == plan \o Sep \o hook IN
    IF Len(full) <= MaxLen THEN full
    ELSE Shorten(plan) \o Sep \o Shorten(hook) \o <<Dash>> \o Hash(full, 8)

\* (A variant that cuts the name off at its end.)
NodeJobNameCut(base, node) ==
    LET full == base \o <<Dash>> \o Hash(node, 6) IN
    IF Len(full) <= MaxLen THEN full ELSE TrimRight(Prefix(full, MaxLen))

\* perNodeJobName.
NodeJobName(base, node) ==
    LET hash == <<Dash>> \o Hash(node, 6) IN
    IF Len(base \o hash) <= MaxLen THEN base \o hash
    ELSE TrimRight(Prefix(base, MaxLen - 7)) \o hash

\* (A variant that hashes the words as they are.)
StreamOfWords(words) == FlattenSeq(words)

\* What hookChecksum hashes: each word is followed by a zero byte.
Stream(words) == FlattenSeq([i \in DOMAIN words |-> words[i] \o <<Zero>>])

\* hookChecksum.
Checksum(command, args) == Hash(Stream(command) \o Stream(args), 8)

-----------------------------------------------------------------------------
VARIABLES
    plan, hook, node,      \* a hook: its plan, its name, and a node it runs for
    other, another, next,  \* a second one
    was, is                \* command and args of the first, before and after an edit

aHook    == <<plan, hook, node>>
settings == <<was, is>>
vars     == <<aHook, other, another, next, settings>>

Settings == [command : Lines, args : Lines]

Init ==
    /\ plan \in PlanNames /\ hook \in HookKeys /\ node \in Nodes
    /\ other = plan /\ another = hook /\ next = node
    /\ was \in Settings /\ is = was

Alone == <<other, another, next>> = aHook /\ is = was

\* There is another hook, or another node.
Meet ==
    /\ Alone
    /\ other' \in PlanNames /\ another' \in HookKeys /\ next' \in Nodes
    /\ UNCHANGED <<aHook, settings>>

\* The user changes command or args.
Edit ==
    /\ Alone
    /\ is' \in Settings
    /\ UNCHANGED <<aHook, other, another, next, was>>

Next == Meet \/ Edit

Spec == Init /\ [][Next]_vars

-----------------------------------------------------------------------------
(* Properties.                                                             *)

IsLabel(s) == Len(s) \in 1 .. MaxLen /\ Head(s) # Dash /\ Last(s) # Dash

\* However long the names of plan and hook are, the names made from them are
\* labels: at most 63 characters, and no dash at either end.
\* (hookJobName and perNodeJobName; the names are values of the label "app" too.)
NamesFit ==
    /\ IsLabel(JobName(plan, hook))
    /\ IsLabel(NodeJobName(JobName(plan, hook), node))

\* The separator is not in the name of a plan, nor does it end there with its own dash.
Separated(s) ==
    LET t == s \o <<Dash>> IN
    \A i \in 0 .. Len(t) - Len(Sep) : SubSeq(t, i + 1, i + Len(Sep)) # Sep

OtherHook == <<plan, hook>> # <<other, another>> /\ Separated(plan) /\ Separated(other)

\* Two hooks have different names, if those of their plans keep clear of the separator.
\* (hookJobName shortens the names but adds a hash of both.)
HooksApart == OtherHook => JobName(plan, hook) # JobName(other, another)

\* The Jobs for two nodes have different names, those of one hook or of two; so have the
\* Jobs of two hooks on one node, if the names of the hooks are not cut again.
\* (perNodeJobName puts the hash of the node after what it cuts off.)
NodesApart ==
    \/ node # next
    \/ OtherHook /\ \A base \in {JobName(plan, hook), JobName(other, another)} : Len(base) <= MaxLen - 7
    => NodeJobName(JobName(plan, hook), node) # NodeJobName(JobName(other, another), next)

\* An edit that changes the sequence of words of command and args, in whichever of
\* the two, changes the checksum; one that moves a word between them does not.
\* (README, hooks: a mutable hook's "changing their command/args triggers a re-run".)
EditsSeen ==
    Checksum(was.command, was.args) = Checksum(is.command, is.args) =>
        was.command \o was.args = is.command \o is.args
=============================================================================
