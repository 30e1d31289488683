------------------------------ MODULE NamePool -------------------------------
(***************************************************************************)
(* NamePool of impl/unique.h: the names of a directory are fitted to what  *)
(* a filesystem allows, one by one, and kept apart by a number mixed in.   *)
(*                                                                         *)
(* A name is [text, file]; a text is a sequence of characters, which are   *)
(* numbers, those below Radix the digits.  What comes out is a Unicomp,    *)
(* its text cut in front of each of the separators in seps: base,          *)
(* extension and version.  Conv puts it together to what is written.       *)
(* A rule is [ext, base, spay, forceDot, version].                         *)
(***************************************************************************)
EXTENDS Naturals, SequencesExt

CONSTANTS
    Stop,    \* UnChar::STOP, and SEP1 of CDFSChar
    Semi,    \* SEP2 of CDFSChar
    Radix,   \* of the numbers mixed in
    SizeMod  \* size_t counts modulo this

ASSUME PoolAssumption ==
    /\ Radix \in Nat \ {0, 1} /\ SizeMod \in Nat \ {0}
    /\ Stop \in Nat /\ Semi \in Nat /\ Semi >= Radix

VARIABLES
    convToLink, \* NamePool::convToLink
    linkToConv, \* NamePool::linkToConv
    attempt,    \* how often a number has been mixed into the name at hand
    fit         \* what fitName has returned, by the names it was asked for

poolVars == <<convToLink, linkToConv, attempt, fit>>

PoolInit == convToLink = <<>> /\ linkToConv = <<>> /\ attempt = 0 /\ fit = <<>>

NewPool == convToLink' = <<>> /\ linkToConv' = <<>> /\ attempt' = 0 /\ fit' = <<>>

\* f with the value of k set to v.
With(f, k, v) == [x \in DOMAIN f \cup {k} |-> IF x = k THEN v ELSE f[x]]

\* The subtraction of size_t.
Minus(a, b) == (a + SizeMod - b) % SizeMod

\* CDFSRule::translit: where the name is cut, which is where it ends unless the
\* extension is short enough.
DotPos(name, rule) ==
    LET size == Len(name.text)
        dot == SelectLastInSeq(name.text, LAMBDA c : c = Stop)
    IN  IF ~name.file \/ dot = 0 \/ dot - 1 < Minus(size, rule.ext + 1)
        THEN size ELSE dot - 1

Translit(name, rule) ==
    [link |-> SubSeq(name.text, 1, DotPos(name, rule)),
     tran |-> [i \in DOMAIN name.text |-> rule.spay[name.text[i]]],
     file |-> name.file]

\* The digits of a number, none for zero: each is the rest of what is left to
\* divide, the last one first.
Digits(n) ==
    LET left[i \in 0 .. n] == IF i = 0 THEN n ELSE left[i-1] \div Radix
        count == Cardinality({i \in 0 .. n : left[i] # 0})
    IN  [k \in 1 .. count |-> left[count - k] % Radix]

\* CDFSRule::mixInVar
MixInVar(uniq, rule, variant) ==
    LET room == Minus(rule.base, Len(Digits(variant)))
        size == Len(uniq.link)
    IN  SubSeq(uniq.tran, 1, IF size < room THEN size ELSE room) \o Digits(variant)

\* CDFSRule::decorate
Decorate(uniq, rule, conv) ==
    LET hasExt == Len(uniq.tran) > Len(uniq.link)
        ext == SubSeq(uniq.tran, Len(uniq.link) + 2, Len(uniq.tran))
        addDot == hasExt \/ (rule.forceDot /\ uniq.file)
        versioned == uniq.file /\ rule.version # <<>>
    IN  <<conv>> \o (IF addDot THEN <<<<Stop>> \o ext>> ELSE <<>>)
                 \o (IF versioned THEN <<<<Semi>> \o rule.version>> ELSE <<>>)

\* Unicomp::conv, which is what goes to the disk.
Conv(name) == FlattenSeq(name)

\* StdRand::variant
Variants(n) == IF n = 0 THEN {0} ELSE n .. n + n * n - 1

Existing(uniq) == uniq.link # <<>> /\ uniq.link \in DOMAIN linkToConv

\* NamePool::tryExisting
TryExisting(name, rule) ==
    LET uniq == Translit(name, rule)
    IN  /\ Existing(uniq)
        /\ fit' = With(fit, name, Decorate(uniq, rule, linkToConv[uniq.link]))
        /\ UNCHANGED <<convToLink, linkToConv, attempt>>

\* Mutant of the action below: what the name is mixed to need not be new.
TryBrandNewAny(name, rule) ==
    LET uniq == Translit(name, rule)
    IN  /\ ~Existing(uniq)
        /\ \E variant \in Variants(attempt) :
               LET conv == MixInVar(uniq, rule, variant)
               IN  /\ convToLink' = With(convToLink, conv, uniq.link)
                   /\ linkToConv' = With(linkToConv, uniq.link, conv)
                   /\ fit' = With(fit, name, Decorate(uniq, rule, conv))
                   /\ attempt' = 0

\* An iteration of the loop of NamePool::fitName.
TryBrandNew(name, rule) ==
    LET uniq == Translit(name, rule)
    IN  /\ ~Existing(uniq)
        /\ \E variant \in Variants(attempt) :
               LET conv == MixInVar(uniq, rule, variant)
               IN  IF conv \in DOMAIN convToLink
                   THEN attempt' = attempt + 1 /\ UNCHANGED <<convToLink, linkToConv, fit>>
                   ELSE /\ convToLink' = With(convToLink, conv, uniq.link)
                        /\ linkToConv' = With(linkToConv, uniq.link, conv)
                        /\ fit' = With(fit, name, Decorate(uniq, rule, conv))
                        /\ attempt' = 0

FitName(name, rule) == TryExisting(name, rule) \/ TryBrandNew(name, rule)
-----------------------------------------------------------------------------
\* What a rule is made of, and the names it applies to: what EnsureD and EnsureD1
\* turn a character into is never SEP2, and is no dot unless it was one.
IsRule(rule) ==
    /\ rule.ext \in Nat /\ rule.base \in Nat
    /\ rule.spay \in [DOMAIN rule.spay -> Nat]
    /\ \A c \in DOMAIN rule.spay : rule.spay[c] # Semi /\ (rule.spay[c] = Stop => c = Stop)
    /\ rule.version \in Seq(Nat)

IsText(text, rule) == text \in Seq(DOMAIN rule.spay)

\* The correlated part of a name: what is before its last dot, or all of it.
Correlated(name) ==
    LET dot == SelectLastInSeq(name.text, LAMBDA c : c = Stop)
    IN  IF name.file /\ dot # 0 THEN SubSeq(name.text, 1, dot - 1) ELSE name.text

\* What a number is mixed into may be either.
Stems(name) == {name.text, Correlated(name)} \ {<<>>}

(***************************************************************************)
(* Names are written alike only if they are files that have a stem in      *)
(* common, so that they differ in what follows it, or of which one is cut  *)
(* at its dot and the other one is not: numbers are mixed in until the     *)
(* stem is new, however it is cut and spelled.                             *)
(***************************************************************************)
NamesApart ==
    \A a, b \in DOMAIN fit : a # b /\ Conv(fit[a]) = Conv(fit[b]) =>
        /\ a.file /\ b.file
        /\ Stems(a) \cap Stems(b) # {} \/ Len(fit[a]) # Len(fit[b])

\* Distinct names are written distinct, as the comment on NamePool says.
NamesDistinct == \A a, b \in DOMAIN fit : Conv(fit[a]) = Conv(fit[b]) => a = b
==============================================================================
