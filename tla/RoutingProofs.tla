--------------------------- MODULE RoutingProofs ---------------------------
(***************************************************************************)
(* For every host and every list of exclusions, the PAC script and the     *)
(* extension's own matcher decide alike, and as the form promises.         *)
(***************************************************************************)
EXTENDS Routing, SequenceTheorems, TLAPS

LEMMA DotInChar == Dot \in Char
  BY DEF Char

\* endsWith finds exactly the sequences that end with t.
LEMMA EndsWithIsSuffix ==
  ASSUME NEW S, NEW s \in Seq(S), NEW t \in Seq(S)
  PROVE  endsWith(s, t) <=> \E p \in Seq(S) : s = p \o t
<1>1. ASSUME endsWith(s, t) PROVE \E p \in Seq(S) : s = p \o t
  <2> DEFINE n == Len(s) - Len(t)
             p == SubSeq(s, 1, n)
  <2>1. n \in 0..Len(s) /\ Len(s) \in Nat
    BY <1>1 DEF endsWith
  <2>2. p \in Seq(S)
    <3>1. \A i \in 1..n : s[i] \in S
      BY <2>1, ElementOfSeq
    <3> QED BY <2>1, <3>1, SubSeqProperties
  <2>3. p \o SubSeq(s, n + 1, Len(s)) = SubSeq(s, 1, Len(s))
    <3>1. 1 \in 1..Len(s) + 1 /\ n \in 1 - 1..Len(s) /\ Len(s) \in n..Len(s)
      BY <2>1
    <3> QED BY <3>1, ConcatAdjacentSubSeq
  <2>4. SubSeq(s, 1, Len(s)) = s
    BY SubSeqFull
  <2>5. SubSeq(s, n + 1, Len(s)) = t
    BY <1>1 DEF endsWith
  <2> QED BY <2>2, <2>3, <2>4, <2>5
<1>2. ASSUME NEW p \in Seq(S), s = p \o t PROVE endsWith(s, t)
  <2>1. Len(s) = Len(p) + Len(t) /\ Len(p) \in Nat /\ Len(t) \in Nat
    BY <1>2, ConcatProperties, LenProperties
  <2>2. CASE Len(t) = 0
    <3>1. t = <<>>
      BY <2>2, EmptySeq
    <3>2. SubSeq(s, Len(s) - Len(t) + 1, Len(s)) = <<>>
      BY <2>1, <2>2, SubSeqEmpty
    <3> QED BY <2>1, <2>2, <3>1, <3>2 DEF endsWith
  <2>3. CASE Len(t) > 0
    <3>1. SubSeq(p \o t, Len(p) + 1, Len(p) + Len(t))
            = SubSeq(t, Len(p) + 1 - Len(p), Len(p) + Len(t) - Len(p))
      <4>1. /\ Len(p) + 1 \in Len(p) + 1..Len(p) + Len(t)
            /\ Len(p) + Len(t) \in Len(p) + 1..Len(p) + Len(t)
        BY <2>1, <2>3
      <4> QED BY <4>1, SubSeqOfConcat2
    <3>2. /\ Len(p) + 1 - Len(p) = 1 /\ Len(p) + Len(t) - Len(p) = Len(t)
          /\ Len(s) - Len(t) + 1 = Len(p) + 1
      BY <2>1
    <3>3. SubSeq(t, 1, Len(t)) = t
      BY SubSeqFull
    <3> QED BY <1>2, <2>1, <3>1, <3>2, <3>3 DEF endsWith
  <2> QED BY <2>1, <2>2, <2>3
<1> QED BY <1>1, <1>2

\* The comparison in the text of the PAC is endsWith, also for hosts that are
\* shorter than the domain, where slice returns the whole host.
LEMMA SliceIsEndsWith ==
  ASSUME NEW S, NEW s \in Seq(S), NEW t \in Seq(S)
  PROVE  sliceEnd(s, Len(t)) = t <=> endsWith(s, t)
<1>1. Len(s) \in Nat /\ Len(t) \in Nat
  BY LenProperties
<1>2. CASE Len(t) < Len(s)
  BY <1>1, <1>2 DEF sliceEnd, endsWith
<1>3. CASE Len(t) = Len(s)
  <2>1. SubSeq(s, 1, Len(s)) = s /\ Len(s) - Len(t) + 1 = 1
    BY <1>1, <1>3, SubSeqFull
  <2> QED BY <1>1, <1>3, <2>1 DEF sliceEnd, endsWith
<1>4. CASE Len(t) > Len(s)
  BY <1>1, <1>4 DEF sliceEnd, endsWith
<1> QED BY <1>1, <1>2, <1>3, <1>4

LEMMA NormalizedIsSeq ==
  ASSUME NEW host \in Seq(Char)
  PROVE  Normalized(host) \in Seq(Char)
<1> DEFINE h == toLowerCase(host)
<1>1. h \in Seq(Char) /\ Len(h) \in Nat
  <2>1. \A i \in 1..Len(host) :
          (IF host[i] \in Upper THEN ToLower[host[i]] ELSE host[i]) \in Char
    BY RoutingAssumption, ElementOfSeq DEF Char
  <2>2. h \in [1..Len(host) -> Char] /\ Len(host) \in Nat
    BY <2>1, LenProperties DEF toLowerCase
  <2> QED BY <2>2, SeqDef, LenProperties
<1>2. CASE h # <<>> /\ h[Len(h)] = Dot
  <2>1. \A i \in 1..Len(h) - 1 : h[i] \in Char
    BY <1>1, ElementOfSeq
  <2>2. SubSeq(h, 1, Len(h) - 1) \in Seq(Char)
    BY <1>1, <2>1, SubSeqProperties
  <2> QED BY <1>2, <2>2 DEF Normalized
<1>3. CASE ~(h # <<>> /\ h[Len(h)] = Dot)
  BY <1>1, <1>3 DEF Normalized
<1> QED BY <1>2, <1>3

LEMMA DomainWithDot ==
  ASSUME NEW d \in Seq(Char)
  PROVE  <<Dot>> \o d \in Seq(Char) /\ Len(<<Dot>> \o d) = Len(d) + 1
<1>1. <<Dot>> \in Seq(Char) /\ Len(<<Dot>>) = 1
  BY DotInChar
<1> QED BY <1>1, ConcatProperties, LenProperties

\* Chrome goes direct exactly to the hosts that isExcludedHost names: testIp
\* refuses to ask api.ipify.org (background.js:399) if and only if the PAC would
\* send that request around the proxy.
THEOREM PacAgreesWithMatcher ==
  ASSUME NEW host \in Seq(Char), NEW list \in Seq(Seq(Char))
  PROVE  FindProxyForURL(host, list) = "DIRECT" <=> isExcludedHost(host, list)
<1> DEFINE h == Normalized(host)
<1>1. ASSUME NEW i \in 1..Len(list)
      PROVE  sliceEnd(h, Len(list[i]) + 1) = <<Dot>> \o list[i]
               <=> endsWith(h, <<Dot>> \o list[i])
  <2>1. list[i] \in Seq(Char)
    BY ElementOfSeq
  <2>2. /\ <<Dot>> \o list[i] \in Seq(Char)
        /\ Len(<<Dot>> \o list[i]) = Len(list[i]) + 1
    BY <2>1, DomainWithDot
  <2>3. h \in Seq(Char)
    BY NormalizedIsSeq
  <2>4. sliceEnd(h, Len(<<Dot>> \o list[i])) = <<Dot>> \o list[i]
          <=> endsWith(h, <<Dot>> \o list[i])
    BY <2>2, <2>3, SliceIsEndsWith
  <2> QED BY <2>2, <2>4
<1> QED BY <1>1 DEF FindProxyForURL, isExcludedHost

\* An exclusion covers its domain and the subdomains and nothing else: the dot
\* in front keeps notexample.com out of example.com (popup.html:56).
THEOREM ExclusionsCoverSubdomains ==
  ASSUME NEW host \in Seq(Char), NEW list \in Seq(Seq(Char))
  PROVE  isExcludedHost(host, list)
           <=> \E i \in 1..Len(list) : InDomain(Normalized(host), list[i])
<1> DEFINE h == Normalized(host)
<1>1. ASSUME NEW i \in 1..Len(list)
      PROVE  endsWith(h, <<Dot>> \o list[i])
               <=> \E p \in Seq(Char) : h = p \o (<<Dot>> \o list[i])
  <2>1. list[i] \in Seq(Char)
    BY ElementOfSeq
  <2>2. <<Dot>> \o list[i] \in Seq(Char)
    BY <2>1, DomainWithDot
  <2>3. h \in Seq(Char)
    BY NormalizedIsSeq
  <2> HIDE DEF h
  <2>4. \A t \in Seq(Char) : endsWith(h, t) <=> \E p \in Seq(Char) : h = p \o t
    BY <2>3, EndsWithIsSuffix
  <2> QED BY <2>2, <2>4
<1> QED BY <1>1 DEF isExcludedHost, InDomain

=============================================================================
