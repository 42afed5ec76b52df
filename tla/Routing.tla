------------------------------ MODULE Routing ------------------------------
(***************************************************************************)
(* Which hosts go around the proxy (extension/core.mjs).                   *)
(*                                                                         *)
(* The rule is written twice: isExcludedHost, with endsWith, decides       *)
(* whether an IP check would be a direct request; FindProxyForURL, with    *)
(* slice, is the text of the PAC script by which Chrome routes.  Both take *)
(* a list that normalizeExclusions made and that is normalised again every *)
(* time it is read from the storage.  A host is a sequence of characters;  *)
(* dotted numbers, which isValidHost treats as IPv4, are left out.         *)
(***************************************************************************)
EXTENDS Integers, Sequences

CONSTANTS
  Letters,            \* what a label may begin and end with, in lower case
  Upper,              \* the same in upper case
  ToLower,            \* [Upper -> Letters]
  Dot, Hyphen, Star,
  MAX_EXCLUSIONS

Char == Letters \cup Upper \cup {Dot, Hyphen, Star}

ASSUME RoutingAssumption ==
  /\ ToLower \in [Upper -> Letters]
  /\ Upper \cap (Letters \cup {Dot, Hyphen, Star}) = {}
  /\ {Dot, Hyphen, Star} \cap Letters = {}
  /\ MAX_EXCLUSIONS \in Nat

Has(s, x) == \E i \in 1..Len(s) : s[i] = x
toLowerCase(s) ==
  [i \in 1..Len(s) |-> IF s[i] \in Upper THEN ToLower[s[i]] ELSE s[i]]

\* at least two labels of up to 63 characters that begin and end with a letter
isValidHost(host) ==
  LET h == toLowerCase(host)
      edge(i) == i \notin 1..Len(h) \/ h[i] = Dot IN
  /\ Len(h) \in 3..253
  /\ Has(h, Dot)
  /\ \A i \in 1..Len(h) : h[i] \in Letters \cup {Dot, Hyphen}
  /\ \A i \in 1..Len(h) : edge(i - 1) \/ edge(i + 1) => h[i] \in Letters
  /\ \A i \in 1..Len(h) - 63 : \E j \in i..i + 63 : h[j] = Dot

\* *.example.com stands for example.com
Unstarred(s) == IF Len(s) >= 2 /\ s[1] = Star /\ s[2] = Dot
                THEN SubSeq(s, 3, Len(s)) ELSE s
\* the items of the text one by one: an invalid one or one too many throws
normalizeExclusions(items) ==
  LET result[n \in 0..Len(items)] ==
        IF n = 0 THEN [thrown |-> FALSE, list |-> <<>>]
        ELSE LET before == result[n - 1]
                 domain == toLowerCase(Unstarred(items[n])) IN
             IF before.thrown \/ ~isValidHost(domain)
             THEN [before EXCEPT !.thrown = TRUE]
             ELSE IF Has(before.list, domain) THEN before
             ELSE [thrown |-> Len(before.list) = MAX_EXCLUSIONS,
                   list |-> Append(before.list, domain)]
  IN result[Len(items)]

\* the host in lower case without the dot of a fully qualified name
Normalized(host) ==
  LET h == toLowerCase(host) IN
  IF h # <<>> /\ h[Len(h)] = Dot THEN SubSeq(h, 1, Len(h) - 1) ELSE h

endsWith(s, t) ==
  Len(s) >= Len(t) /\ SubSeq(s, Len(s) - Len(t) + 1, Len(s)) = t
\* s.slice(-n): all of s when it is shorter
sliceEnd(s, n) == IF n >= Len(s) THEN s ELSE SubSeq(s, Len(s) - n + 1, Len(s))

isExcludedHost(host, list) ==
  \E i \in 1..Len(list) : \/ Normalized(host) = list[i]
                          \/ endsWith(Normalized(host), <<Dot>> \o list[i])
FindProxyForURL(host, list) ==
  IF \E i \in 1..Len(list) :
       LET h == Normalized(host)  d == list[i] IN
       h = d \/ sliceEnd(h, Len(d) + 1) = <<Dot>> \o d
  THEN "DIRECT" ELSE "SHBVPN_PROXY"

\* what the user of the form is told: these domains and their subdomains
InDomain(h, d) == h = d \/ \E p \in Seq(Char) : h = p \o (<<Dot>> \o d)

=============================================================================
