------------------------------ MODULE HostRules ------------------------------
(***************************************************************************)
(* The lists that decide where a host belongs (relay/route/direct.go,      *)
(* domestic.go, connect_route.go).  A host is the sequence of its labels,  *)
(* already lower case and without a port.  Each list is represented by a   *)
(* few of its entries.                                                     *)
(***************************************************************************)
EXTENDS Integers, Sequences
LOCAL INSTANCE SequencesExt

googleDomains == {<<"google", "com">>, <<"gstatic", "com">>}
sanctionedDomains == {<<"gemini", "google", "com">>, <<"ai", "google">>}
roots == {<<"digikala", "com">>, <<"net">>}

\* A host is a domain or under it, label by label.
Under(host, domain) == IsSuffix(domain, host)

IsGoogleDomain(host) ==
  /\ \A d \in sanctionedDomains : ~Under(host, d)
  /\ \E d \in googleDomains : Under(host, d)

\* .ir, and the country's punycode domain, which is no host itself
MatchIRTLD(host) ==
  \/ Under(host, <<"ir">>)
  \/ Under(host, <<"xn--mgba3a4f16a">>) /\ Len(host) > 1

\* The host and its parents down to two labels
ParentDomains(host) ==
  {host} \cup {SubSeq(host, i, Len(host)) : i \in 1 .. Len(host) - 1}

ShouldUseDomesticBypass(host) ==
  /\ ~IsGoogleDomain(host)
  /\ MatchIRTLD(host) \/ ParentDomains(host) \cap roots # {}

\* ConnectRouteForHost, with direct mode on or off
ConnectRoute(host, direct) ==
  IF direct /\ IsGoogleDomain(host) THEN "fragment"
  ELSE IF ShouldUseDomesticBypass(host) THEN "plain" ELSE "relay"

\* What the tests of the package (connect_route_test.go, domestic_test.go,
\* routing_matrix_test.go) and the lists' comments expect of hosts at the
\* edges of the rules.
ASSUME HostRulesAssumption ==
  /\ \A h \in {<<"google", "com">>, <<"www", "google", "com">>} :
       ConnectRoute(h, TRUE) = "fragment" /\ ConnectRoute(h, FALSE) = "relay"
  /\ \A h \in {<<"ir">>, <<"shop", "example", "ir">>, <<"www", "digikala", "com">>,
               <<"digikala", "com">>, <<"net">>, <<"a", "xn--mgba3a4f16a">>,
               <<"google", "com", "ir">>}, on \in BOOLEAN : ConnectRoute(h, on) = "plain"
  /\ \A h \in {<<"www", "youtube", "com">>, <<"notdigikala", "com">>, <<"gemini", "google", "com">>,
               <<"a", "gemini", "google", "com">>, <<"ai", "google">>, <<"a", "net">>,
               <<"notgoogle", "com">>, <<"xn--mgba3a4f16a">>}, on \in BOOLEAN :
       ConnectRoute(h, on) = "relay"
=============================================================================
