------------------------ MODULE MCCredentialControl ------------------------
(* Instances of CredentialControl for TLC: two Providers, each with its own   *)
(* account, two admin requests in flight next to the scheduled one.           *)
EXTENDS CredentialControl

CONSTANTS pa, pb, k1, k2, fa, fb, fc, fv, w1, w2, tm, s1, s2

MCAccountOf == [p \in Provider |-> IF p = pa THEN fa ELSE fb]

MCVertexFile == [p \in Provider |-> fv]

MCRotatesTo == [p \in Provider |-> fc]

\* Nothing stored; a key stored for pa; keys for both; a login stored for pa.
StoredNothing == [p \in {pa, pb} |-> None]
StoredKey == [p \in {pa, pb} |-> IF p = pa THEN Cred("api-key", k1, 0) ELSE None]
StoredKeys == [p \in {pa, pb} |-> Cred("api-key", k1, 0)]
StoredLogin == [p \in {pa, pb} |-> IF p = pa THEN Cred("oauth", fa, 0) ELSE None]

MutationOps == {"put", "delete", "import", "reconcileProvider", "semanticReadiness"}
LoginOps == {"startOAuth", "submitOAuthCallback", "oauthStatus"}

\* Two mutations at once; two logins at once; a login that may expire or fail;
\* one key replaced after another; a change whose rollback fails as well; a
\* login whose auth file CPA rotates; an import whose answer is lost, after a
\* deletion a crash has interrupted.
Mutations ==
  [ops |-> MutationOps, stored |-> StoredKey, workers |-> {w1, w2, tm},
   expiring |-> FALSE, rotating |-> FALSE, maxOps |-> 2, maxFaults |-> 1, maxCrashes |-> 1]
Logins ==
  [ops |-> LoginOps, stored |-> StoredNothing, workers |-> {w1, w2, tm},
   expiring |-> FALSE, rotating |-> FALSE, maxOps |-> 5, maxFaults |-> 0, maxCrashes |-> 0]
ExpiringLogin ==
  [ops |-> LoginOps, stored |-> StoredNothing, workers |-> {w1, tm},
   expiring |-> TRUE, rotating |-> FALSE, maxOps |-> 4, maxFaults |-> 1, maxCrashes |-> 0]
Replacements ==
  [ops |-> {"put"}, stored |-> StoredKeys, workers |-> {w1, tm},
   expiring |-> FALSE, rotating |-> FALSE, maxOps |-> 2, maxFaults |-> 2, maxCrashes |-> 1]
Failures ==
  [ops |-> {"put", "delete", "import"}, stored |-> StoredKey, workers |-> {w1, tm},
   expiring |-> FALSE, rotating |-> FALSE, maxOps |-> 2, maxFaults |-> 2, maxCrashes |-> 0]
RotatedLogin ==
  [ops |-> {"put", "delete"}, stored |-> StoredLogin, workers |-> {w1, tm}, expiring |-> FALSE,
   rotating |-> TRUE, maxOps |-> 1, maxFaults |-> 1, maxCrashes |-> 1]
LostImport ==
  [ops |-> {"delete", "import"}, stored |-> StoredLogin, workers |-> {w1, tm}, expiring |-> FALSE,
   rotating |-> FALSE, maxOps |-> 2, maxFaults |-> 1, maxCrashes |-> 1]
MCSetups == {Mutations, Logins, ExpiringLogin, Replacements, Failures, RotatedLogin, LostImport}

RaceSetups == {[Logins EXCEPT !.maxOps = 6]}
RebindSetups ==
  {[ops |-> LoginOps \cup {"delete"}, stored |-> StoredLogin, workers |-> {w1, tm},
    expiring |-> FALSE, rotating |-> FALSE, maxOps |-> 4, maxFaults |-> 1, maxCrashes |-> 0]}
=============================================================================
