---------------------------- MODULE MCCapability ----------------------------
(* Instances of Custody and Capability for TLC. *)
EXTENDS Capability, TLC

CONSTANTS u1, u2, u3, e1, e2, h1, h2, p1

OneApiHost == [p \in Providers |-> h1]

(* An adapter that calls nobody, and one with a site: the vendor's own, or   *)
(* the one a setting names.                                                  *)
SiteVendor == [svc \in Services |-> IF svc = "datadog" THEN h2 ELSE Nobody]

(* Two people and an administrator come and go around an entry, by removal   *)
(* and deletion, then by being disabled; and one of them edits the targets   *)
(* of another's entry.                                                       *)
Custodians ==
    [doors |-> {"create", "move", "ceiling", "claim", "restore", "role", "hard_delete",
                "member", "remove_member", "delete_collection"},
     people |-> {u2, u3}, roles |-> {"manager", "viewer"},
     rows |-> {e1}, hosts |-> {h1}, services |-> {"datadog"}, calls |-> 0]
Disabled ==
    [doors |-> {"create", "move", "rename", "claim", "restore", "role", "disable",
                "hard_delete", "member", "remove_member"},
     people |-> {u2, u3}, roles |-> {"manager", "viewer"},
     rows |-> {e1}, hosts |-> {h1}, services |-> {"manual"}, calls |-> 0]
Editors ==
    [doors |-> {"create", "ceiling", "provider", "targets", "wire", "claim", "disable",
                "hard_delete", "member", "remove_member", "purge", "legacy"},
     people |-> {u2}, roles |-> {"editor"},
     rows |-> {e1}, hosts |-> {h1}, services |-> {"datadog"}, calls |-> 0]

(* Two requests present a token for a secret while its issuer comes and goes. *)
Spenders ==
    [doors |-> {"create", "ceiling", "move", "delete", "wire",
                "disable", "member", "remove_member", "tokens"},
     people |-> {u2}, roles |-> {"manager", "viewer"},
     rows |-> {e1}, hosts |-> {h1}, services |-> {"manual"}, calls |-> 2]

(* A secret leaves on a token and by the other ways there are, from rows of  *)
(* before owners too, by the AI gateway, and as the bearer of another        *)
(* entry's delivery.                                                         *)
Proxied ==
    [doors |-> {"create", "ceiling", "provider", "claim", "hard_delete",
                "member", "remove_member", "legacy", "tokens"},
     people |-> {u2}, roles |-> {"manager"},
     rows |-> {e1}, hosts |-> {h1}, services |-> {"datadog"}, calls |-> 1]
Exits ==
    [doors |-> {"create", "provider", "delete", "targets", "claim",
                "member", "remove_member", "legacy", "exits"},
     people |-> {u2}, roles |-> {"manager"},
     rows |-> {e1}, hosts |-> {h1}, services |-> {"datadog"}, calls |-> 1]
Gateway ==
    [doors |-> {"create", "ceiling", "delete", "wire", "claim", "disable",
                "member", "remove_member", "legacy", "exits"},
     people |-> {u2}, roles |-> {"manager"},
     rows |-> {e1}, hosts |-> {h1}, services |-> {"manual"}, calls |-> 1]
Bearers ==
    [doors |-> {"create", "targets", "member", "exits"},
     people |-> {u2}, roles |-> {"viewer"},
     rows |-> {e1, e2}, hosts |-> {h1}, services |-> {"manual"}, calls |-> 1]
MCScenarios == {Custodians, Disabled, Editors, Spenders, Proxied, Exits, Gateway, Bearers}

Symmetry == Permutations({u2, u3}) \cup Permutations({e1, e2}) \cup Permutations(Requests)
=============================================================================
