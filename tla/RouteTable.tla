----------------------------- MODULE RouteTable -----------------------------
(* A table of proxy routes: the Vec<Route> of src/proxy/config.rs, the one *)
(* the daemon keeps behind its lock and the one config.json stores.  The    *)
(* order of routes decides only between two routes of one domain, so a      *)
(* table is a set.                                                          *)
CONSTANTS
  Domains,    \* domain patterns
  Upstreams   \* upstream texts

Route == [domain : Domains, upstream : Upstreams]

(* retain(|r| !domains.contains(&r.domain))                                *)
Without(table, domains) == {r \in table : r.domain \notin domains}

(* retain the other domains, then push (or extend with) the new routes     *)
Upsert(table, new) == Without(table, {r.domain : r \in new}) \cup new

(* What a request to the registry of routes does to it: the routes it asks  *)
(* for replace those of their domains, the domains it gives up lose theirs. *)
Apply(req, table) == Without(Upsert(table, req.new), req.gone)

(* One route per domain: what makes a lookup by domain unambiguous.        *)
Unambiguous(table) ==
  \A r, s \in table : r.domain = s.domain => r = s
=============================================================================
