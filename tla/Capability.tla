----------------------------- MODULE Capability -----------------------------
(***************************************************************************)
(* Relay capabilities: the grant registry of one relay and the client that *)
(* obtains, stores and rotates its grants there.  The client's processes   *)
(* share its database: those that post and fetch (Messenger) and the one   *)
(* in which its owner pairs with the relay's operator and publishes a      *)
(* profile, and so rotates the capability.                                 *)
(*                                                                         *)
(* A capability id is derived from a generation and a salt, so it is that  *)
(* pair; a grant is signed by the relay, so it is one the relay made.      *)
(* Time is counted in ticks of the relay's clock; the client's is a        *)
(* constant offset away from it.                                           *)
(***************************************************************************)
EXTENDS Integers

CONSTANTS
    Messenger,      \* processes of the client that post and fetch
    Publisher,      \* the one that pairs and runs profile publish
    GrantTtl,       \* DEFAULT_CAPABILITY_TTL_MS (24 h)
    Overlap,        \* DEFAULT_CAPABILITY_OVERLAP_MS (48 h)
    Margin,         \* a stored grant is used until this long before its end (60 s)
    Offset,         \* what the client's clock may be ahead of the relay's
    MaxSalts,       \* bound: salts drawn
    MaxTime         \* bound: the clock

ASSUME CapabilityAssumption ==
    /\ Publisher \notin Messenger
    /\ GrantTtl \in Nat /\ Overlap \in Nat /\ Margin \in Nat
    /\ MaxSalts \in Nat /\ MaxTime \in Nat /\ Offset \subseteq Int

\* The overlap of a superseded capability outlives its grants: 48 h and 24 h.
ASSUME OverlapCoversGrants == GrantTtl <= Overlap

Process == Messenger \cup {Publisher}
Permission == {"post", "fetch"}

\* derive_capability_material; CapabilityGrant; overlap_until_ms of an id.
Id == [gen : Nat, salt : Nat]
Grant == [id : Id, permissions : SUBSET Permission, expires : Int]
Ending == [id : Id, until : Int]

VARIABLES
    now,        \* the relay's clock
    offset,     \* how far the client's clock is ahead
    active,     \* ids in the registry
    overlap,    \* overlap_until_ms, where it is not NULL
    grants,     \* the client's table capability_grants
    profile,    \* generation and salt in the local profile, {} for none
    salts,      \* salts drawn
    job         \* [Process -> what the process is doing]

vars == <<now, offset, active, overlap, grants, profile, salts, job>>

Idle == [pc |-> "idle", id |-> {}, supersedes |-> {}, permissions |-> {}, grant |-> {}]
Job == [pc : {"idle", "loaded", "saved", "asked", "revoked", "answered", "ready"},
        id : SUBSET Id, supersedes : SUBSET Id, permissions : SUBSET Permission,
        grant : SUBSET Grant]

Init ==
    /\ now = 0 /\ offset \in Offset
    /\ active = {} /\ overlap = {}
    /\ grants = {} /\ profile = {} /\ salts = 0
    /\ job = [p \in Process |-> Idle]

-----------------------------------------------------------------------------
(* The client *)

ClientNow == now + offset

\* (slip) An expired grant is as good as none.
Latest_Unexpired ==
    LET live == {g \in grants : ClientNow < g.expires}
    IN  {g \in live : \A h \in live : h.id.gen <= g.id.gen}
\* load_capability_grant: the row of the highest generation.
Latest == {g \in grants : \A h \in grants : h.id.gen <= g.id.gen}

\* (slip) Every grant is kept, the primary key notwithstanding.
Saved_Beside(g) == grants \cup {g}
\* save_capability_grant: one row per generation.
Saved(g) == {h \in grants : h.id.gen # g.id.gen} \cup {g}

\* The stored id a grant for i supersedes: only one of an older generation.
Supersedes(i) == {g.id : g \in {h \in Latest : h.id.gen < i.gen}}

\* enrich_descriptor_capabilities: the generation after the stored one, a new salt.
FreshIds ==
    {[gen |-> g, salt |-> salts + 1] :
        g \in IF Latest = {} THEN {1} ELSE {h.id.gen + 1 : h \in Latest}}

\* capability_material_params: of the profile, else of the stored grant, else drawn.
MustDraw == profile = {} /\ Latest = {}
Material ==
    IF profile # {} THEN profile
    ELSE IF Latest # {} THEN {g.id : g \in Latest}
    ELSE FreshIds

\* (slip) A stored grant is used whatever it permits.
Usable_AnyPermission(g, permission) == g.expires > ClientNow + Margin
\* ensure_capability_session: the stored grant will do.
Usable(g, permission) == g.expires > ClientNow + Margin /\ permission \in g.permissions

Does(p, j) == job' = [job EXCEPT ![p] = j]

\* profile publish: the next generation and a fresh salt.
PublishLoad ==
    /\ job[Publisher].pc = "idle" /\ salts < MaxSalts
    /\ \E i \in FreshIds :
         Does(Publisher, [Idle EXCEPT !.pc = "loaded", !.id = {i}, !.permissions = Permission])
    /\ salts' = salts + 1
    /\ UNCHANGED <<now, offset, active, overlap, grants, profile>>

\* profile publish --no-bump-version: the material of the saved profile.
PublishAgain ==
    /\ job[Publisher].pc = "idle" /\ profile # {}
    /\ Does(Publisher, [Idle EXCEPT !.pc = "loaded", !.id = profile, !.permissions = Permission])
    /\ UNCHANGED <<now, offset, active, overlap, grants, profile, salts>>

\* (slip) A profile that is there keeps its generation.
PublishedProfile_First(id) == IF profile = {} THEN id ELSE profile
\* save_local_profile.
PublishedProfile(id) == id

PublishSave ==
    /\ job[Publisher].pc = "loaded"
    /\ profile' = PublishedProfile(job[Publisher].id)
    /\ Does(Publisher, [job[Publisher] EXCEPT !.pc = "saved"])
    /\ UNCHANGED <<now, offset, active, overlap, grants, salts>>

\* sync_profile_capability_grants, up to the request for the grant.
PublishAsk ==
    /\ job[Publisher].pc = "saved"
    /\ \E i \in job[Publisher].id :
         Does(Publisher, [job[Publisher] EXCEPT !.pc = "asked", !.supersedes = Supersedes(i)])
    /\ UNCHANGED <<now, offset, active, overlap, grants, profile, salts>>

\* try_provision_pairing_capabilities, after pairing with the relay's operator:
\* of the stored generation, which it does not supersede, else of a first one.
Provision ==
    /\ job[Publisher].pc = "idle"
    /\ Latest = {} => salts < MaxSalts
    /\ \E i \in IF Latest = {} THEN FreshIds ELSE {g.id : g \in Latest} :
         Does(Publisher, [Idle EXCEPT !.pc = "asked", !.id = {i}, !.permissions = Permission])
    /\ salts' = IF Latest = {} THEN salts + 1 ELSE salts
    /\ UNCHANGED <<now, offset, active, overlap, grants, profile>>

\* ensure_capability_session finds a grant in the database.
UseStored(m, permission) ==
    /\ job[m].pc = "idle"
    /\ \E g \in Latest :
         /\ Usable(g, permission)
         /\ Does(m, [Idle EXCEPT !.pc = "ready", !.permissions = {permission}, !.grant = {g}])
    /\ UNCHANGED <<now, offset, active, overlap, grants, profile, salts>>

\* ensure_capability_session asks for one, issue_capability_from_relay.
Renew(m, permission) ==
    /\ job[m].pc = "idle"
    /\ \A g \in Latest : ~Usable(g, permission)
    /\ MustDraw => salts < MaxSalts
    /\ \E i \in Material :
         Does(m, [Idle EXCEPT !.pc = "asked", !.id = {i}, !.supersedes = Supersedes(i),
                              !.permissions = {permission}])
    /\ salts' = IF MustDraw THEN salts + 1 ELSE salts
    /\ UNCHANGED <<now, offset, active, overlap, grants, profile>>

\* verify_capability_grant, at the time a clock shows.
Verified(g, clock) == clock < g.expires

\* The answer arrives and is stored; the publisher is done, a messenger, which
\* has the relay's key from its probe and checks the grant, goes on.
SaveGrant(p) ==
    /\ job[p].pc = "answered"
    /\ \E g \in job[p].grant :
         /\ p # Publisher => Verified(g, ClientNow)
         /\ grants' = Saved(g)
    /\ Does(p, IF p = Publisher THEN Idle ELSE [job[p] EXCEPT !.pc = "ready"])
    /\ UNCHANGED <<now, offset, active, overlap, profile, salts>>

\* The messenger is done with its grant; or the request or the answer is lost,
\* the relay dies over it, or the process does.
Stop(p) ==
    /\ job[p].pc # "idle"
    /\ Does(p, Idle)
    /\ UNCHANGED <<now, offset, active, overlap, grants, profile, salts>>

-----------------------------------------------------------------------------
(* The relay: its endpoints run in a pool of threads *)

\* (slip) A superseded id ends at once.
Ended_AtOnce(ids) ==
    {e \in overlap : e.id \notin ids \cap active}
        \cup {[id |-> i, until |-> now] : i \in ids \cap active}
\* revoke_with_overlap: nothing for an id that is not registered.
Ended(ids) ==
    {e \in overlap : e.id \notin ids \cap active}
        \cup {[id |-> i, until |-> now + Overlap] : i \in ids \cap active}

\* register: overlap_until_ms is NULL again.
Reopened(i) == {e \in overlap : e.id # i}

\* is_registered.  An id fixes its generation, so generations never differ.
Registered(i) == i \in active /\ \A e \in overlap : e.id = i => now < e.until

\* issue_capability_grant.
Issued(i, permissions) == [id |-> i, permissions |-> permissions, expires |-> now + GrantTtl]

\* issue_capability: the grant is made, the superseded id begins its overlap.
IssueRevoke(p) ==
    /\ job[p].pc = "asked"
    /\ \E i \in job[p].id :
         Does(p, [job[p] EXCEPT !.pc = "revoked", !.grant = {Issued(i, job[p].permissions)}])
    /\ overlap' = Ended(job[p].supersedes)
    /\ UNCHANGED <<now, offset, active, grants, profile, salts>>

\* issue_capability goes on with register: 400 if the grant expired meanwhile.
IssueRegister(p) ==
    /\ job[p].pc = "revoked"
    /\ \E g \in job[p].grant :
         IF Verified(g, now)
         THEN /\ active' = active \cup {g.id}
              /\ overlap' = Reopened(g.id)
              /\ Does(p, [job[p] EXCEPT !.pc = "answered"])
         ELSE Does(p, Idle) /\ UNCHANGED <<active, overlap>>
    /\ UNCHANGED <<now, offset, grants, profile, salts>>

Tick ==
    /\ now < MaxTime /\ now' = now + 1
    /\ UNCHANGED <<offset, active, overlap, grants, profile, salts, job>>

Next ==
    \/ PublishLoad \/ PublishAgain \/ PublishSave \/ PublishAsk \/ Provision \/ Tick
    \/ \E m \in Messenger, permission \in Permission :
         UseStored(m, permission) \/ Renew(m, permission)
    \/ \E p \in Process : SaveGrant(p) \/ Stop(p) \/ IssueRevoke(p) \/ IssueRegister(p)

Spec == Init /\ [][Next]_vars

-----------------------------------------------------------------------------
(* Properties *)

\* Every part of the state keeps its type; the database has one row per
\* generation, and so one latest grant.
TypeOK ==
    /\ now \in Nat /\ offset \in Offset
    /\ active \subseteq Id /\ overlap \subseteq Ending
    /\ grants \subseteq Grant /\ \A g, h \in grants : g.id.gen = h.id.gen => g = h
    /\ profile \subseteq Id /\ salts \in Nat
    /\ job \in [Process -> Job]

\* The grants the client has stored, or is about to store or to use.
Held ==
    grants \cup UNION {job[p].grant : p \in {q \in Process : job[q].pc \in {"answered", "ready"}}}

\* No rotation takes away what the client holds: until it expires a grant stays
\* registered, whatever publications, renewals with an older profile, lost
\* answers and restarts come in between (revoke_with_overlap, register).
HeldGrantsRegistered == \A g \in Held : now < g.expires => Registered(g.id)

\* A messenger's session carries the permission it is for: posts and fetches
\* renew one row in turn, each with its own permission only, and the publisher
\* with both (ensure_capability_session, save_capability_grant).
SessionPermits ==
    \A m \in Messenger : job[m].pc = "ready" =>
        \A g \in job[m].grant : job[m].permissions \subseteq g.permissions

\* The stored grant is never of a later generation than the published profile:
\* otherwise what is renewed from the profile would never be the grant in use
\* (profile publish, capability_material_params, load_capability_grant).
StoredFollowsProfile == \A i \in profile : \A g \in grants : g.id.gen <= i.gen

\* Publishing, even again after a lost answer, never takes the published
\* generation back (enrich_descriptor_capabilities).
GenerationNeverFalls ==
    [][\A i \in profile : \E k \in profile' : i.gen <= k.gen]_vars
=============================================================================
