-------------------------- MODULE CapabilityProofs --------------------------
(***************************************************************************)
(* Proofs about Capability: rotation never takes away a grant the client   *)
(* holds, a session carries its permission, and what is stored never gets  *)
(* ahead of what is published, which is never taken back, for any number   *)
(* of messengers and every overlap at least as long as a grant lives.      *)
(***************************************************************************)
EXTENDS Capability, TLAPS

-----------------------------------------------------------------------------
(* Type correctness *)

\* A job of the right type.
LEMMA Types ==
    ASSUME TypeOK
    PROVE  /\ now \in Nat /\ offset \in Int /\ ClientNow \in Int
           /\ \A p \in Process :
                /\ job[p].id \subseteq Id /\ job[p].supersedes \subseteq Id
                /\ job[p].permissions \subseteq Permission /\ job[p].grant \subseteq Grant
           /\ Latest \subseteq grants
           /\ \A i \in Id : Supersedes(i) \subseteq Id
           /\ FreshIds \subseteq Id /\ Material \subseteq Id
<1>1. now \in Nat /\ offset \in Int
    BY CapabilityAssumption DEF TypeOK
<1>2. Latest \subseteq grants
    BY DEF Latest
<1>3. \A g \in Latest : g.id \in Id /\ g.id.gen \in Nat
    BY <1>2 DEF TypeOK, Grant, Id
<1>4. \A i \in Id : Supersedes(i) \subseteq Id
    BY <1>3 DEF Supersedes
<1>5. FreshIds \subseteq Id
    BY <1>3 DEF FreshIds, Id, TypeOK
<1>6. Material \subseteq Id
    BY <1>3, <1>5 DEF Material, TypeOK
<1> QED BY <1>1, <1>2, <1>4, <1>5, <1>6 DEF TypeOK, ClientNow, Job

\* Only one process changes what it is doing at a time.
LEMMA JobTypes ==
    ASSUME TypeOK, NEW p \in Process, NEW j \in Job, Does(p, j)
    PROVE  job' \in [Process -> Job]
BY DEF Does, TypeOK

LEMMA TypesKept == TypeOK /\ [Next]_vars => TypeOK'
<1> SUFFICES ASSUME TypeOK, [Next]_vars PROVE TypeOK'
    OBVIOUS
<1> USE Types
<1>1. Publisher \in Process /\ Messenger \subseteq Process
    BY DEF Process
<1>2. Idle \in Job
    BY DEF Idle, Job
<1>3. CASE PublishLoad
    <2>1. PICK i \in FreshIds :
            Does(Publisher, [Idle EXCEPT !.pc = "loaded", !.id = {i}, !.permissions = Permission])
        BY <1>3 DEF PublishLoad
    <2>2. [Idle EXCEPT !.pc = "loaded", !.id = {i}, !.permissions = Permission] \in Job
        <3>1. {i} \in SUBSET Id
            BY <2>1
        <3> QED BY <3>1 DEF Idle, Job
    <2>3. job' \in [Process -> Job]
        BY <1>1, <2>1, <2>2, JobTypes
    <2> QED BY <1>3, <2>3 DEF PublishLoad, TypeOK
<1>14. CASE PublishAgain
    <2> DEFINE j == [Idle EXCEPT !.pc = "loaded", !.id = profile, !.permissions = Permission]
    <2>1. j \in Job
        BY DEF Idle, Job, TypeOK
    <2>2. job' \in [Process -> Job]
        BY <1>1, <1>14, <2>1, JobTypes DEF PublishAgain
    <2> QED BY <1>14, <2>2 DEF PublishAgain, TypeOK
<1>15. CASE Provision
    <2>1. PICK i \in Id :
            Does(Publisher, [Idle EXCEPT !.pc = "asked", !.id = {i}, !.permissions = Permission])
        <3>1. FreshIds \subseteq Id /\ {g.id : g \in Latest} \subseteq Id
            BY Types DEF Grant, TypeOK
        <3> QED BY <1>15, <3>1 DEF Provision
    <2>2. [Idle EXCEPT !.pc = "asked", !.id = {i}, !.permissions = Permission] \in Job
        <3>1. {i} \in SUBSET Id
            BY <2>1
        <3> QED BY <3>1 DEF Idle, Job
    <2>3. job' \in [Process -> Job]
        BY <1>1, <2>1, <2>2, JobTypes
    <2>4. salts' \in Nat
        BY <1>15 DEF Provision, TypeOK
    <2> QED BY <1>15, <2>3, <2>4 DEF Provision, TypeOK
<1>4. CASE PublishSave
    <2>1. job' \in [Process -> Job]
        BY <1>1, <1>4, JobTypes DEF PublishSave, TypeOK, Job
    <2> QED BY <1>1, <1>4, <2>1 DEF PublishSave, PublishedProfile, TypeOK
<1>5. CASE PublishAsk
    <2>1. PICK i \in job[Publisher].id :
            Does(Publisher, [job[Publisher] EXCEPT !.pc = "asked", !.supersedes = Supersedes(i)])
        BY <1>5 DEF PublishAsk
    <2>2. Supersedes(i) \in SUBSET Id
        BY <1>1, <2>1
    <2>3. [job[Publisher] EXCEPT !.pc = "asked", !.supersedes = Supersedes(i)] \in Job
        BY <1>1, <2>2 DEF TypeOK, Job
    <2>4. job' \in [Process -> Job]
        BY <1>1, <2>1, <2>3, JobTypes
    <2> QED BY <1>5, <2>4 DEF PublishAsk, TypeOK
<1>6. ASSUME NEW m \in Messenger, NEW permission \in Permission, UseStored(m, permission)
      PROVE  TypeOK'
    <2>1. PICK g \in Latest : Does(m, [Idle EXCEPT !.pc = "ready",
                                    !.permissions = {permission}, !.grant = {g}])
        BY <1>6 DEF UseStored
    <2>2. {permission} \in SUBSET Permission /\ {g} \in SUBSET Grant
        BY <2>1 DEF TypeOK
    <2>3. [Idle EXCEPT !.pc = "ready", !.permissions = {permission}, !.grant = {g}] \in Job
        BY <2>2 DEF Idle, Job
    <2>4. job' \in [Process -> Job]
        BY <1>1, <2>1, <2>3, JobTypes
    <2> QED BY <1>6, <2>4 DEF UseStored, TypeOK
<1>7. ASSUME NEW m \in Messenger, NEW permission \in Permission, Renew(m, permission)
      PROVE  TypeOK'
    <2>1. PICK i \in Material :
            Does(m, [Idle EXCEPT !.pc = "asked", !.id = {i}, !.supersedes = Supersedes(i),
                                 !.permissions = {permission}])
        BY <1>7 DEF Renew
    <2>2. /\ {permission} \in SUBSET Permission /\ {i} \in SUBSET Id
          /\ Supersedes(i) \in SUBSET Id
        BY <2>1
    <2>3. [Idle EXCEPT !.pc = "asked", !.id = {i}, !.supersedes = Supersedes(i),
                       !.permissions = {permission}] \in Job
        BY <2>2 DEF Idle, Job
    <2>4. job' \in [Process -> Job]
        BY <1>1, <2>1, <2>3, JobTypes
    <2> QED BY <1>7, <2>4 DEF Renew, TypeOK
<1>8. ASSUME NEW p \in Process, SaveGrant(p) PROVE TypeOK'
    <2>1. [job[p] EXCEPT !.pc = "ready"] \in Job
        BY DEF TypeOK, Job
    <2>2. job' \in [Process -> Job]
        BY <1>2, <1>8, <2>1, JobTypes DEF SaveGrant, Verified
    <2>3. PICK g \in job[p].grant : grants' = Saved(g)
        BY <1>8 DEF SaveGrant, Verified
    <2>4. grants' \subseteq Grant /\ \A h, k \in grants' : h.id.gen = k.id.gen => h = k
        BY <2>3 DEF Saved, TypeOK
    <2> QED BY <1>8, <2>2, <2>4 DEF SaveGrant, TypeOK, Verified
<1>9. ASSUME NEW p \in Process, Stop(p) PROVE TypeOK'
    <2>1. job' \in [Process -> Job]
        BY <1>2, <1>9, JobTypes DEF Stop
    <2> QED BY <1>9, <2>1 DEF Stop, TypeOK
<1>10. ASSUME NEW p \in Process, IssueRevoke(p) PROVE TypeOK'
    <2>1. PICK i \in job[p].id : Does(p, [job[p] EXCEPT !.pc = "revoked", !.grant =
              {[id |-> i, permissions |-> job[p].permissions, expires |-> now + GrantTtl]}])
        BY <1>10 DEF IssueRevoke, Issued
    <2>2. [id |-> i, permissions |-> job[p].permissions, expires |-> now + GrantTtl] \in Grant
        BY <2>1, CapabilityAssumption DEF Grant
    <2>3. [job[p] EXCEPT !.pc = "revoked", !.grant =
              {[id |-> i, permissions |-> job[p].permissions, expires |-> now + GrantTtl]}] \in Job
        BY <2>2 DEF TypeOK, Job
    <2>4. job' \in [Process -> Job]
        BY <2>1, <2>3, JobTypes
    <2>5. overlap' \subseteq Ending
        <3>1. now + Overlap \in Int /\ active \subseteq Id /\ overlap \subseteq Ending
            BY CapabilityAssumption DEF TypeOK
        <3>2. overlap' = Ended(job[p].supersedes)
            BY <1>10 DEF IssueRevoke, Issued
        <3> QED BY <3>1, <3>2 DEF Ended, Ending
    <2> QED BY <1>10, <2>4, <2>5 DEF IssueRevoke, TypeOK, Issued
<1>11. ASSUME NEW p \in Process, IssueRegister(p) PROVE TypeOK'
    <2>1. PICK g \in job[p].grant :
             IF now < g.expires
             THEN /\ active' = active \cup {g.id}
                  /\ overlap' = Reopened(g.id)
                  /\ Does(p, [job[p] EXCEPT !.pc = "answered"])
             ELSE Does(p, Idle) /\ UNCHANGED <<active, overlap>>
        BY <1>11 DEF IssueRegister, Verified
    <2>2. [job[p] EXCEPT !.pc = "answered"] \in Job
        BY DEF TypeOK, Job
    <2>3. job' \in [Process -> Job]
        BY <1>2, <2>1, <2>2, JobTypes
    <2>4. active' \subseteq Id /\ overlap' \subseteq Ending
        <3>1. g.id \in Id
            BY <2>1 DEF Grant
        <3> QED BY <2>1, <3>1 DEF Reopened, TypeOK
    <2> QED BY <1>11, <2>3, <2>4 DEF IssueRegister, TypeOK, Verified
<1>12. CASE Tick
    BY <1>12 DEF Tick, TypeOK
<1>13. CASE UNCHANGED vars
    BY <1>13 DEF vars, TypeOK
<1> QED BY <1>3, <1>14, <1>15, <1>4, <1>5, <1>6, <1>7, <1>8, <1>9, <1>10, <1>11, <1>12, <1>13 DEF Next

\* Every part of the state keeps its type, for every value of the constants.
THEOREM TypeCorrect == Spec => []TypeOK
<1>1. Init => TypeOK
    BY DEF Init, TypeOK, Idle, Job
<1> QED BY <1>1, TypesKept, PTL DEF Spec

-----------------------------------------------------------------------------
(* Rotation *)

\* A grant that is registered, and whose id, if it was superseded, ends no
\* earlier than the grant does.
Covered(g) == g.id \in active /\ \A e \in overlap : e.id = g.id => g.expires <= e.until

\* Of the grants in the client's hands or on their way all are young enough for
\* an overlap that begins now, and the held ones are covered already.
RotationInv ==
    /\ \A g \in grants : Covered(g) /\ g.expires <= now + GrantTtl
    /\ \A p \in Process : \A g \in job[p].grant :
         /\ g.expires <= now + GrantTtl
         /\ job[p].pc \in {"answered", "ready"} => Covered(g)
    /\ \A p \in Process : \A g, h \in job[p].grant : g = h

\* The grants of every job but one are as they were, when time only passes.
LEMMA OthersRotate ==
    ASSUME TypeOK, RotationInv, now' = now, grants' \subseteq grants,
           UNCHANGED <<active, overlap>>,
           NEW p \in Process, NEW j, Does(p, j),
           \A g \in j.grant : g.expires <= now + GrantTtl,
           \A g, h \in j.grant : g = h,
           j.pc \in {"answered", "ready"} => \A g \in j.grant : Covered(g)
    PROVE  RotationInv'
<1>1. \A q \in Process : job'[q] = IF q = p THEN j ELSE job[q]
    BY DEF Does, TypeOK
<1>2. \A g : Covered(g)' <=> Covered(g)
    BY DEF Covered
<1> QED BY <1>1, <1>2 DEF RotationInv

LEMMA RotationStep == TypeOK /\ TypeOK' /\ RotationInv /\ [Next]_vars => RotationInv'
<1> SUFFICES ASSUME TypeOK, TypeOK', RotationInv, [Next]_vars PROVE RotationInv'
    OBVIOUS
<1>1. Publisher \in Process /\ Messenger \subseteq Process /\ Idle.grant = {}
    BY DEF Process, Idle
<1>2. now \in Int /\ GrantTtl \in Int /\ Overlap \in Int /\ GrantTtl <= Overlap
    BY CapabilityAssumption, OverlapCoversGrants DEF TypeOK
<1>3. CASE PublishLoad
    BY <1>1, <1>3, OthersRotate DEF PublishLoad, Idle
<1>14. CASE PublishAgain
    BY <1>1, <1>14, OthersRotate DEF PublishAgain, Idle
<1>15. CASE Provision
    BY <1>1, <1>15, OthersRotate DEF Provision, Idle
<1>4. CASE PublishSave
    <2> DEFINE j == [job[Publisher] EXCEPT !.pc = "saved"]
    <2>1. Does(Publisher, j) /\ j.grant = job[Publisher].grant /\ j.pc = "saved"
        BY <1>1, <1>4 DEF PublishSave, TypeOK, Job
    <2> HIDE DEF j
    <2> QED BY <1>1, <1>4, <2>1, OthersRotate DEF PublishSave, RotationInv
<1>5. CASE PublishAsk
    <2>1. PICK i \in job[Publisher].id :
            Does(Publisher, [job[Publisher] EXCEPT !.pc = "asked", !.supersedes = Supersedes(i)])
        BY <1>5 DEF PublishAsk
    <2> DEFINE j == [job[Publisher] EXCEPT !.pc = "asked", !.supersedes = Supersedes(i)]
    <2>2. j.grant = job[Publisher].grant /\ j.pc = "asked"
        BY <1>1 DEF TypeOK, Job
    <2>3. Does(Publisher, j)
        BY <2>1
    <2> HIDE DEF j
    <2> QED BY <1>1, <1>5, <2>2, <2>3, OthersRotate DEF PublishAsk, RotationInv
<1>6. ASSUME NEW m \in Messenger, NEW permission \in Permission, UseStored(m, permission)
      PROVE  RotationInv'
    <2>1. PICK g \in Latest : Does(m, [Idle EXCEPT !.pc = "ready",
                                    !.permissions = {permission}, !.grant = {g}])
        BY <1>6 DEF UseStored
    <2>2. g \in grants
        BY <2>1 DEF Latest
    <2> DEFINE j == [Idle EXCEPT !.pc = "ready", !.permissions = {permission}, !.grant = {g}]
    <2>3. j.grant = {g} /\ Does(m, j)
        BY <2>1 DEF Idle
    <2> HIDE DEF j
    <2> QED BY <1>1, <1>6, <2>2, <2>3, OthersRotate DEF UseStored, RotationInv
<1>7. ASSUME NEW m \in Messenger, NEW permission \in Permission, Renew(m, permission)
      PROVE  RotationInv'
    BY <1>1, <1>7, OthersRotate DEF Renew, Idle
<1>8. ASSUME NEW p \in Process, SaveGrant(p) PROVE RotationInv'
    <2>1. PICK g \in job[p].grant : grants' = Saved(g)
        BY <1>8 DEF SaveGrant, Verified
    <2>2. Covered(g) /\ g.expires <= now + GrantTtl
        BY <1>8, <2>1 DEF SaveGrant, RotationInv, Verified
    <2>3. \A h \in grants' : Covered(h) /\ h.expires <= now + GrantTtl
        BY <2>1, <2>2 DEF Saved, RotationInv
    <2>4. UNCHANGED <<now, active, overlap>> /\ \A h : Covered(h)' <=> Covered(h)
        BY <1>8 DEF SaveGrant, Covered, Verified
    <2>5. ASSUME NEW q \in Process PROVE job'[q].grant = {} \/ job'[q].grant = job[q].grant
        BY <1>1, <1>8, <2>5 DEF SaveGrant, Does, TypeOK, Job, Verified
    <2>6. ASSUME NEW q \in Process, NEW h \in job'[q].grant
          PROVE  h \in job[q].grant /\ (job'[q].pc \in {"answered", "ready"}
                                            => job[q].pc \in {"answered", "ready"})
        BY <1>1, <1>8, <2>5, <2>6 DEF SaveGrant, Does, TypeOK, Job, Verified
    <2> QED BY <2>3, <2>4, <2>6 DEF RotationInv
<1>9. ASSUME NEW p \in Process, Stop(p) PROVE RotationInv'
    BY <1>1, <1>9, OthersRotate DEF Stop
<1>10. ASSUME NEW p \in Process, IssueRevoke(p) PROVE RotationInv'
    <2>1. PICK i \in job[p].id : Does(p, [job[p] EXCEPT !.pc = "revoked", !.grant =
              {[id |-> i, permissions |-> job[p].permissions, expires |-> now + GrantTtl]}])
        BY <1>10 DEF IssueRevoke, Issued
    <2>2. UNCHANGED <<now, active, grants>> /\ overlap' = Ended(job[p].supersedes)
        BY <1>10 DEF IssueRevoke, Issued
    <2>3. ASSUME NEW g \in Grant, Covered(g), g.expires <= now + GrantTtl PROVE Covered(g)'
        <3> SUFFICES ASSUME NEW e \in overlap', e.id = g.id PROVE g.expires <= e.until
            BY <2>2, <2>3 DEF Covered
        <3>1. CASE e \in overlap
            BY <2>3, <3>1 DEF Covered
        <3>2. CASE e.until = now + Overlap
            <4>1. g.expires \in Int
                BY DEF Grant
            <4> QED BY <1>2, <2>3, <3>2, <4>1
        <3> QED BY <2>2, <3>1, <3>2 DEF Ended
    <2>4. \A g \in grants' : Covered(g)' /\ g.expires <= now' + GrantTtl
        BY <2>2, <2>3 DEF RotationInv, TypeOK
    <2>5. /\ job'[p].pc = "revoked" /\ \A g \in job'[p].grant : g.expires <= now + GrantTtl
          /\ \A g, h \in job'[p].grant : g = h
          /\ \A q \in Process \ {p} : job'[q] = job[q]
        BY <1>2, <2>1 DEF Does, TypeOK, Job
    <2>6. \A q \in Process : job[q].grant \subseteq Grant
        BY Types
    <2>7. ASSUME NEW q \in Process, NEW g \in job'[q].grant
          PROVE  /\ g.expires <= now' + GrantTtl
                 /\ job'[q].pc \in {"answered", "ready"} => Covered(g)'
        BY <2>2, <2>3, <2>5, <2>6, <2>7 DEF RotationInv
    <2> QED BY <2>4, <2>5, <2>7 DEF RotationInv
<1>11. ASSUME NEW p \in Process, IssueRegister(p) PROVE RotationInv'
    <2>1. PICK g \in job[p].grant :
             IF now < g.expires
             THEN /\ active' = active \cup {g.id}
                  /\ overlap' = Reopened(g.id)
                  /\ Does(p, [job[p] EXCEPT !.pc = "answered"])
             ELSE Does(p, Idle) /\ UNCHANGED <<active, overlap>>
        BY <1>11 DEF IssueRegister, Verified
    <2>2. UNCHANGED <<now, grants>>
        BY <1>11 DEF IssueRegister, Verified
    <2>3. CASE ~(now < g.expires)
        BY <1>1, <2>1, <2>2, <2>3, OthersRotate
    <2>4. CASE now < g.expires
        <3>1. \A h : Covered(h) => Covered(h)'
            BY <2>1, <2>4 DEF Covered, Reopened
        <3>2. ASSUME NEW h \in job[p].grant PROVE h.id = g.id => Covered(h)'
            BY <2>1, <2>4 DEF Covered, Reopened
        <3>3. /\ job'[p].grant = job[p].grant
              /\ \A q \in Process \ {p} : job'[q] = job[q]
            BY <2>1, <2>4 DEF Does, TypeOK, Job
        <3>4. job[p].grant = {g}
            BY <2>1 DEF RotationInv
        <3> QED BY <2>2, <3>1, <3>2, <3>3, <3>4 DEF RotationInv
    <2> QED BY <2>3, <2>4
<1>12. CASE Tick
    <2>1. now' = now + 1 /\ UNCHANGED <<grants, job>> /\ \A g : Covered(g)' <=> Covered(g)
        BY <1>12 DEF Tick, Covered
    <2>2. ASSUME NEW g \in Grant, g.expires <= now + GrantTtl PROVE g.expires <= now' + GrantTtl
        BY <1>2, <2>1, <2>2 DEF Grant
    <2>3. \A q \in Process : job[q].grant \subseteq Grant
        BY Types
    <2> QED BY <2>1, <2>2, <2>3 DEF RotationInv, TypeOK
<1>13. CASE UNCHANGED vars
    BY <1>13 DEF vars, RotationInv, Covered
<1> QED BY <1>3, <1>14, <1>15, <1>4, <1>5, <1>6, <1>7, <1>8, <1>9, <1>10, <1>11, <1>12, <1>13 DEF Next
\* Until it expires a grant the client holds stays registered, whatever
\* publications, renewals, lost answers and restarts come in between
\* (revoke_with_overlap, register), if the overlap is as long as a grant lives.
THEOREM RotationKeepsGrants == Spec => []HeldGrantsRegistered
<1>1. Init => RotationInv
    BY DEF Init, RotationInv, Idle
<1>2. TypeOK /\ RotationInv => HeldGrantsRegistered
    <2> SUFFICES ASSUME TypeOK, RotationInv, NEW g \in Held, now < g.expires
                 PROVE  Registered(g.id)
        BY DEF HeldGrantsRegistered
    <2>1. Covered(g) /\ g \in Grant
        BY Types DEF Held, RotationInv, TypeOK
    <2>2. ASSUME NEW e \in overlap, e.id = g.id PROVE now < e.until
        <3>1. now \in Int /\ g.expires \in Int /\ e.until \in Int
            BY <2>1 DEF TypeOK, Grant, Ending
        <3>2. g.expires <= e.until
            BY <2>1, <2>2 DEF Covered
        <3> QED BY <3>1, <3>2
    <2> QED BY <2>1, <2>2 DEF Registered, Covered
<1> QED BY <1>1, <1>2, RotationStep, TypeCorrect, PTL DEF Spec

-----------------------------------------------------------------------------
(* Permissions *)

\* From its making a grant has the permissions of the job it is for.
PermissionInv ==
    \A m \in Messenger : \A g \in job[m].grant : job[m].permissions \subseteq g.permissions

LEMMA PermissionStep == TypeOK /\ PermissionInv /\ [Next]_vars => PermissionInv'
<1> SUFFICES ASSUME TypeOK, PermissionInv, [Next]_vars PROVE PermissionInv'
    OBVIOUS
<1>1. /\ Publisher \in Process /\ Publisher \notin Messenger /\ Messenger \subseteq Process
      /\ Process \ {Publisher} \subseteq Messenger /\ Idle.grant = {}
    BY CapabilityAssumption DEF Process, Idle
<1>2. ASSUME NEW p \in Process, NEW j, Does(p, j),
             p \in Messenger => \A g \in j.grant : j.permissions \subseteq g.permissions
      PROVE  PermissionInv'
    <2>1. \A q \in Process : job'[q] = IF q = p THEN j ELSE job[q]
        BY <1>2 DEF Does, TypeOK
    <2> QED BY <1>1, <1>2, <2>1 DEF PermissionInv
<1>3. CASE PublishLoad \/ PublishAgain \/ PublishSave \/ PublishAsk \/ Provision
    BY <1>1, <1>2, <1>3
    DEF PublishLoad, PublishAgain, PublishSave, PublishAsk, Provision
<1>4. ASSUME NEW m \in Messenger, NEW permission \in Permission, UseStored(m, permission)
      PROVE  PermissionInv'
    <2>1. PICK g \in Latest :
            /\ Usable(g, permission)
            /\ Does(m, [Idle EXCEPT !.pc = "ready", !.permissions = {permission}, !.grant = {g}])
        BY <1>4 DEF UseStored
    <2> DEFINE j == [Idle EXCEPT !.pc = "ready", !.permissions = {permission}, !.grant = {g}]
    <2>2. Does(m, j) /\ j.grant = {g} /\ j.permissions = {permission}
        BY <2>1 DEF Idle
    <2>3. permission \in g.permissions
        BY <2>1 DEF Usable
    <2> HIDE DEF j
    <2> QED BY <1>1, <1>2, <2>2, <2>3
<1>5. ASSUME NEW m \in Messenger, NEW permission \in Permission, Renew(m, permission)
      PROVE  PermissionInv'
    BY <1>1, <1>2, <1>5 DEF Renew, Idle
<1>6. ASSUME NEW p \in Process, SaveGrant(p) PROVE PermissionInv'
    <2>1. CASE p = Publisher
        BY <1>1, <1>2, <1>6, <2>1 DEF SaveGrant, Verified
    <2>2. CASE p # Publisher
        <3> DEFINE j == [job[p] EXCEPT !.pc = "ready"]
        <3>1. Does(p, j) /\ j.grant = job[p].grant /\ j.permissions = job[p].permissions
            BY <1>6, <2>2 DEF SaveGrant, TypeOK, Job, Verified
        <3> HIDE DEF j
        <3> QED BY <1>1, <1>2, <2>2, <3>1 DEF PermissionInv
    <2> QED BY <2>1, <2>2
<1>7. ASSUME NEW p \in Process, Stop(p) PROVE PermissionInv'
    BY <1>1, <1>2, <1>7 DEF Stop
<1>8. ASSUME NEW p \in Process, IssueRevoke(p) PROVE PermissionInv'
    <2>1. PICK i \in job[p].id : Does(p, [job[p] EXCEPT !.pc = "revoked", !.grant =
              {[id |-> i, permissions |-> job[p].permissions, expires |-> now + GrantTtl]}])
        BY <1>8 DEF IssueRevoke, Issued
    <2> DEFINE g == [id |-> i, permissions |-> job[p].permissions, expires |-> now + GrantTtl]
               j == [job[p] EXCEPT !.pc = "revoked", !.grant = {g}]
    <2>2. Does(p, j) /\ j.grant = {g} /\ j.permissions = g.permissions
        BY <2>1 DEF TypeOK, Job
    <2> HIDE DEF j, g
    <2> QED BY <1>2, <2>2
<1>9. ASSUME NEW p \in Process, IssueRegister(p) PROVE PermissionInv'
    <2>1. Does(p, [job[p] EXCEPT !.pc = "answered"]) \/ Does(p, Idle)
        BY <1>9 DEF IssueRegister, Verified
    <2> DEFINE j == [job[p] EXCEPT !.pc = "answered"]
    <2>2. j.grant = job[p].grant /\ j.permissions = job[p].permissions
        BY DEF TypeOK, Job
    <2>3. Does(p, j) \/ Does(p, Idle)
        BY <2>1
    <2> HIDE DEF j
    <2> QED BY <1>1, <1>2, <2>2, <2>3 DEF PermissionInv
<1>10. CASE Tick
    BY <1>10 DEF Tick, PermissionInv
<1>11. CASE UNCHANGED vars
    BY <1>11 DEF vars, PermissionInv
<1> QED BY <1>3, <1>4, <1>5, <1>6, <1>7, <1>8, <1>9, <1>10, <1>11 DEF Next

\* A messenger's session carries the permission it is for
\* (ensure_capability_session).
THEOREM SessionsPermit == Spec => []SessionPermits
<1>1. Init => PermissionInv
    BY DEF Init, PermissionInv, Idle, Process
<1>2. PermissionInv => SessionPermits
    BY DEF PermissionInv, SessionPermits
<1> QED BY <1>1, <1>2, PermissionStep, TypeCorrect, PTL DEF Spec

-----------------------------------------------------------------------------
(* Generations *)

\* No later than the published profile's, or than the first without one.
Within(i) == (profile = {} => i.gen <= 1) /\ \A k \in profile : i.gen <= k.gen

\* At most one later than a stored one.
InReach(i) == i.gen >= 1 /\ (i.gen = 1 \/ \E g \in grants : i.gen <= g.id.gen + 1)

\* What is stored, and all that is under way but a publication not saved yet,
\* is of no later generation than the profile.
HeldWithin ==
    /\ \A g \in grants : Within(g.id)
    /\ \A p \in Process :
         /\ \A g \in job[p].grant : Within(g.id)
         /\ job[p].pc # "loaded" => \A i \in job[p].id : Within(i)

\* The profile is at most one generation ahead of what is stored; a publication
\* not saved yet is no earlier.
ProfileInReach ==
    /\ profile = {} \/ \E i \in profile : profile = {i}
    /\ \A i \in profile : InReach(i)
    /\ \A m \in Messenger : job[m].pc # "loaded"
    /\ job[Publisher].pc = "loaded" =>
         \E i \in job[Publisher].id :
           /\ job[Publisher].id = {i} /\ InReach(i)
           /\ \A k \in profile : k.gen <= i.gen

GenerationInv == HeldWithin /\ ProfileInReach /\ (grants # {} => Latest # {})

\* What a step of one process keeps that changes neither the profile nor the store.
LEMMA GenerationsKept ==
    ASSUME TypeOK, GenerationInv, NEW p \in Process, NEW j, Does(p, j),
           UNCHANGED <<profile, grants>>, \A g \in j.grant : Within(g.id),
           \/ j.pc # "loaded" /\ \A i \in j.id : Within(i)
           \/ /\ p = Publisher /\ j.pc = "loaded"
              /\ \E i \in j.id : j.id = {i} /\ InReach(i) /\ \A k \in profile : k.gen <= i.gen
    PROVE  GenerationInv'
<1>0. Publisher \in Process /\ Publisher \notin Messenger /\ Messenger \subseteq Process
    BY CapabilityAssumption DEF Process
<1>1. \A q \in Process : job'[q] = IF q = p THEN j ELSE job[q]
    BY DEF Does, TypeOK
<1>2. \A i : (Within(i)' <=> Within(i)) /\ (InReach(i)' <=> InReach(i))
    BY DEF Within, InReach
<1>3. HeldWithin'
    <2>1. \A g \in grants' : Within(g.id)
        BY DEF GenerationInv, HeldWithin
    <2>2. \A q \in Process : /\ \A g \in job'[q].grant : Within(g.id)
                             /\ job'[q].pc # "loaded" => \A i \in job'[q].id : Within(i)
        BY <1>1 DEF GenerationInv, HeldWithin
    <2> QED BY <1>2, <2>1, <2>2 DEF HeldWithin
<1>4. ProfileInReach'
    <2>1. (profile = {} \/ \E i \in profile : profile = {i})'
          /\ \A i \in profile' : InReach(i)'
        BY <1>2 DEF GenerationInv, ProfileInReach
    <2>2. \A m \in Messenger : job'[m].pc # "loaded"
        BY <1>0, <1>1 DEF GenerationInv, ProfileInReach
    <2>3. job'[Publisher].pc = "loaded" =>
            \E i \in job'[Publisher].id :
               job'[Publisher].id = {i} /\ InReach(i) /\ \A k \in profile : k.gen <= i.gen
        BY <1>0, <1>1 DEF GenerationInv, ProfileInReach
    <2> QED BY <1>2, <2>1, <2>2, <2>3 DEF ProfileInReach
<1>5. (grants # {} => Latest # {})'
    BY DEF GenerationInv, Latest
<1> QED BY <1>3, <1>4, <1>5 DEF GenerationInv

\* What a process may draw or renew from is of a generation the profile covers;
\* what the publisher draws is of none before the profile's.
LEMMA DrawnGenerations ==
    ASSUME TypeOK, GenerationInv
    PROVE  /\ \A g \in Latest : Within(g.id)
           /\ \A i \in FreshIds : /\ InReach(i) /\ \A k \in profile : k.gen <= i.gen
                                  /\ Latest = {} => Within(i)
           /\ \A i \in Material : Within(i)
<1>1. /\ \A g \in grants : g.id.gen \in Nat /\ Within(g.id)
      /\ \A k \in profile : k.gen \in Nat /\ InReach(k)
      /\ profile = {} \/ \E i \in profile : profile = {i}
    BY DEF TypeOK, Grant, Id, GenerationInv, HeldWithin, ProfileInReach
<1>2. \A g \in Latest : g \in grants /\ \A h \in grants : h.id.gen <= g.id.gen
    BY DEF Latest
<1>3. Latest = {} => grants = {}
    BY DEF GenerationInv
<1>4. ASSUME NEW i \in FreshIds
      PROVE  /\ InReach(i) /\ \A k \in profile : k.gen <= i.gen
             /\ Latest = {} => Within(i)
    <2>1. CASE Latest = {}
        <3>1. i.gen = 1
            BY <2>1 DEF FreshIds
        <3>2. \A k \in profile : k.gen = 1
            BY <1>1, <1>3, <2>1 DEF InReach
        <3> QED BY <3>1, <3>2 DEF InReach, Within
    <2>2. CASE Latest # {}
        <3>1. PICK h \in Latest : i.gen = h.id.gen + 1
            BY <2>2 DEF FreshIds
        <3>2. InReach(i)
            BY <1>1, <1>2, <3>1 DEF InReach
        <3>3. ASSUME NEW k \in profile PROVE k.gen <= i.gen
            <4>1. CASE k.gen = 1
                BY <1>1, <1>2, <3>1, <4>1
            <4>2. CASE \E g \in grants : k.gen <= g.id.gen + 1
                BY <1>1, <1>2, <3>1, <4>2
            <4> QED BY <1>1, <4>1, <4>2 DEF InReach
        <3> QED BY <2>2, <3>2, <3>3
    <2> QED BY <2>1, <2>2
<1>5. ASSUME NEW i \in Material PROVE Within(i)
    <2>1. CASE profile # {}
        <3>1. profile = {i}
            BY <1>1, <2>1 DEF Material
        <3>2. i.gen <= i.gen
            BY <1>1, <3>1
        <3> QED BY <3>1, <3>2 DEF Within
    <2>2. CASE profile = {}
        BY <1>1, <1>2, <1>4, <2>2 DEF Material
    <2> QED BY <2>1, <2>2
<1> QED BY <1>1, <1>2, <1>4, <1>5

\* The publisher replaces the profile by one that is no earlier.
LEMMA PublishGenerations ==
    ASSUME TypeOK, GenerationInv, PublishSave
    PROVE  /\ GenerationInv'
           /\ \A i \in profile : \E k \in profile' : i.gen <= k.gen
<1>0. Publisher \in Process /\ Publisher \notin Messenger /\ Messenger \subseteq Process
    BY CapabilityAssumption DEF Process
<1>1. PICK i \in job[Publisher].id :
        job[Publisher].id = {i} /\ InReach(i) /\ \A k \in profile : k.gen <= i.gen
    BY DEF PublishSave, GenerationInv, ProfileInReach
<1>2. profile' = {i} /\ grants' = grants /\ Does(Publisher, [job[Publisher] EXCEPT !.pc = "saved"])
    BY <1>1 DEF PublishSave, PublishedProfile
<1>3. \A q \in Process :
        /\ job'[q].id = job[q].id /\ job'[q].grant = job[q].grant
        /\ job'[q].pc = IF q = Publisher THEN "saved" ELSE job[q].pc
    BY <1>2 DEF Does, TypeOK, Job
<1>4. /\ i.gen \in Nat /\ i.gen >= 1 /\ \A k \in profile : k.gen \in Nat
      /\ \A g \in grants : g.id.gen \in Nat
      /\ \A q \in Process : /\ \A g \in job[q].grant : g.id.gen \in Nat
                            /\ \A k \in job[q].id : k.gen \in Nat
    BY <1>0, <1>1, Types DEF TypeOK, InReach, Grant, Id
<1>5. ASSUME NEW k, k.gen \in Nat, Within(k) PROVE k.gen <= i.gen
    BY <1>1, <1>4, <1>5 DEF Within
<1>6. \A k : k.gen \in Nat /\ Within(k) => Within(k)'
    BY <1>2, <1>5 DEF Within
<1>7. HeldWithin'
    <2>1. \A g \in grants' : Within(g.id)'
        BY <1>2, <1>4, <1>6 DEF GenerationInv, HeldWithin
    <2>2. \A q \in Process : \A g \in job'[q].grant : Within(g.id)'
        BY <1>3, <1>4, <1>6 DEF GenerationInv, HeldWithin
    <2>3. ASSUME NEW q \in Process, job'[q].pc # "loaded", NEW k \in job'[q].id PROVE Within(k)'
        <3>1. CASE q = Publisher
            BY <1>1, <1>2, <1>3, <1>4, <2>3, <3>1 DEF Within
        <3>2. CASE q # Publisher
            BY <1>3, <1>4, <1>6, <2>3, <3>2 DEF GenerationInv, HeldWithin
        <3> QED BY <3>1, <3>2
    <2> QED BY <2>1, <2>2, <2>3 DEF HeldWithin
<1>8. ProfileInReach'
    <2>1. InReach(i)'
        BY <1>1, <1>2 DEF InReach
    <2> QED BY <1>0, <1>2, <1>3, <2>1 DEF GenerationInv, ProfileInReach
<1>9. (grants # {} => Latest # {})'
    BY <1>2 DEF GenerationInv, Latest
<1> QED BY <1>1, <1>2, <1>7, <1>8, <1>9 DEF GenerationInv

\* One row per generation: what is stored last does not lower the latest one.
LEMMA SavedGenerations ==
    ASSUME TypeOK, NEW g \in Grant, grants # {} => Latest # {}, grants' = Saved(g)
    PROVE  /\ Latest' # {}
           /\ \A h \in grants : \E k \in grants' : k.id.gen = h.id.gen
           /\ \A k \in grants' : k \in grants \/ k = g
<1>1. g \in grants' /\ g.id.gen \in Nat /\ \A h \in grants : h.id.gen \in Nat
    BY DEF Saved, TypeOK, Grant, Id
<1>2. \A h \in grants : h \in grants' \/ h.id.gen = g.id.gen
    BY DEF Saved
<1>3. \A k \in grants' : k \in grants \/ k = g
    BY DEF Saved
<1>4. Latest' # {}
    <2>1. CASE \A h \in grants : h.id.gen <= g.id.gen
        <3>1. g \in Latest'
            BY <1>1, <1>3, <2>1 DEF Latest
        <3> QED BY <3>1
    <2>2. CASE \E h \in grants : ~ (h.id.gen <= g.id.gen)
        <3>1. PICK h \in grants : \A x \in grants : x.id.gen <= h.id.gen
            BY <2>2 DEF Latest
        <3>2. h.id.gen > g.id.gen
            BY <1>1, <2>2, <3>1
        <3>3. h \in Latest'
            BY <1>1, <1>2, <1>3, <3>1, <3>2 DEF Latest
        <3> QED BY <3>3
    <2> QED BY <2>1, <2>2
<1> QED BY <1>1, <1>2, <1>3, <1>4

LEMMA SaveGrantGenerations ==
    ASSUME TypeOK, GenerationInv, NEW p \in Process, SaveGrant(p)
    PROVE  GenerationInv'
<1>0. Publisher \in Process /\ Publisher \notin Messenger /\ Messenger \subseteq Process
    BY CapabilityAssumption DEF Process
<1>1. PICK g \in job[p].grant : grants' = Saved(g)
    BY DEF SaveGrant, Verified
<1>2. g \in Grant /\ Within(g.id) /\ profile' = profile
    BY Types, <1>1 DEF SaveGrant, GenerationInv, HeldWithin, Verified
<1> DEFINE j == IF p = Publisher THEN Idle ELSE [job[p] EXCEPT !.pc = "ready"]
<1>3. /\ j.pc # "loaded" /\ j.id \subseteq job[p].id /\ j.grant \subseteq job[p].grant
    BY DEF TypeOK, Job, Idle
<1>4. Does(p, j) /\ job[p].pc # "loaded"
    BY DEF SaveGrant, Verified
<1> HIDE DEF j
<1>5. \A q \in Process : job'[q] = IF q = p THEN j ELSE job[q]
    BY <1>4 DEF Does, TypeOK
<1>6. \A i : Within(i)' <=> Within(i)
    BY <1>2 DEF Within
<1>7. /\ Latest' # {}
      /\ \A h \in grants : \E k \in grants' : k.id.gen = h.id.gen
      /\ \A k \in grants' : k \in grants \/ k = g
    BY <1>1, <1>2, SavedGenerations DEF GenerationInv
<1>8. \A i : InReach(i) => InReach(i)'
    BY <1>7 DEF InReach
<1>9. HeldWithin'
    <2>1. \A h \in grants' : Within(h.id)
        BY <1>2, <1>7 DEF GenerationInv, HeldWithin
    <2>2. \A q \in Process : /\ \A h \in job'[q].grant : Within(h.id)
                             /\ job'[q].pc # "loaded" => \A i \in job'[q].id : Within(i)
        BY <1>3, <1>4, <1>5 DEF GenerationInv, HeldWithin
    <2> QED BY <1>6, <2>1, <2>2 DEF HeldWithin
<1>10. ProfileInReach'
    <2>1. \A m \in Messenger : job'[m].pc # "loaded"
        BY <1>0, <1>3, <1>5 DEF GenerationInv, ProfileInReach
    <2>2. job'[Publisher].pc = "loaded" =>
            \E i \in job'[Publisher].id :
               job'[Publisher].id = {i} /\ InReach(i) /\ \A k \in profile : k.gen <= i.gen
        BY <1>0, <1>3, <1>5 DEF GenerationInv, ProfileInReach
    <2>3. (profile = {} \/ \E i \in profile : profile = {i}) /\ \A i \in profile : InReach(i)
        BY DEF GenerationInv, ProfileInReach
    <2> QED BY <1>2, <1>8, <2>1, <2>2, <2>3 DEF ProfileInReach
<1> QED BY <1>7, <1>9, <1>10 DEF GenerationInv

LEMMA GenerationStep ==
    ASSUME TypeOK, GenerationInv, [Next]_vars
    PROVE  /\ GenerationInv'
           /\ PublishSave \/ profile' = profile
<1>0. Publisher \in Process /\ Messenger \subseteq Process
    BY CapabilityAssumption DEF Process
<1>D. /\ \A g \in Latest : Within(g.id)
      /\ \A i \in FreshIds : /\ InReach(i) /\ \A k \in profile : k.gen <= i.gen
                             /\ Latest = {} => Within(i)
      /\ \A i \in Material : Within(i)
    BY DrawnGenerations
<1>I. Idle.pc # "loaded" /\ Idle.id = {} /\ Idle.grant = {}
    BY DEF Idle
<1>J. \A p \in Process : job[p] \in Job /\ \A g \in job[p].grant : Within(g.id)
    BY DEF TypeOK, GenerationInv, HeldWithin
<1>1. CASE PublishLoad
    <2>1. PICK i \in FreshIds :
            Does(Publisher, [Idle EXCEPT !.pc = "loaded", !.id = {i}, !.permissions = Permission])
        BY <1>1 DEF PublishLoad
    <2> DEFINE j == [Idle EXCEPT !.pc = "loaded", !.id = {i}, !.permissions = Permission]
    <2>2. Does(Publisher, j) /\ j.pc = "loaded" /\ j.id = {i} /\ j.grant = {}
        BY <2>1 DEF Idle
    <2>3. UNCHANGED <<profile, grants>>
        BY <1>1 DEF PublishLoad
    <2> HIDE DEF j
    <2> QED BY <1>0, <1>D, <2>2, <2>3, GenerationsKept
<1>2. CASE PublishAgain
    <2> DEFINE j == [Idle EXCEPT !.pc = "loaded", !.id = profile, !.permissions = Permission]
    <2>1. Does(Publisher, j) /\ j.pc = "loaded" /\ j.id = profile /\ j.grant = {}
        BY <1>2 DEF PublishAgain, Idle
    <2>2. UNCHANGED <<profile, grants>> /\ profile # {}
        BY <1>2 DEF PublishAgain
    <2>3. \E i \in profile : profile = {i} /\ InReach(i) /\ i.gen \in Nat
        BY <2>2 DEF GenerationInv, ProfileInReach, TypeOK, Id
    <2>4. \E i \in j.id : j.id = {i} /\ InReach(i) /\ \A k \in profile : k.gen <= i.gen
        BY <2>1, <2>3
    <2> HIDE DEF j
    <2> QED BY <1>0, <2>1, <2>2, <2>4, GenerationsKept
<1>3. CASE PublishSave
    BY <1>3, PublishGenerations
<1>4. CASE PublishAsk
    <2>1. PICK S : Does(Publisher, [job[Publisher] EXCEPT !.pc = "asked", !.supersedes = S])
        BY <1>4 DEF PublishAsk
    <2> DEFINE j == [job[Publisher] EXCEPT !.pc = "asked", !.supersedes = S]
    <2>2. Does(Publisher, j) /\ j.pc = "asked" /\ j.id = job[Publisher].id
          /\ j.grant = job[Publisher].grant
        BY <1>0, <1>J, <2>1 DEF Job
    <2>3. UNCHANGED <<profile, grants>> /\ job[Publisher].pc = "saved"
        BY <1>4 DEF PublishAsk
    <2>4. \A i \in job[Publisher].id : Within(i)
        BY <1>0, <2>3 DEF GenerationInv, HeldWithin
    <2> HIDE DEF j
    <2> QED BY <1>0, <1>J, <2>2, <2>3, <2>4, GenerationsKept
<1>5. CASE Provision
    <2>1. PICK i : /\ i \in IF Latest = {} THEN FreshIds ELSE {g.id : g \in Latest}
                   /\ Does(Publisher, [Idle EXCEPT !.pc = "asked", !.id = {i},
                                                   !.permissions = Permission])
        BY <1>5 DEF Provision
    <2> DEFINE j == [Idle EXCEPT !.pc = "asked", !.id = {i}, !.permissions = Permission]
    <2>2. Does(Publisher, j) /\ j.pc = "asked" /\ j.id = {i} /\ j.grant = {}
        BY <2>1 DEF Idle
    <2>3. UNCHANGED <<profile, grants>>
        BY <1>5 DEF Provision
    <2>4. Within(i)
        BY <1>D, <2>1
    <2> HIDE DEF j
    <2> QED BY <1>0, <2>2, <2>3, <2>4, GenerationsKept
<1>6. ASSUME NEW m \in Messenger, NEW permission \in Permission, UseStored(m, permission)
      PROVE  GenerationInv' /\ profile' = profile
    <2>1. PICK g \in Latest :
            Does(m, [Idle EXCEPT !.pc = "ready", !.permissions = {permission}, !.grant = {g}])
        BY <1>6 DEF UseStored
    <2> DEFINE j == [Idle EXCEPT !.pc = "ready", !.permissions = {permission}, !.grant = {g}]
    <2>2. Does(m, j) /\ j.pc = "ready" /\ j.id = {} /\ j.grant = {g}
        BY <2>1 DEF Idle
    <2>3. UNCHANGED <<profile, grants>>
        BY <1>6 DEF UseStored
    <2> HIDE DEF j
    <2> QED BY <1>0, <1>D, <2>2, <2>3, GenerationsKept
<1>7. ASSUME NEW m \in Messenger, NEW permission \in Permission, Renew(m, permission)
      PROVE  GenerationInv' /\ profile' = profile
    <2>1. PICK i \in Material :
            Does(m, [Idle EXCEPT !.pc = "asked", !.id = {i}, !.supersedes = Supersedes(i),
                                 !.permissions = {permission}])
        BY <1>7 DEF Renew
    <2> DEFINE j == [Idle EXCEPT !.pc = "asked", !.id = {i}, !.supersedes = Supersedes(i),
                                 !.permissions = {permission}]
    <2>2. Does(m, j) /\ j.pc = "asked" /\ j.id = {i} /\ j.grant = {}
        BY <2>1 DEF Idle
    <2>3. UNCHANGED <<profile, grants>>
        BY <1>7 DEF Renew
    <2> HIDE DEF j
    <2> QED BY <1>0, <1>D, <2>2, <2>3, GenerationsKept
<1>8. ASSUME NEW p \in Process, SaveGrant(p) PROVE GenerationInv' /\ profile' = profile
    BY <1>8, SaveGrantGenerations DEF SaveGrant, Verified
<1>9. ASSUME NEW p \in Process, Stop(p) PROVE GenerationInv' /\ profile' = profile
    BY <1>9, <1>I, GenerationsKept DEF Stop
<1>10. ASSUME NEW p \in Process, IssueRevoke(p) PROVE GenerationInv' /\ profile' = profile
    <2>1. PICK i \in job[p].id : Does(p, [job[p] EXCEPT !.pc = "revoked", !.grant =
              {[id |-> i, permissions |-> job[p].permissions, expires |-> now + GrantTtl]}])
        BY <1>10 DEF IssueRevoke, Issued
    <2> DEFINE g == [id |-> i, permissions |-> job[p].permissions, expires |-> now + GrantTtl]
               j == [job[p] EXCEPT !.pc = "revoked", !.grant = {g}]
    <2>2. Does(p, j) /\ j.pc = "revoked" /\ j.id = job[p].id /\ j.grant = {g} /\ g.id = i
        BY <1>J, <2>1 DEF Job
    <2>3. UNCHANGED <<profile, grants>> /\ job[p].pc = "asked"
        BY <1>10 DEF IssueRevoke, Issued
    <2>4. \A k \in job[p].id : Within(k)
        BY <2>3 DEF GenerationInv, HeldWithin
    <2> HIDE DEF j, g
    <2> QED BY <2>2, <2>3, <2>4, GenerationsKept
<1>11. ASSUME NEW p \in Process, IssueRegister(p) PROVE GenerationInv' /\ profile' = profile
    <2> DEFINE j == [job[p] EXCEPT !.pc = "answered"]
    <2>1. j.pc = "answered" /\ j.id = job[p].id /\ j.grant = job[p].grant
        BY <1>J DEF Job
    <2>2. UNCHANGED <<profile, grants>> /\ job[p].pc = "revoked"
        BY <1>11 DEF IssueRegister, Verified
    <2>3. Does(p, j) \/ Does(p, Idle)
        BY <1>11 DEF IssueRegister, Verified
    <2>4. \A k \in job[p].id : Within(k)
        BY <2>2 DEF GenerationInv, HeldWithin
    <2> HIDE DEF j
    <2> QED BY <1>I, <1>J, <2>1, <2>2, <2>3, <2>4, GenerationsKept
<1>12. CASE Tick \/ UNCHANGED vars
    BY <1>12 DEF Tick, vars, GenerationInv, HeldWithin, ProfileInReach, Within, InReach, Latest
<1> QED
    <2>1. CASE PublishSave
        BY <1>3, <2>1
    <2>2. CASE ~ PublishSave
        BY <1>1, <1>2, <1>4, <1>5, <1>6, <1>7, <1>8, <1>9, <1>10, <1>11, <1>12, <2>2
        DEF Next, PublishLoad, PublishAgain, PublishAsk, Provision, Tick, vars
    <2> QED BY <2>1, <2>2

LEMMA GenerationInit == Init => GenerationInv
BY CapabilityAssumption
DEF Init, GenerationInv, HeldWithin, ProfileInReach, Idle, Process

LEMMA GenerationInductive == TypeOK /\ GenerationInv /\ [Next]_vars => GenerationInv'
BY GenerationStep

\* What is renewed from the published profile is the grant in use, whatever was
\* lost or repeated (profile publish, capability_material_params).
THEOREM StoredNeverLater == Spec => []StoredFollowsProfile
<1>1. GenerationInv => StoredFollowsProfile
    BY DEF GenerationInv, HeldWithin, Within, StoredFollowsProfile
<1> QED BY <1>1, GenerationInit, GenerationInductive, TypeCorrect, PTL DEF Spec

\* No publication, not even one again after a lost answer, takes the published
\* generation back (enrich_descriptor_capabilities).
THEOREM PublishedNeverFalls == Spec => GenerationNeverFalls
<1>1. TypeOK /\ GenerationInv /\ [Next]_vars
        => [\A i \in profile : \E k \in profile' : i.gen <= k.gen]_vars
    <2> SUFFICES ASSUME TypeOK, GenerationInv, [Next]_vars
                 PROVE  \A i \in profile : \E k \in profile' : i.gen <= k.gen
        OBVIOUS
    <2>1. CASE PublishSave
        BY <2>1, PublishGenerations
    <2>2. CASE ~ PublishSave
        <3>1. profile' = profile
            BY <2>2, GenerationStep
        <3>2. \A i \in profile : i.gen <= i.gen
            BY DEF TypeOK, Id
        <3> QED BY <3>1, <3>2
    <2> QED BY <2>1, <2>2
<1> QED BY <1>1, GenerationInit, GenerationInductive, TypeCorrect, PTL
        DEF Spec, GenerationNeverFalls
=============================================================================
