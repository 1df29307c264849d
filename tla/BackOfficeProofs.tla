--------------------------- MODULE BackOfficeProofs ---------------------------
(***************************************************************************)
(* Proofs about the offices behind the counter, for any number of          *)
(* boutiques, invites, operators, credential sets, submissions of a week,  *)
(* publications, settings and appointment types.  One office's tables are  *)
(* no other's business, so each has its own inductive invariant.           *)
(***************************************************************************)
EXTENDS BackOffice, FiniteSetTheorems, WellFoundedInduction, TLAPS

----------------------------------------------------------------------------
(* The platform's administration. *)

\* An open request holds what its verb asks for; the operator it read is a row.
CallOK(c) ==
    /\ call[c].verb = "provision" => call[c].arg \in Slugs
    /\ call[c].verb = "redeem" => call[c].arg \in Invites
    /\ call[c].verb \in {"login", "deactivate"} =>
          call[c].arg \in Operators /\ operator[call[c].arg].status # "none"

\* A row not inserted yet is blank, and one that was has its address.
TenantOK(t) ==
    /\ tenant[t].status = "none" => tenant[t] = NoTenant
    /\ tenant[t].status # "none" => tenant[t].slug \in Slugs

InviteOK(i) ==
    /\ invite[i].status = "none" => invite[i] = NoInvite
    /\ invite[i].status # "none" => invite[i].slug \in Slugs

\* A session's operator has a row.
CookieOK(k) ==
    cookie[k].minted => cookie[k].of \in Operators /\ operator[cookie[k].of].status # "none"

PlatformInv ==
    /\ PlatformTypeOK
    /\ \A c \in Callers : CallOK(c)
    /\ \A t \in Tenants : TenantOK(t)
    /\ \A i \in Invites : InviteOK(i)
    /\ \A k \in Cookies : CookieOK(k)
    /\ OneBoutiquePerSlug
    /\ SpentMeansFounded

\* The console before anything was founded.
LEMMA InitPlatformInv == PlatformInit => PlatformInv
<1> SUFFICES ASSUME PlatformInit PROVE PlatformInv
  OBVIOUS
<1> USE PlatformAssumption DEF PlatformInit, PlatformAssumption, NoTenant, NoInvite, NoCall, NoOperator
<1>1. PlatformTypeOK
  BY DEF PlatformTypeOK, Tenant, PlatformInvite, PlatformOperator, TenantStatus
<1>2. OneBoutiquePerSlug /\ SpentMeansFounded
  BY DEF OneBoutiquePerSlug, SpentMeansFounded
<1> QED
  BY <1>1, <1>2 DEF PlatformInv, CallOK, TenantOK, InviteOK, CookieOK

\* A request is opened: the tables stay, and so does what the others hold.
LEMMA AskKeeps ==
    ASSUME PlatformInv, NEW c \in Callers,
           NEW verb \in {"provision", "redeem", "login", "deactivate"}, NEW arg, Ask(c, verb, arg),
           \/ verb = "provision" /\ arg \in Slugs
           \/ verb = "redeem" /\ arg \in Invites
           \/ verb \in {"login", "deactivate"} /\ arg \in Operators /\ operator[arg].status # "none"
    PROVE  PlatformInv'
<1> USE DEF PlatformInv, Ask
<1>1. PlatformTypeOK'
  BY DEF PlatformTypeOK
<1>2. \A d \in Callers : CallOK(d)'
  BY DEF CallOK, PlatformTypeOK
<1>3. (\A t \in Tenants : TenantOK(t)') /\ (\A i \in Invites : InviteOK(i)') /\ (\A k \in Cookies : CookieOK(k)')
  BY DEF TenantOK, InviteOK, CookieOK
<1>4. OneBoutiquePerSlug' /\ SpentMeansFounded'
  BY DEF OneBoutiquePerSlug, SpentMeansFounded
<1> QED
  BY <1>1, <1>2, <1>3, <1>4

\* A request that ends leaves the others as they are.
LEMMA AnswerKeeps ==
    ASSUME PlatformInv, NEW c \in Callers, NEW verb, Answer(c, verb),
           \A o \in Operators : operator[o].status # "none" => operator'[o].status # "none"
    PROVE  /\ call' \in [Callers -> [verb : {"none", "provision", "redeem", "login", "deactivate"},
                                     arg : Slugs \union Invites \union Operators \union {NoOne}]]
           /\ \A d \in Callers : CallOK(d)'
BY DEF PlatformInv, PlatformTypeOK, Answer, NoCall, CallOK

\* A boutique is founded at a free address, in a fresh row.
LEMMA FoundingKeeps ==
    ASSUME PlatformInv, NEW t \in Tenants, tenant[t].status = "none", NEW s \in Slugs,
           ~slug_taken(s), NEW i \in Invites \union {NoOne}, create_tenant(t, s, i)
    PROVE  /\ tenant' \in [Tenants -> Tenant]
           /\ \A u \in Tenants : TenantOK(u)'
           /\ OneBoutiquePerSlug'
           /\ \A u \in Tenants : u # t => tenant'[u] = tenant[u]
           /\ tenant'[t].invite = i /\ tenant'[t].slug = s
           /\ tenant[t].invite = NoOne
<1> USE PlatformAssumption DEF PlatformAssumption, PlatformInv, PlatformTypeOK, create_tenant, Tenant, TenantStatus, TenantOK, NoTenant
<1>1. tenant' \in [Tenants -> Tenant]
  OBVIOUS
<1>2. \A u \in Tenants : TenantOK(u)'
  OBVIOUS
<1>3. OneBoutiquePerSlug'
  BY DEF OneBoutiquePerSlug, slug_taken
<1> QED
  BY <1>1, <1>2, <1>3

\* Each of the console's and the shell's moves keeps the tables in order.
LEMMA PlatformStep == PlatformInv /\ PlatformNext => PlatformInv'
<1> SUFFICES ASSUME PlatformInv, PlatformNext PROVE PlatformInv'
  OBVIOUS
<1> USE PlatformAssumption DEF PlatformAssumption
<1>1. ASSUME NEW c \in Callers, provision(c) PROVE PlatformInv'
  <2> DEFINE s == call[c].arg
  <2>0. s \in Slugs /\ UNCHANGED <<invite, operator, cookie>> /\ Answer(c, "provision")
    BY <1>1 DEF provision, Answer, PlatformInv, CallOK
  <2>1. CASE UNCHANGED tenant
    BY <2>0, <2>1, AnswerKeeps
       DEF PlatformInv, PlatformTypeOK, TenantOK, InviteOK, CookieOK, OneBoutiquePerSlug, SpentMeansFounded
  <2>2. CASE ~slug_taken(s) /\ \E t \in Tenants : tenant[t].status = "none" /\ create_tenant(t, s, NoOne)
    <3>1. PICK t \in Tenants : tenant[t].status = "none" /\ create_tenant(t, s, NoOne)
      BY <2>2
    <3>2. /\ tenant' \in [Tenants -> Tenant] /\ (\A u \in Tenants : TenantOK(u)') /\ OneBoutiquePerSlug'
          /\ (\A u \in Tenants : u # t => tenant'[u] = tenant[u])
          /\ tenant'[t].invite = NoOne /\ tenant[t].invite = NoOne
      BY <2>0, <2>2, <3>1, FoundingKeeps
    <3>3. SpentMeansFounded'
      BY <2>0, <3>2, SMTT(30) DEF PlatformInv, SpentMeansFounded, PlatformTypeOK, PlatformInvite
    <3> QED
      BY <2>0, <3>2, <3>3, AnswerKeeps DEF PlatformInv, PlatformTypeOK, InviteOK, CookieOK
  <2> QED
    BY <1>1, <2>1, <2>2 DEF provision
<1>2. ASSUME NEW c \in Callers, redeem_invite(c) PROVE PlatformInv'
  <2> DEFINE i == call[c].arg
  <2>0. i \in Invites /\ UNCHANGED <<operator, cookie>> /\ Answer(c, "redeem")
    BY <1>2 DEF redeem_invite, Answer, PlatformInv, CallOK
  <2>1. CASE UNCHANGED <<invite, tenant>>
    BY <2>0, <2>1, AnswerKeeps
       DEF PlatformInv, PlatformTypeOK, TenantOK, InviteOK, CookieOK, OneBoutiquePerSlug, SpentMeansFounded
  <2>2. CASE \E t \in Tenants : /\ tenant[t].status = "none" /\ claim(i) /\ ~slug_taken(invite[i].slug)
                                /\ invite' = [invite EXCEPT ![i].redeemed = t]
                                /\ create_tenant(t, invite[i].slug, i)
    <3>1. PICK t \in Tenants : /\ tenant[t].status = "none" /\ claim(i) /\ ~slug_taken(invite[i].slug)
                               /\ invite' = [invite EXCEPT ![i].redeemed = t]
                               /\ create_tenant(t, invite[i].slug, i)
      BY <2>2
    <3>2. invite[i].slug \in Slugs /\ invite[i].redeemed = NoOne /\ invite[i].status = "open"
      BY <2>0, <3>1 DEF claim, redeemable, PlatformInv, InviteOK
    <3>3. /\ tenant' \in [Tenants -> Tenant] /\ (\A u \in Tenants : TenantOK(u)') /\ OneBoutiquePerSlug'
          /\ (\A u \in Tenants : u # t => tenant'[u] = tenant[u])
          /\ tenant'[t].invite = i /\ tenant'[t].slug = invite[i].slug /\ tenant[t].invite = NoOne
      BY <2>0, <3>1, <3>2, FoundingKeeps
    <3>4. /\ invite' \in [Invites -> PlatformInvite]
          /\ invite'[i].redeemed = t /\ invite'[i].slug = invite[i].slug /\ invite'[i].status = "open"
          /\ \A j \in Invites : j # i => invite'[j] = invite[j]
      BY <2>0, <3>1, <3>2 DEF PlatformInv, PlatformTypeOK, PlatformInvite
    <3>5. SpentMeansFounded'
      BY <2>0, <3>2, <3>3, <3>4, SMTT(30) DEF PlatformInv, SpentMeansFounded, PlatformTypeOK, PlatformInvite, Tenant
    <3>6. \A j \in Invites : InviteOK(j)'
      BY <2>0, <3>2, <3>4 DEF PlatformInv, InviteOK
    <3> QED
      BY <2>0, <3>3, <3>4, <3>5, <3>6, AnswerKeeps DEF PlatformInv, PlatformTypeOK, CookieOK
  <2> QED
    BY <1>2, <2>1, <2>2 DEF redeem_invite, rolled_back
<1>3. ASSUME NEW c \in Callers, login(c) PROVE PlatformInv'
  <2> DEFINE o == call[c].arg
  <2>0. o \in Operators /\ operator[o].status # "none" /\ UNCHANGED <<tenant, invite, operator>> /\ Answer(c, "login")
    BY <1>3 DEF login, Answer, PlatformInv, CallOK
  <2>1. PICK k \in Cookies : cookie' = [cookie EXCEPT ![k] = [minted |-> TRUE, live |-> TRUE, of |-> o]]
    BY <1>3 DEF login, sessions_insert
  <2>2. (\A l \in Cookies : CookieOK(l)')
        /\ cookie' \in [Cookies -> [minted : BOOLEAN, live : BOOLEAN, of : Operators \union {NoOne}]]
    BY <2>0, <2>1 DEF PlatformInv, PlatformTypeOK, CookieOK
  <2> QED
    BY <2>0, <2>2, AnswerKeeps
       DEF PlatformInv, PlatformTypeOK, TenantOK, InviteOK, OneBoutiquePerSlug, SpentMeansFounded
<1>4. ASSUME NEW c \in Callers, deactivate_operator(c) PROVE PlatformInv'
  <2> DEFINE o == call[c].arg
  <2>0. o \in Operators /\ UNCHANGED <<tenant, invite>> /\ Answer(c, "deactivate")
    BY <1>4 DEF deactivate_operator, Answer, PlatformInv, CallOK
  <2>1. /\ operator' = [operator EXCEPT ![o].status = "gone"]
        /\ cookie' = [k \in Cookies |-> [cookie[k] EXCEPT !.live = @ /\ cookie[k].of # o]]
    BY <1>4 DEF deactivate_operator, operators_soft_delete, revoke_all_for_operator
  <2>2. /\ operator' \in [Operators -> PlatformOperator]
        /\ \A p \in Operators : operator[p].status # "none" => operator'[p].status # "none"
    BY <2>0, <2>1, SMTT(30) DEF PlatformInv, PlatformTypeOK, PlatformOperator
  <2>3. \A k \in Cookies :
           /\ cookie'[k] = [cookie[k] EXCEPT !.live = cookie[k].live /\ cookie[k].of # o]
           /\ cookie[k] \in [minted : BOOLEAN, live : BOOLEAN, of : Operators \union {NoOne}]
           /\ (cookie[k].live /\ cookie[k].of # o) \in BOOLEAN
    BY <2>1 DEF PlatformInv, PlatformTypeOK
  <2>4. \A k \in Cookies : CookieOK(k)'
    <3> SUFFICES ASSUME NEW k \in Cookies PROVE CookieOK(k)'
      OBVIOUS
    <3>1. cookie'[k].minted = cookie[k].minted /\ cookie'[k].of = cookie[k].of
      BY <2>3
    <3> QED
      BY <2>2, <3>1 DEF PlatformInv, CookieOK
  <2>5. cookie' \in [Cookies -> [minted : BOOLEAN, live : BOOLEAN, of : Operators \union {NoOne}]]
    <3>1. DOMAIN cookie' = Cookies /\ cookie' = [k \in Cookies |-> cookie'[k]]
      BY <2>1
    <3>2. ASSUME NEW k \in Cookies
          PROVE  cookie'[k] \in [minted : BOOLEAN, live : BOOLEAN, of : Operators \union {NoOne}]
      <4> DEFINE live == cookie[k].live /\ cookie[k].of # o
      <4>1. live \in BOOLEAN /\ cookie'[k] = [cookie[k] EXCEPT !.live = live]
        BY <2>3
      <4> HIDE DEF live
      <4> QED
        BY <2>3, <4>1
    <3> QED
      BY <3>1, <3>2
  <2> QED
    BY <2>0, <2>2, <2>4, <2>5, AnswerKeeps
       DEF PlatformInv, PlatformTypeOK, TenantOK, InviteOK, OneBoutiquePerSlug, SpentMeansFounded
<1>5. ASSUME NEW c \in Callers, NEW s \in Slugs, provision_read(c, s) PROVE PlatformInv'
  BY <1>5, AskKeeps DEF provision_read
<1>6. ASSUME NEW c \in Callers, NEW i \in Invites, redeem_read(c, i) PROVE PlatformInv'
  BY <1>6, AskKeeps DEF redeem_read
<1>7. ASSUME NEW c \in Callers, NEW o \in Operators, login_read(c, o) \/ deactivate_read(c, o) PROVE PlatformInv'
  BY <1>7, AskKeeps DEF login_read, deactivate_read, by_id
<1>8. ASSUME NEW s \in Slugs, suspend(s) PROVE PlatformInv'
  <2>1. PICK t \in Tenants : tenant[t].status = "active" /\ tenant' = [tenant EXCEPT ![t].status = "suspended"]
    BY <1>8 DEF suspend, by_slug
  <2>2. UNCHANGED <<invite, operator, cookie, call>>
    BY <1>8 DEF suspend
  <2>3. /\ tenant' \in [Tenants -> Tenant]
        /\ \A u \in Tenants : /\ tenant'[u].slug = tenant[u].slug /\ tenant'[u].invite = tenant[u].invite
                              /\ tenant'[u].status = "none" => tenant'[u] = tenant[u]
                              /\ tenant'[u].status = "none" <=> tenant[u].status = "none"
    BY <2>1 DEF PlatformInv, PlatformTypeOK, Tenant, TenantStatus
  <2>4. \A u \in Tenants : TenantOK(u)'
    BY <2>3 DEF PlatformInv, TenantOK
  <2>5. OneBoutiquePerSlug' /\ SpentMeansFounded'
    <3>1. OneBoutiquePerSlug'
      BY <2>2, <2>3 DEF PlatformInv, OneBoutiquePerSlug
    <3>2. \A i \in Invites : invite[i].redeemed \in Tenants \union {NoOne}
      BY DEF PlatformInv, PlatformTypeOK, PlatformInvite
    <3> QED
      BY <2>2, <2>3, <3>1, <3>2 DEF PlatformInv, SpentMeansFounded
  <2> QED
    BY <2>2, <2>3, <2>4, <2>5 DEF PlatformInv, PlatformTypeOK, CallOK, InviteOK, CookieOK
<1>9. ASSUME NEW s \in Slugs, NEW i \in Invites, create_invite(i, s) PROVE PlatformInv'
  <2>1. /\ invite[i] = NoInvite /\ UNCHANGED <<tenant, operator, cookie, call>>
        /\ invite' = [invite EXCEPT ![i] = [NoInvite EXCEPT !.status = "open", !.slug = s]]
    BY <1>9 DEF create_invite, invites_insert, PlatformInv, InviteOK
  <2> DEFINE row == [NoInvite EXCEPT !.status = "open", !.slug = s]
  <2>0. row \in PlatformInvite /\ row.status = "open" /\ row.slug = s /\ row.redeemed = NoOne
    <3>1. NoInvite \in PlatformInvite /\ NoInvite.redeemed = NoOne
      BY DEF NoInvite, PlatformInvite
    <3> QED
      BY <3>1 DEF PlatformInvite
  <2>2. /\ invite' \in [Invites -> PlatformInvite]
        /\ invite'[i].redeemed = NoOne /\ invite[i].redeemed = NoOne
        /\ invite'[i].status = "open" /\ invite'[i].slug = s
        /\ \A j \in Invites : j # i => invite'[j] = invite[j]
    <3>1. invite' = [invite EXCEPT ![i] = row]
      BY <2>1
    <3>2. invite[i].redeemed = NoOne
      BY <2>1 DEF NoInvite
    <3>3. invite \in [Invites -> PlatformInvite]
      BY DEF PlatformInv, PlatformTypeOK
    <3> HIDE DEF row
    <3> QED
      BY <2>0, <3>1, <3>2, <3>3
  <2>3. \A j \in Invites : InviteOK(j)'
    BY <2>2 DEF PlatformInv, InviteOK
  <2>4. SpentMeansFounded'
    BY <2>1, <2>2 DEF PlatformInv, SpentMeansFounded, PlatformTypeOK, Tenant
  <2> QED
    BY <2>1, <2>2, <2>3, <2>4 DEF PlatformInv, PlatformTypeOK, CallOK, TenantOK, CookieOK, OneBoutiquePerSlug
<1>10. ASSUME NEW i \in Invites, revoke_invite(i) \/ InviteExpires(i) PROVE PlatformInv'
  <2>1. UNCHANGED <<tenant, operator, cookie, call>>
    BY <1>10 DEF revoke_invite, InviteExpires
  <2>2. /\ invite' \in [Invites -> PlatformInvite]
        /\ invite[i].status # "none" /\ invite'[i].status # "none"
        /\ invite'[i].redeemed = invite[i].redeemed /\ invite'[i].slug = invite[i].slug
        /\ \A j \in Invites : j # i => invite'[j] = invite[j]
    <3>1. invite \in [Invites -> PlatformInvite]
      BY DEF PlatformInv, PlatformTypeOK
    <3>2. CASE invite[i].status # "none" /\ invite' = [invite EXCEPT ![i].deleted = TRUE]
      BY <3>1, <3>2 DEF PlatformInvite
    <3>3. CASE invite[i].status = "open" /\ invite' = [invite EXCEPT ![i].status = "expired"]
      BY <3>1, <3>3 DEF PlatformInvite
    <3> QED
      BY <1>10, <3>2, <3>3 DEF revoke_invite, InviteExpires, invites_soft_delete
  <2>3. \A j \in Invites : InviteOK(j)'
    BY <2>2 DEF PlatformInv, InviteOK
  <2>4. SpentMeansFounded'
    <3>1. \A t \in Tenants : tenant[t].invite \in Invites \union {NoOne}
      BY DEF PlatformInv, PlatformTypeOK, Tenant
    <3>2. \A j \in Invites : invite'[j].redeemed = invite[j].redeemed /\ invite'[j].slug = invite[j].slug
      BY <2>2
    <3> QED
      BY <2>1, <3>1, <3>2 DEF PlatformInv, SpentMeansFounded
  <2> QED
    BY <2>1, <2>2, <2>3, <2>4 DEF PlatformInv, PlatformTypeOK, CallOK, TenantOK, CookieOK, OneBoutiquePerSlug
<1>11. ASSUME NEW o \in Operators, NEW e \in Emails, create_operator(o, e) PROVE PlatformInv'
  <2>1. /\ UNCHANGED <<tenant, invite, cookie, call>>
        /\ operator' = [operator EXCEPT ![o] = [status |-> "active", email |-> e]]
    BY <1>11 DEF create_operator, operators_insert
  <2>2. /\ operator' \in [Operators -> PlatformOperator]
        /\ \A p \in Operators : operator[p].status # "none" => operator'[p].status # "none"
    BY <2>1 DEF PlatformInv, PlatformTypeOK, PlatformOperator
  <2> QED
    BY <2>1, <2>2
       DEF PlatformInv, PlatformTypeOK, CallOK, TenantOK, InviteOK, CookieOK, OneBoutiquePerSlug, SpentMeansFounded
<1>12. ASSUME NEW k \in Cookies, logout(k) PROVE PlatformInv'
  <2>1. /\ UNCHANGED <<tenant, invite, operator, call>>
        /\ cookie' = [cookie EXCEPT ![k].live = FALSE]
    BY <1>12 DEF logout
  <2>2. /\ cookie' \in [Cookies -> [minted : BOOLEAN, live : BOOLEAN, of : Operators \union {NoOne}]]
        /\ \A l \in Cookies : CookieOK(l)'
    <3>1. cookie \in [Cookies -> [minted : BOOLEAN, live : BOOLEAN, of : Operators \union {NoOne}]]
      BY DEF PlatformInv, PlatformTypeOK
    <3>2. \A l \in Cookies : cookie'[l].minted = cookie[l].minted /\ cookie'[l].of = cookie[l].of
      BY <2>1, <3>1
    <3>3. \A l \in Cookies : CookieOK(l)'
      BY <2>1, <3>2 DEF PlatformInv, CookieOK
    <3> QED
      BY <2>1, <3>1, <3>3
  <2> QED
    BY <2>1, <2>2
       DEF PlatformInv, PlatformTypeOK, CallOK, TenantOK, InviteOK, OneBoutiquePerSlug, SpentMeansFounded
<1> QED
  BY <1>1, <1>2, <1>3, <1>4, <1>5, <1>6, <1>7, <1>8, <1>9, <1>10, <1>11, <1>12 DEF PlatformNext

\* No move of the platform gives a dead invite a boutique, or a dead cookie the
\* console.
LEMMA DeadStayDead ==
    PlatformInv /\ PlatformNext => DeadInviteFoundsNothing /\ DeadCookieStaysDead
<1> SUFFICES ASSUME PlatformInv, PlatformNext PROVE DeadInviteFoundsNothing /\ DeadCookieStaysDead
  OBVIOUS
<1>1. DeadInviteFoundsNothing
  <2> SUFFICES ASSUME NEW i \in Invites, invite[i].deleted \/ invite[i].status = "expired",
                      invite'[i] # invite[i]
               PROVE  invite'[i].redeemed = invite[i].redeemed
    BY DEF DeadInviteFoundsNothing
  <2>1. invite \in [Invites -> PlatformInvite] /\ (invite[i].status = "none" => invite[i] = NoInvite)
    BY DEF PlatformInv, PlatformTypeOK, InviteOK
  <2>2. ASSUME NEW c \in Callers, redeem_invite(c) PROVE invite'[i].redeemed = invite[i].redeemed
    BY <2>1, <2>2 DEF redeem_invite, claim, redeemable, rolled_back, PlatformInvite
  <2>3. ASSUME NEW s \in Slugs, NEW j \in Invites, create_invite(j, s) PROVE invite'[i].redeemed = invite[i].redeemed
    BY <2>1, <2>3 DEF create_invite, invites_insert, NoInvite, PlatformInvite
  <2>4. ASSUME NEW j \in Invites, revoke_invite(j) \/ InviteExpires(j) PROVE invite'[i].redeemed = invite[i].redeemed
    BY <2>1, <2>4 DEF revoke_invite, invites_soft_delete, InviteExpires, PlatformInvite
  <2>5. CASE UNCHANGED invite
    BY <2>5
  <2> QED
    BY <2>2, <2>3, <2>4, <2>5
       DEF PlatformNext, provision, login, deactivate_operator, provision_read, redeem_read, login_read,
           deactivate_read, Ask, suspend, create_operator, logout
<1>2. DeadCookieStaysDead
  <2> SUFFICES ASSUME NEW k \in Cookies, cookie[k].minted, k \in get_current_operator'
               PROVE  k \in get_current_operator
    BY DEF DeadCookieStaysDead
  <2>1. /\ cookie'[k].live /\ operator'[cookie'[k].of].status = "active"
        /\ cookie[k].of \in Operators /\ operator[cookie[k].of].status # "none"
        /\ cookie \in [Cookies -> [minted : BOOLEAN, live : BOOLEAN, of : Operators \union {NoOne}]]
        /\ operator \in [Operators -> PlatformOperator]
    BY DEF get_current_operator, resolve_session, live_by_token_hash, by_id, PlatformInv, PlatformTypeOK, CookieOK
  <2> SUFFICES cookie[k].live /\ operator[cookie[k].of].status = "active"
    BY DEF get_current_operator, resolve_session, live_by_token_hash, by_id
  <2>2. ASSUME NEW c \in Callers, login(c) PROVE cookie[k].live /\ operator[cookie[k].of].status = "active"
    BY <2>1, <2>2 DEF login, sessions_insert
  <2>3. ASSUME NEW c \in Callers, deactivate_operator(c)
        PROVE cookie[k].live /\ operator[cookie[k].of].status = "active"
    BY <2>1, <2>3
       DEF deactivate_operator, Answer, operators_soft_delete, revoke_all_for_operator, PlatformInv, CallOK,
           PlatformOperator
  <2>4. ASSUME NEW o \in Operators, NEW e \in Emails, create_operator(o, e)
        PROVE cookie[k].live /\ operator[cookie[k].of].status = "active"
    BY <2>1, <2>4 DEF create_operator, operators_insert
  <2>5. ASSUME NEW l \in Cookies, logout(l) PROVE cookie[k].live /\ operator[cookie[k].of].status = "active"
    BY <2>1, <2>5 DEF logout
  <2>6. CASE UNCHANGED <<cookie, operator>>
    BY <2>1, <2>6
  <2> QED
    BY <2>2, <2>3, <2>4, <2>5, <2>6
       DEF PlatformNext, provision, redeem_invite, provision_read, redeem_read, login_read,
           deactivate_read, Ask, suspend, create_invite, revoke_invite, InviteExpires
<1> QED
  BY <1>1, <1>2

----------------------------------------------------------------------------
(* The gateway's credentials. *)

\* A connect's transaction begins once.
BegunOnce ==
    \A c \in Creds : cred[c].stage \in {"none", "pinged"} =>
        \A i \in DOMAIN began : began[i] # c

\* The lock has one holder, and what it superseded was somebody else's row.
OneLocked ==
    /\ \A b, c \in Creds : cred[b].stage = "locked" /\ cred[c].stage = "locked" => b = c
    /\ \A c \in Creds : cred[c].stage = "locked" => c \notin cred[c].superseded

\* A verdict on its way says what the provider said of its set, and a key that is
\* withdrawn stays withdrawn.
ChecksAreTrue ==
    \A w \in Checks : check[w].of # NoCred /\ check[w].verdict = "invalid" => ~accepted[check[w].of]

GatewayInv ==
    /\ GatewayTypeOK
    /\ BegunOnce /\ OneLocked /\ ChecksAreTrue
    /\ LaterConnectSupersedes /\ VerdictIsItsOwn

\* A boutique without credentials.
LEMMA InitGatewayInv == GatewayInit => GatewayInv
<1> SUFFICES ASSUME GatewayInit PROVE GatewayInv
  OBVIOUS
<1> USE GatewayAssumption DEF GatewayInit, GatewayAssumption, NoCheck
<1>1. GatewayTypeOK
  BY DEF GatewayTypeOK, TenantGatewayCredential, Stages, GatewayCredentialStatus
<1> QED
  BY <1>1 DEF GatewayInv, BegunOnce, OneLocked, ChecksAreTrue, LaterConnectSupersedes, VerdictIsItsOwn

\* What a step that touches one row's stage, and at most its superseded set, keeps.
LEMMA StageKeeps ==
    ASSUME GatewayInv, NEW c \in Creds, NEW r \in TenantGatewayCredential,
           cred' = [cred EXCEPT ![c] = r], r.status = cred[c].status,
           r.stage \in {"none", "pinged"} => cred[c].stage \in {"none", "pinged"},
           UNCHANGED <<began, accepted, check, deposit>>
    PROVE  GatewayTypeOK' /\ BegunOnce' /\ ChecksAreTrue' /\ VerdictIsItsOwn'
<1> USE DEF GatewayInv
<1>1. GatewayTypeOK'
  BY DEF GatewayTypeOK
<1>2. BegunOnce' /\ VerdictIsItsOwn'
  BY DEF BegunOnce, VerdictIsItsOwn, GatewayTypeOK
<1>3. ChecksAreTrue'
  BY DEF ChecksAreTrue
<1> QED
  BY <1>1, <1>2, <1>3

\* The rows of a connect that commits: its own, those it superseded, the others.
LEMMA ConnectRows ==
    ASSUME GatewayInv, NEW c \in Creds, connect(c)
    PROVE  /\ cred[c].stage = "locked"
           /\ ~index_refuses(c)
           /\ cred' \in [Creds -> TenantGatewayCredential]
           /\ \A b \in Creds : cred'[b].status = cred[b].status
           /\ cred'[c].stage = "active"
           /\ \A b \in Creds : b # c => cred'[b].stage = IF b \in cred[c].superseded THEN "deleted" ELSE cred[b].stage
           /\ \A b \in Creds : b # c /\ cred[b].stage = "deleted" => cred'[b] = cred[b]
           /\ \A b \in Creds \ {c} : cred'[b].superseded = cred[b].superseded
<1>0. cred \in [Creds -> TenantGatewayCredential]
  BY DEF GatewayInv, GatewayTypeOK
<1>1. cred[c].stage = "locked" /\ ~index_refuses(c) /\ c \notin cred[c].superseded
  BY DEF connect, GatewayInv, LaterConnectSupersedes, OneLocked
<1> DEFINE row == [cred[c] EXCEPT !.stage = "active", !.superseded = {}]
           old(b) == [cred[b] EXCEPT !.stage = "deleted"]
<1>2. cred' = [b \in Creds |-> CASE b = c -> row
                                 [] b \in cred[c].superseded /\ ~index_refuses(c) -> old(b)
                                 [] OTHER -> cred[b]]
  BY <1>1 DEF connect
<1> HIDE DEF row, old
<1>3. cred'[c] = row
  BY <1>1, <1>2
<1>4. \A b \in Creds : b # c => cred'[b] = IF b \in cred[c].superseded THEN old(b) ELSE cred[b]
  BY <1>1, <1>2
<1> USE DEF row, old
<1>5. cred'[c] \in TenantGatewayCredential /\ cred'[c].stage = "active" /\ cred'[c].status = cred[c].status
  BY <1>0, <1>3 DEF TenantGatewayCredential, Stages
<1>6. ASSUME NEW b \in Creds, b # c
      PROVE  /\ cred'[b] \in TenantGatewayCredential
             /\ cred'[b].status = cred[b].status /\ cred'[b].superseded = cred[b].superseded
             /\ cred'[b].stage = IF b \in cred[c].superseded THEN "deleted" ELSE cred[b].stage
             /\ cred[b].stage = "deleted" => cred'[b] = cred[b]
  <2>1. cred[b] \in TenantGatewayCredential
    BY <1>0
  <2>2. CASE b \in cred[c].superseded
    <3>1. cred'[b] = old(b)
      BY <1>4, <1>6, <2>2
    <3>2. /\ old(b) \in TenantGatewayCredential /\ old(b).stage = "deleted"
          /\ old(b).status = cred[b].status /\ old(b).superseded = cred[b].superseded
      BY <2>1 DEF TenantGatewayCredential, Stages
    <3>3. cred[b].stage = "deleted" => old(b) = cred[b]
      BY <2>1 DEF TenantGatewayCredential
    <3> HIDE DEF old
    <3> QED
      BY <2>2, <3>1, <3>2, <3>3
  <2>3. CASE b \notin cred[c].superseded
    <3>1. cred'[b] = cred[b]
      BY <1>4, <1>6, <2>3
    <3> QED
      BY <2>1, <2>3, <3>1
  <2> QED
    BY <2>2, <2>3
<1> HIDE DEF row, old
<1>7. cred' \in [Creds -> TenantGatewayCredential]
  <2>1. cred' = [b \in Creds |-> cred'[b]]
    BY <1>2
  <2>2. \A b \in Creds : cred'[b] \in TenantGatewayCredential
    BY <1>5, <1>6
  <2> QED
    BY <2>1, <2>2
<1> QED
  BY <1>1, <1>5, <1>6, <1>7

\* Each verb, each outside event, and each half of a request keeps the tables.
LEMMA GatewayStep == GatewayInv /\ GatewayNext => GatewayInv'
<1> SUFFICES ASSUME GatewayInv, GatewayNext PROVE GatewayInv'
  OBVIOUS
<1> USE GatewayAssumption DEF GatewayAssumption
<1>0. cred \in [Creds -> TenantGatewayCredential]
  BY DEF GatewayInv, GatewayTypeOK
<1>1. ASSUME NEW c \in Creds, connect_ping(c) PROVE GatewayInv'
  <2> DEFINE r == [cred[c] EXCEPT !.stage = IF accepted[c] THEN "pinged" ELSE "refused"]
  <2>1. /\ r \in TenantGatewayCredential /\ r.status = cred[c].status
        /\ r.stage \in {"pinged", "refused"} /\ cred[c].stage = "none"
        /\ r.superseded = cred[c].superseded
    BY <1>0, <1>1 DEF connect_ping, TenantGatewayCredential, Stages
  <2>2. cred' = [cred EXCEPT ![c] = r] /\ UNCHANGED <<began, accepted, check, deposit>>
    BY <1>1 DEF connect_ping
  <2> HIDE DEF r
  <2>3. \A b \in Creds : cred'[b] = IF b = c THEN r ELSE cred[b]
    BY <1>0, <2>2
  <2>4. OneLocked' /\ LaterConnectSupersedes'
    BY <2>1, <2>3 DEF GatewayInv, OneLocked, LaterConnectSupersedes, index_refuses, active_for_provider
  <2> QED
    BY <2>1, <2>2, <2>4, StageKeeps DEF GatewayInv
<1>2. ASSUME NEW c \in Creds, connect_begin(c) PROVE GatewayInv'
  <2> DEFINE r == [cred[c] EXCEPT !.stage = "begun"]
  <2>1. /\ r \in TenantGatewayCredential /\ r.status = cred[c].status
        /\ r.stage = "begun" /\ cred[c].stage = "pinged" /\ r.superseded = cred[c].superseded
    BY <1>0, <1>2 DEF connect_begin, TenantGatewayCredential, Stages
  <2>2. cred' = [cred EXCEPT ![c] = r] /\ began' = Append(began, c) /\ UNCHANGED <<accepted, check, deposit>>
    BY <1>2 DEF connect_begin
  <2> HIDE DEF r
  <2>3. \A b \in Creds : cred'[b] = IF b = c THEN r ELSE cred[b]
    BY <1>0, <2>2
  <2>4. OneLocked' /\ LaterConnectSupersedes' /\ VerdictIsItsOwn' /\ ChecksAreTrue'
    BY <2>1, <2>2, <2>3
       DEF GatewayInv, OneLocked, LaterConnectSupersedes, index_refuses, active_for_provider, VerdictIsItsOwn, ChecksAreTrue
  <2>5. began \in Seq(Creds) /\ \A i \in DOMAIN began : began[i] # c
    BY <2>1 DEF GatewayInv, GatewayTypeOK, BegunOnce
  <2>6. /\ began' \in Seq(Creds) /\ DOMAIN began' = 1 .. Len(began) + 1 /\ DOMAIN began = 1 .. Len(began)
        /\ began'[Len(began) + 1] = c /\ \A i \in DOMAIN began : began'[i] = began[i]
        /\ Len(began) \in Nat
    BY <2>2, <2>5
  <2>7. \A i, j \in DOMAIN began' : began'[i] = began'[j] => i = j
    BY <2>5, <2>6 DEF GatewayInv, GatewayTypeOK
  <2>8. GatewayTypeOK'
    BY <1>0, <2>1, <2>2, <2>6, <2>7 DEF GatewayInv, GatewayTypeOK
  <2>9. BegunOnce'
    BY <2>1, <2>3, <2>6 DEF GatewayInv, BegunOnce
  <2> QED
    BY <2>4, <2>8, <2>9 DEF GatewayInv
<1>3. ASSUME NEW c \in Creds, soft_delete_active(c) PROVE GatewayInv'
  <2> DEFINE r == [cred[c] EXCEPT !.stage = "locked", !.superseded = active_for_provider]
  <2>1. /\ r \in TenantGatewayCredential /\ r.status = cred[c].status
        /\ r.stage = "locked" /\ cred[c].stage = "begun" /\ r.superseded = active_for_provider
        /\ \A b \in Creds : cred[b].stage # "locked"
    BY <1>0, <1>3 DEF soft_delete_active, TenantGatewayCredential, Stages, active_for_provider, advisory_lock
  <2>2. cred' = [cred EXCEPT ![c] = r] /\ UNCHANGED <<began, accepted, check, deposit>>
    BY <1>3 DEF soft_delete_active
  <2> HIDE DEF r
  <2>3. \A b \in Creds : cred'[b] = IF b = c THEN r ELSE cred[b]
    BY <1>0, <2>2
  <2>4. active_for_provider' = active_for_provider
    BY <2>1, <2>3 DEF active_for_provider
  <2>5. OneLocked' /\ LaterConnectSupersedes'
    BY <2>1, <2>3, <2>4 DEF OneLocked, LaterConnectSupersedes, index_refuses, active_for_provider
  <2> QED
    BY <2>1, <2>2, <2>5, StageKeeps DEF GatewayInv
<1>4. ASSUME NEW c \in Creds, connect(c) PROVE GatewayInv'
  <2>1. UNCHANGED <<began, accepted, check, deposit>>
    BY <1>4 DEF connect
  <2>2. \A b \in Creds : cred'[b].stage # "locked"
    BY <1>4, ConnectRows DEF GatewayInv, OneLocked
  <2>3. GatewayTypeOK'
    BY <1>4, <2>1, ConnectRows DEF GatewayInv, GatewayTypeOK
  <2>4. BegunOnce'
    BY <1>4, <2>1, ConnectRows DEF GatewayInv, BegunOnce
  <2>5. VerdictIsItsOwn' /\ ChecksAreTrue'
    BY <1>4, <2>1, ConnectRows DEF GatewayInv, VerdictIsItsOwn, ChecksAreTrue
  <2> QED
    BY <2>2, <2>3, <2>4, <2>5 DEF GatewayInv, OneLocked, LaterConnectSupersedes
<1>5. ASSUME disconnect PROVE GatewayInv'
  <2>1. PICK c \in Creds : cred[c].stage = "active" /\ cred' = [cred EXCEPT ![c].stage = "deleted"]
    BY <1>5 DEF disconnect, active_for_provider
  <2> DEFINE r == [cred[c] EXCEPT !.stage = "deleted"]
  <2>2. /\ r \in TenantGatewayCredential /\ r.status = cred[c].status /\ r.stage = "deleted"
    BY <1>0 DEF TenantGatewayCredential, Stages
  <2>3. cred' = [cred EXCEPT ![c] = r] /\ UNCHANGED <<began, accepted, check, deposit>>
    BY <1>5, <2>1 DEF disconnect
  <2> HIDE DEF r
  <2>4. \A b \in Creds : cred'[b] = IF b = c THEN r ELSE cred[b]
    BY <1>0, <2>3
  <2>5. OneLocked' /\ LaterConnectSupersedes'
    BY <2>2, <2>4 DEF GatewayInv, OneLocked, LaterConnectSupersedes, index_refuses, active_for_provider
  <2> QED
    BY <2>2, <2>3, <2>5, StageKeeps DEF GatewayInv
<1>6. ASSUME NEW c \in Creds, KeyWithdrawn(c) PROVE GatewayInv'
  <2>1. UNCHANGED <<cred, began, check, deposit>> /\ accepted' = [accepted EXCEPT ![c] = FALSE]
    BY <1>6 DEF KeyWithdrawn
  <2>2. accepted \in [Creds -> BOOLEAN]
    BY DEF GatewayInv, GatewayTypeOK
  <2>3. \A b \in Creds : ~accepted[b] => ~accepted'[b]
    BY <2>1, <2>2
  <2>4. ChecksAreTrue' /\ VerdictIsItsOwn'
    BY <2>1, <2>3 DEF GatewayInv, GatewayTypeOK, ChecksAreTrue, VerdictIsItsOwn
  <2> QED
    BY <2>1, <2>2, <2>4
       DEF GatewayInv, GatewayTypeOK, BegunOnce, OneLocked, LaterConnectSupersedes, index_refuses, active_for_provider
<1>7. ASSUME NEW w \in Checks, revalidate(w) PROVE GatewayInv'
  <2>1. PICK c \in Creds :
           check' = [check EXCEPT ![w] = [of |-> c, verdict |-> IF accepted[c] THEN "valid" ELSE "invalid"]]
    BY <1>7 DEF revalidate, active_for_provider
  <2>2. UNCHANGED <<cred, began, accepted, deposit>>
    BY <1>7 DEF revalidate
  <2>3. GatewayTypeOK' /\ ChecksAreTrue'
    BY <2>1, <2>2 DEF GatewayInv, GatewayTypeOK, ChecksAreTrue, GatewayCredentialStatus
  <2> QED
    BY <2>2, <2>3 DEF GatewayInv, BegunOnce, OneLocked, LaterConnectSupersedes, index_refuses, active_for_provider, VerdictIsItsOwn
<1>8. ASSUME NEW w \in Checks, write_outcome(w) PROVE GatewayInv'
  <2> DEFINE c == check[w].of
             v == check[w].verdict
  <2>1. /\ c \in Creds /\ v \in GatewayCredentialStatus /\ UNCHANGED <<began, accepted, deposit>>
        /\ check' = [check EXCEPT ![w] = NoCheck]
        /\ cred' = [b \in Creds |-> IF b \in mark_status(c) THEN [cred[b] EXCEPT !.status = v] ELSE cred[b]]
        /\ v = "invalid" => ~accepted[c]
    BY <1>8 DEF write_outcome, GatewayInv, GatewayTypeOK, ChecksAreTrue
  <2>2. ASSUME NEW b \in Creds
        PROVE  /\ cred'[b] \in TenantGatewayCredential
               /\ cred'[b].stage = cred[b].stage /\ cred'[b].superseded = cred[b].superseded
               /\ cred'[b].status = cred[b].status \/ (b = c /\ cred'[b].status = v)
    <3>1. cred'[b] = IF b \in mark_status(c) THEN [cred[b] EXCEPT !.status = v] ELSE cred[b]
      BY <2>1
    <3>2. b \in mark_status(c) => b = c
      BY DEF mark_status
    <3>3. /\ [cred[b] EXCEPT !.status = v] \in TenantGatewayCredential
          /\ [cred[b] EXCEPT !.status = v].stage = cred[b].stage
          /\ [cred[b] EXCEPT !.status = v].superseded = cred[b].superseded
          /\ [cred[b] EXCEPT !.status = v].status = v
      BY <1>0, <2>1 DEF TenantGatewayCredential
    <3> HIDE DEF c, v
    <3>4. CASE b \in mark_status(c)
      BY <3>1, <3>2, <3>3, <3>4
    <3>5. CASE b \notin mark_status(c)
      BY <1>0, <3>1, <3>5
    <3> QED
      BY <3>4, <3>5
  <2>3. cred' \in [Creds -> TenantGatewayCredential]
    BY <2>1, <2>2
  <2>4. GatewayTypeOK' /\ ChecksAreTrue'
    BY <2>1, <2>3 DEF GatewayInv, GatewayTypeOK, ChecksAreTrue, NoCheck, GatewayCredentialStatus
  <2>5. VerdictIsItsOwn'
    BY <2>1, <2>2 DEF GatewayInv, VerdictIsItsOwn
  <2>6. BegunOnce' /\ OneLocked' /\ LaterConnectSupersedes'
    BY <2>1, <2>2 DEF GatewayInv, BegunOnce, OneLocked, LaterConnectSupersedes, index_refuses, active_for_provider
  <2> QED
    BY <2>4, <2>5, <2>6 DEF GatewayInv
<1>9. ASSUME NEW d \in Deposits, open_read(d) \/ open_deposit(d) \/ settle_from_webhook(d) PROVE GatewayInv'
  <2>1. UNCHANGED <<cred, began, accepted, check>>
    BY <1>9 DEF open_read, open_deposit, settle_from_webhook
  <2>2. GatewayTypeOK'
    BY <1>9, <2>1, SMTT(30) DEF GatewayInv, GatewayTypeOK, open_read, open_deposit, settle_from_webhook, credentials_for, active_for_provider
  <2> QED
    BY <2>1, <2>2
       DEF GatewayInv, BegunOnce, OneLocked, ChecksAreTrue, LaterConnectSupersedes, index_refuses, active_for_provider, VerdictIsItsOwn
<1> QED
  BY <1>1, <1>2, <1>3, <1>4, <1>5, <1>6, <1>7, <1>8, <1>9 DEF GatewayNext

\* Which rows are in, and in what order they began, decides what verifies.
LEMMA SameRowsSameSecret ==
    ASSUME GatewayInv,
           \/ UNCHANGED began
           \/ \E c \in Creds : began' = Append(began, c) /\ ~Inserted(c)',
           \A c \in Creds : Inserted(c)' <=> Inserted(c)
    PROVE  newest_for_provider' = newest_for_provider
<1>1. began \in Seq(Creds)
  BY DEF GatewayInv, GatewayTypeOK
<1>2. /\ DOMAIN began \subseteq DOMAIN began'
      /\ \A i \in DOMAIN began : began'[i] = began[i] /\ began[i] \in Creds
      /\ \A i \in DOMAIN began' \ DOMAIN began : ~Inserted(began[i])'
  <2>1. CASE UNCHANGED began
    BY <1>1, <2>1
  <2>2. ASSUME NEW c \in Creds, began' = Append(began, c), ~Inserted(c)' PROVE <1>2
    <3>1. /\ Len(began) \in Nat /\ DOMAIN began = 1 .. Len(began) /\ DOMAIN began' = 1 .. Len(began) + 1
          /\ began'[Len(began) + 1] = c
          /\ \A i \in DOMAIN began : began'[i] = began[i] /\ began[i] \in Creds
      BY <1>1, <2>2
    <3>2. DOMAIN began' \ DOMAIN began = {Len(began) + 1}
      BY <3>1
    <3>3. \A i \in DOMAIN began' \ DOMAIN began : ~Inserted(began[i])'
      BY <2>2, <3>1, <3>2
    <3>4. DOMAIN began \subseteq DOMAIN began'
      BY <3>1
    <3> QED
      BY <3>1, <3>3, <3>4
  <2> QED
    BY <2>1, <2>2
<1>3. rows_for_provider' = rows_for_provider
  BY <1>2 DEF rows_for_provider
<1> QED
  BY <1>2, <1>3 DEF newest_for_provider, rows_for_provider

\* No move changes a superseded row, or takes from an open deposit the secret that
\* verifies it, except a newly connected set.
LEMMA MoneyKept == GatewayInv /\ GatewayNext => TrailStands /\ MoneyStaysVerifiable
<1> SUFFICES ASSUME GatewayInv, GatewayNext PROVE TrailStands /\ MoneyStaysVerifiable
  OBVIOUS
<1>0. cred \in [Creds -> TenantGatewayCredential]
  BY DEF GatewayInv, GatewayTypeOK
<1>1. ASSUME NEW c \in Creds, connect(c) PROVE TrailStands /\ MoneyStaysVerifiable
  <2>1. TrailStands
    BY <1>1, ConnectRows DEF TrailStands
  <2>2. MoneyStaysVerifiable
    BY <1>1, ConnectRows DEF MoneyStaysVerifiable
  <2> QED
    BY <2>1, <2>2
<1>2. ASSUME /\ \A b \in Creds : cred[b].stage = "deleted" => cred'[b] = cred[b]
             /\ newest_for_provider' = newest_for_provider
      PROVE  TrailStands /\ MoneyStaysVerifiable
  BY <1>2 DEF TrailStands, MoneyStaysVerifiable, verification_credentials_for
<1>3. ASSUME NEW c \in Creds, connect_ping(c) \/ connect_begin(c) \/ soft_delete_active(c)
      PROVE  TrailStands /\ MoneyStaysVerifiable
  <2>1. /\ \A b \in Creds \ {c} : cred'[b] = cred[b]
        /\ cred[c].stage \notin {"active", "deleted"} /\ cred'[c].stage \notin {"active", "deleted"}
        /\ began' = began \/ began' = Append(began, c)
    BY <1>0, <1>3 DEF connect_ping, connect_begin, soft_delete_active, TenantGatewayCredential
  <2>2. newest_for_provider' = newest_for_provider
    BY <2>1, SameRowsSameSecret DEF Inserted
  <2> QED
    BY <1>2, <2>1, <2>2
<1>4. ASSUME disconnect PROVE TrailStands /\ MoneyStaysVerifiable
  <2>1. PICK c \in Creds : cred[c].stage = "active" /\ cred' = [cred EXCEPT ![c].stage = "deleted"]
    BY <1>4 DEF disconnect, active_for_provider
  <2>2. /\ \A b \in Creds \ {c} : cred'[b] = cred[b]
        /\ cred'[c].stage = "deleted" /\ UNCHANGED began
    BY <1>0, <1>4, <2>1 DEF disconnect, TenantGatewayCredential
  <2>3. newest_for_provider' = newest_for_provider
    BY <2>1, <2>2, SameRowsSameSecret DEF Inserted
  <2> QED
    BY <1>2, <2>1, <2>2, <2>3
<1>5. ASSUME NEW w \in Checks, write_outcome(w) PROVE TrailStands /\ MoneyStaysVerifiable
  <2>1. /\ \A b \in Creds : cred'[b].stage = cred[b].stage
        /\ \A b \in Creds : cred[b].stage = "deleted" => cred'[b] = cred[b]
        /\ UNCHANGED began
    BY <1>0, <1>5 DEF write_outcome, mark_status, active_for_provider, TenantGatewayCredential
  <2>2. newest_for_provider' = newest_for_provider
    BY <2>1, SameRowsSameSecret DEF Inserted
  <2> QED
    BY <1>2, <2>1, <2>2
<1>6. CASE UNCHANGED <<cred, began>>
  <2>1. newest_for_provider' = newest_for_provider
    BY <1>6, SameRowsSameSecret DEF Inserted
  <2> QED
    BY <1>2, <1>6, <2>1
<1> QED
  BY <1>1, <1>3, <1>4, <1>5, <1>6
     DEF GatewayNext, KeyWithdrawn, revalidate, open_read, open_deposit, settle_from_webhook

----------------------------------------------------------------------------
(* The terms of sale. *)

Bride == [step : {"none", "shown", "checked", "booked"}, version : Nat, shown : SUBSET Publications]

\* No number is on two rows.
VersionsDiffer == \A r, s \in terms : r.version = s.version => r = s

\* A number that was computed is at most the next one, and its text was valid; so
\* is every text that has a row.
CountedInReach ==
    /\ \A p \in Publications : publish[p].step = "counted" =>
          publish[p].version \in 1 .. Cardinality(terms) + 1 /\ validate_terms(p)
    /\ \A r \in terms : validate_terms(r.text)

\* Who was shown a version holds its number and its text.
ShownIsRow ==
    \A c \in Brides : bride[c].step # "none" =>
        \E r \in terms : r.version = bride[c].version /\ bride[c].shown = {r.text}

TermsInv ==
    /\ TermsTypeOK /\ IsFiniteSet(terms) /\ bride \in [Brides -> Bride]
    /\ VersionsAreGapless /\ VersionsDiffer /\ CountedInReach /\ ShownIsRow

\* The greatest number given is how many there are.
LEMMA MaxVersion ==
    ASSUME TermsInv
    PROVE  max_version = Cardinality(terms) /\ Cardinality(terms) \in Nat
<1> DEFINE n == Cardinality(terms)
<1>1. n \in Nat
  BY FS_CardinalityType DEF TermsInv
<1>2. {r.version : r \in terms} \union {0} = 0 .. n
  BY <1>1 DEF TermsInv, VersionsAreGapless
<1> HIDE DEF n
<1>3. Max(0 .. n) = n
  <2>1. n \in 0 .. n /\ (\A y \in 0 .. n : n >= y) /\ 0 .. n \subseteq Int
    BY <1>1
  <2>2. \A x \in 0 .. n : (\A y \in 0 .. n : x >= y) => x = n
    BY <2>1
  <2> QED
    BY <2>1, <2>2 DEF Max
<1> QED
  BY <1>1, <1>2, <1>3 DEF max_version, n

\* Nothing published, nobody has looked.
LEMMA InitTermsInv == TermsInit => TermsInv
<1> SUFFICES ASSUME TermsInit PROVE TermsInv
  OBVIOUS
<1> USE TermsAssumption DEF TermsInit, TermsAssumption
<1>1. IsFiniteSet(terms) /\ Cardinality(terms) = 0
  BY FS_EmptySet
<1>2. TermsTypeOK
  BY <1>1 DEF TermsTypeOK, NoTerms
<1>3. VersionsAreGapless
  BY <1>1 DEF VersionsAreGapless
<1> QED
  BY <1>1, <1>2, <1>3 DEF TermsInv, Bride, NoTerms, VersionsDiffer, CountedInReach, ShownIsRow

\* The moves of one customer leave the versions alone.
LEMMA BrideKeeps ==
    ASSUME TermsInv, UNCHANGED <<terms, publish, created>>, bride' \in [Brides -> Bride], ShownIsRow'
    PROVE  TermsInv'
<1> USE DEF TermsInv
<1>1. TermsTypeOK'
  BY DEF TermsTypeOK, Bride
<1> QED
  BY <1>1 DEF VersionsAreGapless, VersionsDiffer, CountedInReach, validate_terms

\* A row is inserted under a number that was free.
LEMMA InsertKeeps ==
    ASSUME TermsInv, NEW p \in Publications, publish[p].step = "counted",
           ~version_taken(publish[p].version),
           terms' = terms \union {[version |-> publish[p].version, text |-> p]},
           publish' = [publish EXCEPT ![p].step = "done"],
           created' = created + 1, UNCHANGED bride
    PROVE  TermsInv'
<1> DEFINE n == Cardinality(terms)
           v == publish[p].version
           row == [version |-> v, text |-> p]
<1> USE DEF TermsInv
<1>1. n \in Nat /\ v \in 1 .. n + 1 /\ validate_terms(p)
  BY MaxVersion DEF CountedInReach
<1>2. \A r \in terms : r.version # v
  BY DEF version_taken, by_version
<1>3. v = n + 1
  <2>1. v \notin 1 .. n
    BY <1>2 DEF VersionsAreGapless
  <2> QED
    BY <1>1, <2>1
<1>4. row \notin terms /\ row.version = v /\ row.text = p
  BY <1>2
<1>5. terms' = terms \union {row}
  OBVIOUS
<1> HIDE DEF row
<1>6. IsFiniteSet(terms') /\ Cardinality(terms') = n + 1
  <2>1. IsFiniteSet(terms)
    OBVIOUS
  <2>2. IsFiniteSet(terms \union {row}) /\ Cardinality(terms \union {row}) = n + 1
    BY <1>4, <2>1, FS_AddElement, Zenon
  <2> QED
    BY <1>5, <2>2
<1>7. row \in TermsVersion
  BY <1>1 DEF row, TermsVersion
<1>8. /\ publish' \in [Publications -> [step : {"none", "counted", "done", "refused", "throttled", "conflict"},
                                        version : Nat, retried : BOOLEAN]]
      /\ \A q \in Publications : q # p => publish'[q] = publish[q]
      /\ publish'[p].step = "done"
  BY DEF TermsTypeOK
<1>9. TermsTypeOK'
  BY <1>5, <1>6, <1>7, <1>8 DEF TermsTypeOK
<1>10. VersionsAreGapless'
  <2>1. {r.version : r \in terms'} = {r.version : r \in terms} \union {n + 1}
    BY <1>3, <1>4, <1>5
  <2>2. (1 .. n) \union {n + 1} = 1 .. n + 1
    BY <1>1
  <2> QED
    BY <1>6, <2>1, <2>2 DEF VersionsAreGapless
<1>11. VersionsDiffer'
  BY <1>2, <1>4, <1>5 DEF VersionsDiffer
<1>12. CountedInReach'
  <2>1. ASSUME NEW q \in Publications, publish'[q].step = "counted"
        PROVE  publish'[q].version \in 1 .. Cardinality(terms') + 1 /\ validate_terms(q)
    <3>1. q # p /\ publish'[q] = publish[q]
      BY <1>8, <2>1
    <3>2. publish[q].version \in 1 .. n + 1 /\ validate_terms(q)
      BY <2>1, <3>1 DEF CountedInReach
    <3> QED
      BY <1>1, <1>6, <3>1, <3>2
  <2>2. \A r \in terms' : validate_terms(r.text)
    BY <1>1, <1>4, <1>5 DEF CountedInReach
  <2> QED
    BY <2>1, <2>2 DEF CountedInReach, validate_terms
<1>13. ShownIsRow'
  BY <1>5 DEF ShownIsRow
<1> QED
  BY <1>6, <1>9, <1>10, <1>11, <1>12, <1>13

\* Each of the two requests' steps keeps the versions in order.
LEMMA TermsStep == TermsInv /\ TermsNext => TermsInv'
<1> SUFFICES ASSUME TermsInv, TermsNext PROVE TermsInv'
  OBVIOUS
<1> USE TermsAssumption DEF TermsAssumption, TermsInv
<1> DEFINE Publish == [step : {"none", "counted", "done", "refused", "throttled", "conflict"},
                       version : Nat, retried : BOOLEAN]
<1>0. publish \in [Publications -> Publish]
  BY DEF TermsTypeOK
\* The tables stay, and one publication's request moves on.
<1>1. ASSUME NEW p \in Publications, NEW r \in Publish, publish' = [publish EXCEPT ![p] = r],
             r.step = "counted" => r.version \in 1 .. Cardinality(terms) + 1 /\ validate_terms(p),
             UNCHANGED <<terms, created, bride>>
      PROVE  TermsInv'
  <2>1. publish' \in [Publications -> Publish]
    BY <1>0, <1>1
  <2>2. TermsTypeOK'
    BY <1>1, <2>1 DEF TermsTypeOK
  <2>3. CountedInReach'
    BY <1>0, <1>1 DEF CountedInReach, validate_terms
  <2> QED
    BY <1>1, <2>2, <2>3 DEF VersionsAreGapless, VersionsDiffer, ShownIsRow
<1>2. max_version + 1 \in 1 .. Cardinality(terms) + 1 /\ max_version + 1 \in Nat
  BY MaxVersion
<1>3. ASSUME NEW p \in Publications, create_terms_version(p) PROVE TermsInv'
  <2> DEFINE refused == [publish[p] EXCEPT !.step = "refused"]
             throttled == [publish[p] EXCEPT !.step = "throttled"]
             counted == [publish[p] EXCEPT !.step = "counted", !.version = max_version + 1]
             r == IF ~validate_terms(p) THEN refused ELSE IF created >= MaxTerms THEN throttled ELSE counted
  <2>1. refused \in Publish /\ throttled \in Publish /\ counted \in Publish
        /\ refused.step # "counted" /\ throttled.step # "counted" /\ counted.version = max_version + 1
    BY <1>0, <1>2
  <2>2. r \in Publish /\ (r.step = "counted" => r.version = max_version + 1 /\ validate_terms(p))
    BY <2>1
  <2>3. publish' = [publish EXCEPT ![p] = r] /\ UNCHANGED <<terms, created, bride>>
    BY <1>3 DEF create_terms_version
  <2> HIDE DEF r
  <2> QED
    BY <1>1, <1>2, <2>2, <2>3
<1>4. ASSUME NEW p \in Publications, insert_terms(p) PROVE TermsInv'
  <2>1. CASE ~version_taken(publish[p].version)
    BY <1>4, <2>1, InsertKeeps DEF insert_terms
  <2>2. CASE version_taken(publish[p].version)
    <3> DEFINE conflict == [publish[p] EXCEPT !.step = "conflict"]
               again == [publish[p] EXCEPT !.retried = TRUE, !.version = max_version + 1]
               r == IF publish[p].retried THEN conflict ELSE again
    <3>1. conflict \in Publish /\ again \in Publish /\ conflict.step # "counted" /\ again.version = max_version + 1
      BY <1>0, <1>2
    <3>2. r \in Publish /\ (r.step = "counted" => r.version = max_version + 1)
      BY <3>1
    <3>3. publish' = [publish EXCEPT ![p] = r] /\ UNCHANGED <<terms, created, bride>>
      BY <1>4, <2>2 DEF insert_terms
    <3>4. validate_terms(p)
      BY <1>4 DEF insert_terms, CountedInReach
    <3> HIDE DEF r
    <3> QED
      BY <1>1, <1>2, <3>2, <3>3, <3>4
  <2> QED
    BY <2>1, <2>2
<1>5. ASSUME NEW c \in Brides, get_terms(c) PROVE TermsInv'
  <2>1. PICK r \in terms : bride' = [bride EXCEPT ![c] = [step |-> "shown", version |-> r.version, shown |-> {r.text}]]
    BY <1>5 DEF get_terms, current
  <2>2. UNCHANGED <<terms, publish, created>>
    BY <1>5 DEF get_terms
  <2>3. r.version \in Nat /\ r.text \in Publications
    BY DEF TermsTypeOK, TermsVersion
  <2>4. bride' \in [Brides -> Bride]
    BY <2>1, <2>3 DEF Bride
  <2>5. ShownIsRow'
    BY <2>1, <2>2 DEF ShownIsRow
  <2> QED
    BY <2>2, <2>4, <2>5, BrideKeeps
<1>6. ASSUME NEW c \in Brides, check_terms(c) PROVE TermsInv'
  <2> DEFINE r == IF bride[c].version = max_version THEN [bride[c] EXCEPT !.step = "checked"] ELSE NoTerms
  <2>1. bride' = [bride EXCEPT ![c] = r] /\ UNCHANGED <<terms, publish, created>> /\ bride[c].step = "shown"
    BY <1>6 DEF check_terms
  <2>2. NoTerms \in Bride /\ NoTerms.step = "none"
    BY DEF NoTerms, Bride
  <2>3. r \in Bride /\ (r.step # "none" => r.version = bride[c].version /\ r.shown = bride[c].shown)
    BY <2>2 DEF Bride
  <2> HIDE DEF r
  <2>4. bride' \in [Brides -> Bride]
    BY <2>1, <2>3
  <2>5. ShownIsRow'
    BY <2>1, <2>3 DEF ShownIsRow
  <2> QED
    BY <2>1, <2>4, <2>5, BrideKeeps
<1>7. ASSUME NEW c \in Brides, accept_terms(c) PROVE TermsInv'
  <2>1. bride' = [bride EXCEPT ![c].step = "booked"] /\ UNCHANGED <<terms, publish, created>> /\ bride[c].step = "checked"
    BY <1>7 DEF accept_terms
  <2>2. bride' \in [Brides -> Bride]
    BY <2>1 DEF Bride
  <2>3. ShownIsRow'
    BY <2>1 DEF ShownIsRow, Bride
  <2> QED
    BY <2>1, <2>2, <2>3, BrideKeeps
<1> QED
  BY <1>3, <1>4, <1>5, <1>6, <1>7 DEF TermsNext

\* What the boutique keeps, rounded down, leaves her at least her share.
LEMMA RefundIsFair ==
    ASSUME NEW a \in Nat, NEW f \in 0 .. 100
    PROVE  /\ a - (a * f) \div 100 \in 0 .. a
           /\ 100 * (a - (a * f) \div 100) >= a * (100 - f)
<1> DEFINE x == a * f
           q == x \div 100
<1>1. x \in Nat /\ x <= 100 * a
  <2>1. a * f <= a * 100 /\ a * f \in Nat
    OBVIOUS
  <2> QED
    BY <2>1
<1>2. a * (100 - f) = 100 * a - x
  OBVIOUS
<1> HIDE DEF x
<1>3. q \in Nat /\ 100 * q <= x
  BY <1>1
<1> HIDE DEF q
<1>4. a - q \in 0 .. a /\ 100 * (a - q) >= 100 * a - x
  BY <1>1, <1>3
<1> QED
  BY <1>2, <1>4 DEF q, x

\* The invariant's last part gives the customer's page its one policy.
LEMMA PolicyKept == TermsInv => PolicyIsHers
<1> SUFFICES ASSUME TermsInv, NEW c \in Brides, bride[c].step = "booked"
             PROVE  /\ manage_policy(c) = {Policy[t] : t \in bride[c].shown}
                    /\ \A at \in 0 .. StartsAt, p \in manage_policy(c) :
                        \E due \in 0 .. AMOUNT :
                            /\ payment_marker(c, at) = {due}
                            /\ at + p.refundable_until_hours_before <= StartsAt => due = AMOUNT
                            /\ 100 * due >= AMOUNT * (100 - p.forfeit_percent)
  BY DEF PolicyIsHers
<1> USE TermsAssumption DEF TermsAssumption
<1>1. PICK r \in terms : r.version = bride[c].version /\ bride[c].shown = {r.text}
  BY DEF TermsInv, ShownIsRow
<1>2. by_version(bride[c].version) = {r}
  BY <1>1 DEF by_version, TermsInv, VersionsDiffer
<1>3. r.text \in Publications /\ validate_terms(r.text)
  BY DEF TermsInv, TermsTypeOK, TermsVersion, CountedInReach
<1> DEFINE pol == Policy[r.text]
<1>4. manage_policy(c) = {pol} /\ {Policy[t] : t \in bride[c].shown} = {pol}
  BY <1>1, <1>2 DEF manage_policy
<1>5. pol.refundable_until_hours_before \in Nat /\ pol.forfeit_percent \in 0 .. 100
  BY <1>3 DEF validate_terms
<1>6. ASSUME NEW at \in 0 .. StartsAt
      PROVE  \E due \in 0 .. AMOUNT :
                /\ payment_marker(c, at) = {due}
                /\ at + pol.refundable_until_hours_before <= StartsAt => due = AMOUNT
                /\ 100 * due >= AMOUNT * (100 - pol.forfeit_percent)
  <2> DEFINE due == refund_due_agorot(at, pol)
             h == pol.refundable_until_hours_before
             f == pol.forfeit_percent
  <2>1. payment_marker(c, at) = {due}
    BY <1>2 DEF payment_marker
  <2>2. /\ AMOUNT - (AMOUNT * f) \div 100 \in 0 .. AMOUNT
        /\ 100 * (AMOUNT - (AMOUNT * f) \div 100) >= AMOUNT * (100 - f)
    BY <1>5, RefundIsFair
  <2>3. 100 * AMOUNT >= AMOUNT * (100 - f)
    BY <1>5
  <2>4. CASE at <= StartsAt - h
    <3>1. due = AMOUNT
      BY <2>4 DEF refund_due_agorot
    <3> HIDE DEF due, f
    <3> QED
      BY <2>1, <2>3, <3>1 DEF f
  <2>5. CASE ~(at <= StartsAt - h)
    <3>1. due = AMOUNT - (AMOUNT * f) \div 100
      BY <2>5 DEF refund_due_agorot
    <3>2. ~(at + h <= StartsAt)
      BY <1>5, <2>5
    <3> HIDE DEF due
    <3> QED
      BY <2>1, <2>2, <3>1, <3>2
  <2> QED
    BY <2>4, <2>5
<1> QED
  BY <1>4, <1>6

----------------------------------------------------------------------------
(* The settings. *)

AuditKeys == {"atelier", "toggles", "scheduling"}

Request == [step : {"none", "merged", "done", "missing", "died"}, patch : Patch, owed : SUBSET AuditKeys]

Row(w, key) == [by |-> w, key |-> key]

\* The rows of the log, and whose: the requests whose merge has answered.
LogsOK ==
    /\ writer \in [Writers -> Request]
    /\ merged \in Seq(Writers) /\ trail \in Seq([by : Writers, key : AuditKeys])
    /\ \A i \in DOMAIN merged : writer[merged[i]].step \in {"merged", "done", "died"}

\* A request that has merged owes the rows that are not in the log, and no other.
OwesTheRest ==
    \A w \in Writers : writer[w].step = "merged" =>
        /\ \E j \in DOMAIN merged : merged[j] = w
        /\ writer[w].owed \subseteq owes(writer[w].patch)
        /\ \A key \in owes(writer[w].patch) :
              key \in writer[w].owed <=> \A i \in DOMAIN trail : trail[i] # Row(w, key)

SettingsInv ==
    /\ SettingsTypeOK /\ LogsOK /\ OwesTheRest
    /\ LastNamedStands /\ TrailInventsNothing

\* What may be owed.
LEMMA OwedKeys ==
    /\ DOMAIN AuditOrder = AuditKeys
    /\ \A patch : owes(patch) \subseteq AuditKeys
BY DEF AuditOrder, AuditKeys, owes

\* An append is one more, at the end.
LEMMA Appended ==
    ASSUME NEW S, NEW s \in Seq(S), NEW x \in S, NEW t, t = Append(s, x)
    PROVE  /\ t \in Seq(S) /\ Len(s) \in Nat
           /\ DOMAIN t = DOMAIN s \union {Len(s) + 1} /\ Len(s) + 1 \notin DOMAIN s
           /\ \A i \in DOMAIN s : t[i] = s[i] /\ s[i] \in S /\ i <= Len(s)
           /\ t[Len(s) + 1] = x
           /\ DOMAIN s \subseteq Nat
OBVIOUS

\* What a sequence holds.
LEMMA Elements ==
    ASSUME NEW S, NEW s \in Seq(S)
    PROVE  \A i \in DOMAIN s : s[i] \in S
OBVIOUS

\* Whose the rows of the log are.
LEMMA TrailBy == LogsOK => \A i \in DOMAIN trail : trail[i].by \in Writers /\ trail[i].key \in AuditKeys
<1> SUFFICES ASSUME LogsOK PROVE \A i \in DOMAIN trail : trail[i].by \in Writers /\ trail[i].key \in AuditKeys
  OBVIOUS
<1>1. \A i \in DOMAIN trail : trail[i] \in [by : Writers, key : AuditKeys]
  BY Elements, Zenon DEF LogsOK
<1> QED
  BY <1>1

\* Nothing stored, nobody has asked.
LEMMA InitSettingsInv == SettingsInit => SettingsInv
<1> SUFFICES ASSUME SettingsInit PROVE SettingsInv
  OBVIOUS
<1> USE SettingsAssumption DEF SettingsInit, SettingsAssumption
<1> DEFINE nothing == [toggles |-> [k \in Toggles |-> "absent"], whole |-> {}]
<1>1. nothing \in Patch
  BY DEF Patch, Switch
<1>2. writer = [w \in Writers |-> [step |-> "none", patch |-> nothing, owed |-> {}]]
  OBVIOUS
<1> DEFINE idle == [step |-> "none", patch |-> nothing, owed |-> {}]
<1>9. idle \in Request /\ idle.step = "none" /\ idle.patch \in Patch
  BY <1>1 DEF Request, nothing
<1>10. writer = [w \in Writers |-> idle]
  BY <1>2
<1> HIDE DEF nothing, idle
<1>3. \A w \in Writers : writer[w].step = "none" /\ writer[w].patch \in Patch
  BY <1>9, <1>10
<1>4. SettingsTypeOK
  BY <1>3 DEF SettingsTypeOK, Switch, Whole
<1>5. merged = <<>> /\ trail = <<>> /\ DOMAIN merged = {} /\ DOMAIN trail = {}
  OBVIOUS
<1>6. LogsOK
  <2>1. writer \in [Writers -> Request]
    BY <1>9, <1>10
  <2>2. merged \in Seq(Writers) /\ trail \in Seq([by : Writers, key : AuditKeys])
    BY <1>5
  <2> QED
    BY <1>5, <2>1, <2>2 DEF LogsOK
<1>7. LastNamedStands
  BY <1>5 DEF LastNamedStands, Whole
<1>8. TrailInventsNothing
  BY <1>3, <1>5 DEF TrailInventsNothing
<1> QED
  BY <1>3, <1>4, <1>6, <1>7, <1>8 DEF SettingsInv, OwesTheRest

\* While the patches, the statements and the tenant's settings stay, so does what
\* they say of each other.
LEMMA LastNamedKept ==
    ASSUME SettingsInv, UNCHANGED <<settings, merged>>,
           \A w \in Writers : writer'[w].patch = writer[w].patch
    PROVE  LastNamedStands'
<1>1. \A i \in DOMAIN merged : merged[i] \in Writers
  BY DEF SettingsInv, LogsOK
<1>2. \A i \in DOMAIN merged : writer'[merged'[i]].patch = writer[merged[i]].patch /\ merged'[i] = merged[i]
  BY <1>1
<1> QED
  BY <1>2 DEF SettingsInv, LastNamedStands

\* A merge: what the patch names is its own, the rest is what it was.
LEMMA LastNamedMerged ==
    ASSUME SettingsInv, NEW w \in Writers, NEW patch \in Patches, tenantLive,
           writer[w].step = "none", merge_settings(w, patch),
           writer'[w].patch = patch, \A v \in Writers \ {w} : writer'[v] = writer[v]
    PROVE  LastNamedStands'
<1> DEFINE n == Len(merged) + 1
<1>1. /\ merged \in Seq(Writers) /\ merged' = Append(merged, w)
      /\ settings' = [toggles |-> [k \in Toggles |-> IF patch.toggles[k] # "absent" THEN patch.toggles[k]
                                                     ELSE settings.toggles[k]],
                      whole |-> [b \in Whole |-> IF b \in patch.whole THEN w ELSE settings.whole[b]]]
  BY DEF SettingsInv, LogsOK, merge_settings
<1>2. /\ Len(merged) \in Nat /\ DOMAIN merged' = DOMAIN merged \union {n} /\ n \notin DOMAIN merged
      /\ \A i \in DOMAIN merged : merged'[i] = merged[i] /\ merged[i] \in Writers /\ i <= Len(merged)
      /\ merged'[n] = w /\ DOMAIN merged \subseteq Nat
  BY <1>1, Appended
<1>3. \A i \in DOMAIN merged : merged[i] # w
  BY DEF SettingsInv, LogsOK
<1>4. /\ \A i \in DOMAIN merged : writer'[merged'[i]].patch = writer[merged[i]].patch /\ merged'[i] = merged[i]
      /\ writer'[merged'[n]].patch = patch
  BY <1>2, <1>3
<1>5. /\ \A b \in Whole : settings'.whole[b] = IF b \in patch.whole THEN w ELSE settings.whole[b]
      /\ \A k \in Toggles : settings'.toggles[k] = IF patch.toggles[k] # "absent" THEN patch.toggles[k]
                                                   ELSE settings.toggles[k]
  BY <1>1
<1>6. \A i \in DOMAIN merged : i <= n /\ ~(n <= i)
  BY <1>2
<1>7. n <= n
  BY <1>2
<1> HIDE DEF n
<1> DEFINE sent(b) == {i \in DOMAIN merged : b \in writer[merged[i]].patch.whole}
           toggled(k) == {i \in DOMAIN merged : writer[merged[i]].patch.toggles[k] # "absent"}
           latest(S) == {i \in S : \A j \in S : j <= i}
           nsent(b) == {i \in DOMAIN merged' : b \in writer'[merged'[i]].patch.whole}
           ntoggled(k) == {i \in DOMAIN merged' : writer'[merged'[i]].patch.toggles[k] # "absent"}
<1>8. ASSUME NEW b \in Whole
      PROVE  /\ nsent(b) = {} => settings'.whole[b] = NoWriter
             /\ \A i \in latest(nsent(b)) : settings'.whole[b] = merged'[i]
  <2>1. /\ sent(b) = {} => settings.whole[b] = NoWriter
        /\ \A i \in latest(sent(b)) : settings.whole[b] = merged[i]
    BY DEF SettingsInv, LastNamedStands
  <2>2. CASE b \in patch.whole
    <3>1. n \in nsent(b) /\ nsent(b) \subseteq DOMAIN merged \union {n}
      BY <1>2, <1>4, <2>2
    <3>2. \A i \in latest(nsent(b)) : i = n
      BY <1>6, <3>1
    <3> QED
      BY <1>2, <1>5, <2>2, <3>1, <3>2
  <2>3. CASE b \notin patch.whole
    <3>1. nsent(b) = sent(b)
      BY <1>2, <1>4, <2>3
    <3>2. \A i \in latest(sent(b)) : merged'[i] = merged[i]
      BY <1>4
    <3> HIDE DEF sent, nsent, latest
    <3> QED
      BY <1>5, <2>1, <2>3, <3>1, <3>2
  <2> QED
    BY <2>2, <2>3
<1>9. ASSUME NEW k \in Toggles
      PROVE  /\ ntoggled(k) = {} => settings'.toggles[k] = "absent"
             /\ \A i \in latest(ntoggled(k)) : settings'.toggles[k] = writer'[merged'[i]].patch.toggles[k]
  <2>1. /\ toggled(k) = {} => settings.toggles[k] = "absent"
        /\ \A i \in latest(toggled(k)) : settings.toggles[k] = writer[merged[i]].patch.toggles[k]
    BY DEF SettingsInv, LastNamedStands
  <2>2. CASE patch.toggles[k] # "absent"
    <3>1. n \in ntoggled(k) /\ ntoggled(k) \subseteq DOMAIN merged \union {n}
      BY <1>2, <1>4, <2>2
    <3>2. \A i \in latest(ntoggled(k)) : i = n
      BY <1>6, <3>1
    <3> QED
      BY <1>4, <1>5, <2>2, <3>1, <3>2
  <2>3. CASE patch.toggles[k] = "absent"
    <3>1. ntoggled(k) = toggled(k)
      BY <1>2, <1>4, <2>3
    <3>2. \A i \in latest(toggled(k)) : writer'[merged'[i]].patch = writer[merged[i]].patch
      BY <1>4
    <3> HIDE DEF toggled, ntoggled, latest
    <3> QED
      BY <1>5, <2>1, <2>3, <3>1, <3>2
  <2> QED
    BY <2>2, <2>3
<1> QED
  BY <1>8, <1>9 DEF LastNamedStands

\* Each statement of a request, a crash and the boutique's end keep the logs true.
LEMMA SettingsStep == SettingsInv /\ SettingsNext => SettingsInv'
<1> SUFFICES ASSUME SettingsInv, SettingsNext PROVE SettingsInv'
  OBVIOUS
<1> USE SettingsAssumption DEF SettingsAssumption
<1>0. /\ writer \in [Writers -> Request] /\ merged \in Seq(Writers)
      /\ trail \in Seq([by : Writers, key : AuditKeys])
  BY DEF SettingsInv, LogsOK
<1>1. ASSUME NEW w \in Writers, NEW patch \in Patches, update_settings(w, patch) PROVE SettingsInv'
  <2> DEFINE missing == [writer[w] EXCEPT !.step = "missing"]
             merge == [step |-> IF owes(patch) = {} THEN "done" ELSE "merged", patch |-> patch, owed |-> owes(patch)]
  <2>0. writer[w].step = "none" /\ UNCHANGED <<tenantLive, trail>> /\ patch \in Patch
    BY <1>1 DEF update_settings
  <2>1. CASE ~tenantLive
    <3>1. writer' = [writer EXCEPT ![w] = missing] /\ UNCHANGED <<settings, merged>>
      BY <1>1, <2>1 DEF update_settings, merge_settings
    <3>2. missing \in Request /\ missing.step = "missing" /\ missing.patch = writer[w].patch
      BY <1>0 DEF Request
    <3> HIDE DEF missing
    <3>3. /\ writer' \in [Writers -> Request] /\ \A v \in Writers : writer'[v].patch = writer[v].patch
          /\ \A v \in Writers : v # w => writer'[v] = writer[v]
          /\ writer'[w].step = "missing"
      BY <1>0, <3>1, <3>2
    <3>4. LastNamedStands'
      BY <3>1, <3>3, LastNamedKept
    <3>5. \A i \in DOMAIN merged : merged[i] \in Writers /\ merged[i] # w
      BY <2>0 DEF SettingsInv, LogsOK
    <3>6. LogsOK'
      BY <1>0, <2>0, <3>1, <3>3, <3>5 DEF SettingsInv, LogsOK
    <3>7. \A i \in DOMAIN trail : trail[i].by \in Writers
      BY TrailBy DEF SettingsInv
    <3>10. TrailInventsNothing'
      BY <2>0, <3>1, <3>3, <3>7 DEF SettingsInv, TrailInventsNothing, owes, names_toggles
    <3>8. OwesTheRest'
      BY <2>0, <3>1, <3>3 DEF SettingsInv, OwesTheRest, Row, owes, names_toggles
    <3>9. SettingsTypeOK'
      BY <2>0, <3>1, <3>3 DEF SettingsInv, SettingsTypeOK, Request
    <3> QED
      BY <3>4, <3>6, <3>8, <3>10, <3>9 DEF SettingsInv
  <2>2. CASE tenantLive
    <3>1. writer' = [writer EXCEPT ![w] = merge] /\ merge_settings(w, patch)
      BY <1>1, <2>2 DEF update_settings
    <3>2. /\ merge \in Request /\ merge.step \in {"merged", "done"} /\ merge.patch = patch /\ merge.owed = owes(patch)
          /\ merge.step = "done" => owes(patch) = {}
      BY <2>0, OwedKeys DEF Request
    <3> HIDE DEF merge
    <3>3. /\ writer' \in [Writers -> Request]
          /\ writer'[w] = merge
          /\ \A v \in Writers \ {w} : writer'[v] = writer[v]
      BY <1>0, <3>1, <3>2
    <3>4. LastNamedStands'
      BY <2>0, <2>2, <3>1, <3>2, <3>3, LastNamedMerged
    <3>5. merged' = Append(merged, w)
      BY <2>2, <3>1 DEF merge_settings
    <3>6. /\ merged' \in Seq(Writers) /\ DOMAIN merged' = DOMAIN merged \union {Len(merged) + 1}
          /\ \A i \in DOMAIN merged : merged'[i] = merged[i] /\ merged[i] \in Writers
          /\ merged'[Len(merged) + 1] = w
      BY <1>0, <3>5, Appended
    <3>7. \A i \in DOMAIN merged : merged[i] # w
      BY <2>0 DEF SettingsInv, LogsOK
    <3>8. LogsOK'
      BY <1>0, <2>0, <3>2, <3>3, <3>6, <3>7 DEF SettingsInv, LogsOK
    <3>9. \A i \in DOMAIN trail : trail[i].by \in Writers \ {w}
      BY <1>0, <3>7 DEF SettingsInv, TrailInventsNothing
    <3>10. TrailInventsNothing'
      <4>1. \A i \in DOMAIN trail : /\ \E j \in DOMAIN merged' : merged'[j] = trail[i].by
                                    /\ trail[i].key \in owes(writer'[trail[i].by].patch)
        BY <3>3, <3>6, <3>9 DEF SettingsInv, TrailInventsNothing
      <4>2. \A v \in Writers : writer'[v].step = "done" =>
               \A key \in owes(writer'[v].patch) : \E i \in DOMAIN trail : trail[i] = [by |-> v, key |-> key]
        BY <3>2, <3>3, SMTT(30) DEF SettingsInv, TrailInventsNothing
      <4> QED
        BY <2>0, <4>1, <4>2 DEF SettingsInv, TrailInventsNothing
    <3>11. OwesTheRest'
      <4>1. \A key : \A i \in DOMAIN trail : trail[i] # Row(w, key)
        BY <3>9 DEF Row
      <4>2. ASSUME NEW v \in Writers, writer'[v].step = "merged"
            PROVE  /\ \E j \in DOMAIN merged' : merged'[j] = v
                   /\ writer'[v].owed \subseteq owes(writer'[v].patch)
                   /\ \A key \in owes(writer'[v].patch) :
                         key \in writer'[v].owed <=> \A i \in DOMAIN trail : trail[i] # Row(v, key)
        <5>1. CASE v = w
          BY <3>2, <3>3, <3>6, <4>1, <5>1
        <5>2. CASE v # w
          BY <3>3, <3>6, <4>2, <5>2 DEF SettingsInv, OwesTheRest
        <5> QED
          BY <5>1, <5>2
      <4> QED
        BY <2>0, <4>2 DEF OwesTheRest, Row
    <3>12. SettingsTypeOK'
      <4>1. settings' \in [toggles : [Toggles -> Switch], whole : [Whole -> Writers \union {NoWriter}]]
        BY <2>0, <2>2, <3>1 DEF merge_settings, SettingsInv, SettingsTypeOK, Patch, Switch
      <4> QED
        BY <2>0, <3>3, <4>1 DEF SettingsInv, SettingsTypeOK, Request
    <3> QED
      BY <3>4, <3>8, <3>10, <3>11, <3>12 DEF SettingsInv
  <2> QED
    BY <2>1, <2>2 DEF SettingsInv, SettingsTypeOK
<1>2. ASSUME NEW w \in Writers, record_settings_audit(w) PROVE SettingsInv'
  <2>1. PICK key \in writer[w].owed :
          /\ trail' = Append(trail, [by |-> w, key |-> key])
          /\ writer' = [writer EXCEPT ![w].owed = @ \ {key},
                ![w].step = IF writer[w].owed = {key} THEN "done" ELSE "merged"]
    BY <1>2 DEF record_settings_audit
  <2> DEFINE r == [writer[w] EXCEPT !.owed = @ \ {key}, !.step = IF writer[w].owed = {key} THEN "done" ELSE "merged"]
             n == Len(trail) + 1
  <2>2. writer[w].step = "merged" /\ UNCHANGED <<settings, tenantLive, merged>>
    BY <1>2 DEF record_settings_audit
  <2>3. /\ r \in Request /\ r.patch = writer[w].patch /\ r.owed = writer[w].owed \ {key}
        /\ r.step = IF writer[w].owed = {key} THEN "done" ELSE "merged"
    BY <1>0 DEF Request
  <2>4. writer' = [writer EXCEPT ![w] = r]
    BY <1>0, <2>1
  <2> HIDE DEF r
  <2>5. /\ writer' \in [Writers -> Request] /\ writer'[w] = r
        /\ \A v \in Writers \ {w} : writer'[v] = writer[v]
        /\ \A v \in Writers : writer'[v].patch = writer[v].patch
    BY <1>0, <2>3, <2>4
  <2>6. key \in AuditKeys /\ key \in owes(writer[w].patch) /\ Row(w, key) \in [by : Writers, key : AuditKeys]
    BY <1>0, <2>2, OwedKeys DEF SettingsInv, OwesTheRest, Row
  <2>7. trail' = Append(trail, Row(w, key))
    BY <2>1 DEF Row
  <2>8. /\ trail' \in Seq([by : Writers, key : AuditKeys]) /\ DOMAIN trail' = DOMAIN trail \union {n}
        /\ \A i \in DOMAIN trail : trail'[i] = trail[i] /\ trail[i].by \in Writers
        /\ trail'[n] = Row(w, key)
    <3> DEFINE S == [by : Writers, key : AuditKeys]
    <3>1. trail \in Seq(S) /\ Row(w, key) \in S
      BY <1>0, <2>6
    <3> HIDE DEF S
    <3>2. /\ trail' \in Seq(S) /\ DOMAIN trail' = DOMAIN trail \union {n}
          /\ \A i \in DOMAIN trail : trail'[i] = trail[i]
          /\ trail'[n] = Row(w, key)
      BY <2>7, <3>1, Appended
    <3> QED
      BY <3>2, TrailBy DEF SettingsInv, S
  <2> HIDE DEF n
  <2>9. LastNamedStands'
    BY <2>2, <2>5, LastNamedKept
  <2>10. LogsOK'
    <3>1. r.step \in {"merged", "done", "died"}
      BY <2>3
    <3> QED
      BY <1>0, <2>2, <2>5, <2>8, <3>1 DEF SettingsInv, LogsOK
  <2>11. \A i \in DOMAIN trail : trail[i] # Row(w, key)
    BY <2>2, <2>6 DEF SettingsInv, OwesTheRest
  <2>12. \A v \in Writers, k \in AuditKeys : Row(v, k) = Row(w, key) => v = w /\ k = key
    BY DEF Row
  <2>13. OwesTheRest'
    <3>1. ASSUME NEW v \in Writers, writer'[v].step = "merged"
          PROVE  /\ \E j \in DOMAIN merged : merged[j] = v
                 /\ writer'[v].owed \subseteq owes(writer'[v].patch)
                 /\ \A k \in owes(writer'[v].patch) :
                       k \in writer'[v].owed <=> \A i \in DOMAIN trail' : trail'[i] # Row(v, k)
      <4>1. /\ \E j \in DOMAIN merged : merged[j] = v
            /\ writer[v].owed \subseteq owes(writer[v].patch)
            /\ \A k \in owes(writer[v].patch) :
                  k \in writer[v].owed <=> \A i \in DOMAIN trail : trail[i] # Row(v, k)
        BY <2>2, <2>5, <3>1 DEF SettingsInv, OwesTheRest
      <4>2. \A k \in owes(writer[v].patch) : k \in AuditKeys
        BY OwedKeys
      <4>3. \A k \in owes(writer[v].patch) : (\A i \in DOMAIN trail' : trail'[i] # Row(v, k)) <=>
                 (\A i \in DOMAIN trail : trail[i] # Row(v, k)) /\ ~(v = w /\ k = key)
        BY <2>8, <2>12, <4>2
      <4>4. CASE v = w
        BY <2>3, <2>5, <4>1, <4>3, <4>4
      <4>5. CASE v # w
        BY <2>5, <4>1, <4>3, <4>5
      <4> QED
        BY <4>4, <4>5
    <3> QED
      BY <2>2, <3>1 DEF OwesTheRest, Row
  <2>14. TrailInventsNothing'
    <3>1. \A i \in DOMAIN trail' : /\ \E j \in DOMAIN merged : merged[j] = trail'[i].by
                                   /\ trail'[i].key \in owes(writer'[trail'[i].by].patch)
      <4>1. ASSUME NEW i \in DOMAIN trail PROVE /\ \E j \in DOMAIN merged : merged[j] = trail'[i].by
                                                /\ trail'[i].key \in owes(writer'[trail'[i].by].patch)
        BY <2>5, <2>8 DEF SettingsInv, TrailInventsNothing
      <4>2. (\E j \in DOMAIN merged : merged[j] = w) /\ trail'[n].by = w /\ trail'[n].key = key
        BY <2>2, <2>8 DEF SettingsInv, OwesTheRest, Row
      <4> QED
        BY <2>5, <2>6, <2>8, <4>1, <4>2
    <3>2. \A i, j \in DOMAIN trail' : trail'[i] = trail'[j] => i = j
      BY <2>8, <2>11 DEF SettingsInv, TrailInventsNothing
    <3>3. ASSUME NEW v \in Writers, writer'[v].step = "done", NEW k \in owes(writer'[v].patch)
          PROVE  \E i \in DOMAIN trail' : trail'[i] = Row(v, k)
      <4>1. CASE v = w
        <5>1. writer[w].owed = {key}
          BY <2>3, <2>5, <3>3, <4>1
        <5>2. k = key \/ \E i \in DOMAIN trail : trail[i] = Row(w, k)
          BY <2>2, <2>5, <3>3, <4>1, <5>1 DEF SettingsInv, OwesTheRest
        <5> QED
          BY <2>8, <4>1, <5>2
      <4>2. CASE v # w
        <5>1. \E i \in DOMAIN trail : trail[i] = Row(v, k)
          BY <2>5, <3>3, <4>2 DEF SettingsInv, TrailInventsNothing, Row
        <5> QED
          BY <2>8, <5>1
      <4> QED
        BY <4>1, <4>2
    <3> QED
      BY <2>2, <3>1, <3>2, <3>3 DEF TrailInventsNothing, Row
  <2>15. SettingsTypeOK'
    BY <2>2, <2>5 DEF SettingsInv, SettingsTypeOK, Request
  <2> QED
    BY <2>9, <2>10, <2>13, <2>14, <2>15 DEF SettingsInv
<1>3. ASSUME NEW w \in Writers, settings_crash(w) PROVE SettingsInv'
  <2> DEFINE r == [writer[w] EXCEPT !.step = "died"]
  <2>1. /\ writer[w].step = "merged" /\ UNCHANGED <<settings, tenantLive, merged, trail>>
        /\ writer' = [writer EXCEPT ![w] = r]
    BY <1>3 DEF settings_crash
  <2>2. r \in Request /\ r.step = "died" /\ r.patch = writer[w].patch
    BY <1>0 DEF Request
  <2> HIDE DEF r
  <2>3. /\ writer' \in [Writers -> Request] /\ writer'[w].step = "died"
        /\ \A v \in Writers \ {w} : writer'[v] = writer[v]
        /\ \A v \in Writers : writer'[v].patch = writer[v].patch
    BY <1>0, <2>1, <2>2
  <2>4. LastNamedStands'
    BY <2>1, <2>3, LastNamedKept
  <2>5. LogsOK'
    BY <1>0, <2>1, <2>3 DEF SettingsInv, LogsOK
  <2>6. \A i \in DOMAIN trail : trail[i].by \in Writers
    BY TrailBy DEF SettingsInv
  <2>9. TrailInventsNothing'
    BY <2>1, <2>3, <2>6 DEF SettingsInv, TrailInventsNothing, owes, names_toggles
  <2>7. OwesTheRest'
    BY <2>1, <2>3 DEF SettingsInv, OwesTheRest, Row, owes, names_toggles
  <2>8. SettingsTypeOK'
    BY <2>1, <2>3 DEF SettingsInv, SettingsTypeOK, Request
  <2> QED
    BY <2>4, <2>5, <2>7, <2>9, <2>8 DEF SettingsInv
<1>4. ASSUME soft_delete_tenant PROVE SettingsInv'
  <2>1. UNCHANGED <<settings, writer, merged, trail>> /\ tenantLive' = FALSE
    BY <1>4 DEF soft_delete_tenant
  <2>2. LastNamedStands'
    BY <2>1, LastNamedKept
  <2>3. TrailInventsNothing'
    BY <2>1 DEF SettingsInv, TrailInventsNothing, owes, names_toggles
  <2>4. OwesTheRest'
    BY <2>1 DEF SettingsInv, OwesTheRest, Row, owes, names_toggles
  <2> QED
    BY <2>1, <2>2, <2>3, <2>4 DEF SettingsInv, LogsOK, SettingsTypeOK
<1> QED
  BY <1>1, <1>2, <1>3, <1>4 DEF SettingsNext

\* The defaults that the owner's page shows hide no switch from the claim.
LEMMA SwitchKept == SettingsInv => SwitchIsObeyed
<1> SUFFICES ASSUME SettingsInv PROVE SwitchIsObeyed
  OBVIOUS
<1>1. settings \in [toggles : [Toggles -> Switch], whole : [Whole -> Writers \union {NoWriter}]]
  BY DEF SettingsInv, SettingsTypeOK
<1>2. settings_result.toggles = [k \in Toggles |-> IF settings.toggles[k] = "absent" THEN "off"
                                                   ELSE settings.toggles[k]]
  BY <1>1 DEF settings_result
<1> QED
  BY <1>2, SettingsAssumption DEF SwitchIsObeyed, deposits_enabled, SettingsAssumption

----------------------------------------------------------------------------
(* The appointment types. *)

\* No two live types share a name.
NamesDiffer == \A t, u \in live_types : t # u => types[t].row.name # types[u].row.name

TypesInv == TypesTypeOK /\ NamesDiffer

\* No type yet, and no edit.
LEMMA InitTypesInv == TypesInit => TypesInv
<1> SUFFICES ASSUME TypesInit PROVE TypesInv
  OBVIOUS
<1>1. \E f : f \in AppointmentType
  <2>1. PICK n : n \in Names
    BY TypesAssumption DEF TypesAssumption
  <2>2. [name |-> n, deposit_required |-> FALSE, deposit_amount_agorot |-> NoAmount] \in AppointmentType
    BY <2>1 DEF AppointmentType
  <2> QED
    BY <2>2
<1>2. (CHOOSE f \in AppointmentType : TRUE) \in AppointmentType
  BY <1>1
<1>3. (CHOOSE t \in TypeIds : TRUE) \in TypeIds
  BY TypesAssumption DEF TypesAssumption
<1> DEFINE f == CHOOSE f \in AppointmentType : TRUE
           t == CHOOSE t \in TypeIds : TRUE
<1>4. /\ types = [u \in TypeIds |-> [stage |-> "none", row |-> f]]
      /\ editor = [e \in Editors |-> [step |-> "none", of |-> t, read |-> f, want |-> f]]
  BY DEF TypesInit
<1> HIDE DEF f, t
<1>5. f \in AppointmentType /\ t \in TypeIds
  BY <1>2, <1>3 DEF f, t
<1> HIDE <1>2, <1>3
<1>6. TypesTypeOK
  BY <1>4, <1>5 DEF TypesTypeOK
<1>7. live_types = {}
  BY <1>4 DEF live_types
<1> QED
  BY <1>6, <1>7 DEF TypesInv, NamesDiffer

\* A row that is torn between what was read and what is stored is still a row.
LEMMA TornRow ==
    ASSUME TypesInv, NEW e \in Editors
    PROVE  flushed_row(e) \in AppointmentType
<1>1. /\ editor[e].want \in AppointmentType /\ editor[e].read \in AppointmentType
      /\ types[editor[e].of].row \in AppointmentType
  BY DEF TypesInv, TypesTypeOK
<1> QED
  BY <1>1 DEF flushed_row, flushed, AppointmentType

\* Each verb on the types, and each half of an edit, keeps them typed and the live
\* names apart.
LEMMA TypesStep == TypesInv /\ TypesNext => TypesInv'
<1> SUFFICES ASSUME TypesInv, TypesNext PROVE TypesInv'
  OBVIOUS
<1> USE TypesAssumption DEF TypesAssumption
<1> DEFINE Type == [stage : {"none", "live", "archived"}, row : AppointmentType]
           Edit == [step : {"none", "read", "done", "refused"}, of : TypeIds,
                    read : AppointmentType, want : AppointmentType]
<1>0. types \in [TypeIds -> Type] /\ editor \in [Editors -> Edit]
  BY DEF TypesInv, TypesTypeOK
<1>1. ASSUME NEW t \in TypeIds, NEW f \in Forms, create_appointment_type(t, f) PROVE TypesInv'
  <2>1. /\ types' = [types EXCEPT ![t] = [stage |-> "live", row |-> f]] /\ UNCHANGED editor
        /\ f \in AppointmentType
        /\ \A u \in live_types \ {t} : types[u].row.name # f.name
    BY <1>1 DEF create_appointment_type, types_insert, name_taken
  <2>2. types' \in [TypeIds -> Type]
    BY <1>0, <2>1
  <2>3. /\ types'[t].row = f
        /\ \A u \in TypeIds \ {t} : types'[u] = types[u]
    BY <1>0, <2>1
  <2>4. NamesDiffer'
    BY <2>1, <2>3 DEF TypesInv, NamesDiffer, live_types
  <2> QED
    BY <1>0, <2>1, <2>2, <2>4 DEF TypesInv, TypesTypeOK
<1>2. ASSUME NEW t \in TypeIds, archive_appointment_type(t) PROVE TypesInv'
  <2>1. types' = [types EXCEPT ![t].stage = "archived"] /\ UNCHANGED editor
    BY <1>2 DEF archive_appointment_type, types_soft_delete
  <2>2. /\ types' \in [TypeIds -> Type] /\ types'[t].stage = "archived"
        /\ \A u \in TypeIds \ {t} : types'[u] = types[u]
    BY <1>0, <2>1
  <2>3. NamesDiffer'
    BY <2>2 DEF TypesInv, NamesDiffer, live_types
  <2> QED
    BY <1>0, <2>1, <2>2, <2>3 DEF TypesInv, TypesTypeOK
<1>3. ASSUME NEW e \in Editors, NEW t \in TypeIds, NEW f \in Forms, update_appointment_type(e, t, f) PROVE TypesInv'
  <2> DEFINE found == [step |-> "read", of |-> t, read |-> types[t].row, want |-> f]
             gone == [editor[e] EXCEPT !.step = "refused"]
             r == IF t \in live_types THEN found ELSE gone
  <2>1. found \in Edit /\ gone \in Edit
    BY <1>0
  <2>2. editor' = [editor EXCEPT ![e] = r] /\ UNCHANGED types
    BY <1>3 DEF update_appointment_type
  <2>3. r \in Edit
    BY <2>1
  <2> HIDE DEF r
  <2>4. editor' \in [Editors -> Edit]
    BY <1>0, <2>2, <2>3
  <2> QED
    BY <1>0, <2>2, <2>4 DEF TypesInv, TypesTypeOK, NamesDiffer, live_types
<1>4. ASSUME NEW e \in Editors, flush_appointment_type(e) PROVE TypesInv'
  <2> DEFINE t == editor[e].of
             refused == t \in live_types /\ name_taken(t, flushed_row(e).name)
  <2>1. /\ types' = IF refused THEN types ELSE [types EXCEPT ![t].row = flushed_row(e)]
        /\ editor' = [editor EXCEPT ![e].step = IF refused THEN "refused" ELSE "done"]
        /\ t \in TypeIds
    BY <1>0, <1>4 DEF flush_appointment_type
  <2>2. editor' \in [Editors -> Edit]
    BY <1>0, <2>1
  <2>3. flushed_row(e) \in AppointmentType
    BY TornRow
  <2>4. CASE refused
    BY <1>0, <2>1, <2>2, <2>4 DEF TypesInv, TypesTypeOK, NamesDiffer, live_types
  <2>5. CASE ~refused
    <3>1. types' = [types EXCEPT ![t].row = flushed_row(e)]
      BY <2>1, <2>5
    <3>2. t \in live_types => \A u \in live_types \ {t} : types[u].row.name # flushed_row(e).name
      BY <2>5 DEF name_taken
    <3> DEFINE row == flushed_row(e)
    <3> HIDE DEF row, refused, t
    <3>3. /\ types' \in [TypeIds -> Type] /\ types'[t].row = row /\ types'[t].stage = types[t].stage
          /\ \A u \in TypeIds \ {t} : types'[u] = types[u]
      <4>1. t \in TypeIds /\ row \in AppointmentType /\ types' = [types EXCEPT ![t].row = row]
        BY <2>1, <2>3, <3>1 DEF row
      <4>2. types[t] \in Type /\ [types[t] EXCEPT !.row = row] \in Type
            /\ [types[t] EXCEPT !.row = row].row = row /\ [types[t] EXCEPT !.row = row].stage = types[t].stage
        BY <1>0, <4>1
      <4>3. types' = [types EXCEPT ![t] = [types[t] EXCEPT !.row = row]]
        BY <4>1
      <4> HIDE DEF Type
      <4> QED
        BY <1>0, <4>1, <4>2, <4>3
    <3>4. NamesDiffer'
      BY <2>1, <3>2, <3>3 DEF TypesInv, NamesDiffer, live_types, row
    <3> QED
      BY <2>2, <3>3, <3>4 DEF TypesInv, TypesTypeOK
  <2> QED
    BY <2>4, <2>5
<1> QED
  BY <1>1, <1>2, <1>3, <1>4 DEF TypesNext

\* A torn row may require a deposit without an amount; what is disclosed of it
\* never does.
LEMMA TypesKept == TypesInv => TypesAreSound
<1> SUFFICES ASSUME TypesInv, NEW t \in TypeIds, NEW enabled \in BOOLEAN, NEW connected \in BOOLEAN
             PROVE  validate_appointment_type(disclosed(enabled, types[t].row, connected))
  BY DEF TypesAreSound, TypesInv, NamesDiffer
<1> DEFINE row == types[t].row
<1>1. row \in AppointmentType
  BY DEF TypesInv, TypesTypeOK
<1> HIDE DEF row
<1>2. CASE deposit_due(enabled, row, connected)
  <2>1. disclosed(enabled, row, connected) = row
    BY <1>2 DEF disclosed
  <2>2. row.deposit_amount_agorot # NoAmount
    BY <1>1, <1>2 DEF deposit_due, AppointmentType, NoAmount
  <2> QED
    BY <2>1, <2>2 DEF validate_appointment_type, row
<1>3. CASE ~deposit_due(enabled, row, connected)
  <2>1. disclosed(enabled, row, connected) = hide_deposit(row)
    BY <1>3 DEF disclosed
  <2>2. hide_deposit(row).deposit_required = FALSE
    BY <1>1 DEF hide_deposit, AppointmentType
  <2> QED
    BY <2>1, <2>2 DEF validate_appointment_type, row
<1> QED
  BY <1>2, <1>3 DEF row

----------------------------------------------------------------------------
(* Sums. *)

SumOf(h, S) == MapThenSumSet(LAMBDA x : h[x], S)

one(s) == CHOOSE x \in s : TRUE

Rest(s) == s \ {one(s)}

\* What the sum over s is, if g is the sum over fewer.
FromRest(h, g, s) == IF s = {} THEN 0 ELSE h[one(s)] + g[Rest(s)]

\* g is the sum over every subset of S.
Adds(h, g, S) == \A s \in SUBSET S : g[s] = FromRest(h, g, s)

\* A set of numbers that is not empty has a least one.
LEMMA LeastExists ==
    ASSUME NEW T \in SUBSET Nat, T # {}
    PROVE  \E n \in T : \A m \in T : n <= m
<1>1. IsWellFoundedOn(OpToRel(<, Nat), Nat)
  BY NatLessThanWellFounded
<1>2. PICK n \in T : \A m \in T : ~ (<<m, n>> \in OpToRel(<, Nat))
  BY <1>1, WFMin
<1>3. \A m \in T : ~ (m < n)
  BY <1>2 DEF OpToRel
<1> QED
  BY <1>3

\* A family of finite sets that is not empty has a member none of whose proper
\* subsets is in it.
LEMMA SmallestSet ==
    ASSUME NEW S, IsFiniteSet(S), NEW Bad \in SUBSET SUBSET S, Bad # {}
    PROVE  \E B \in Bad : \A C \in SUBSET B : C # B => C \notin Bad
<1>1. IsWellFoundedOn(StrictSubsetOrdering(S), FiniteSubsetsOf(S))
  BY FS_StrictSubsetOrderingWellFounded
<1>2. Bad \subseteq FiniteSubsetsOf(S)
  BY FS_FiniteSubsetsOfFinite
<1>3. PICK B \in Bad : \A C \in Bad : ~ (<<C, B>> \in StrictSubsetOrdering(S))
  BY <1>1, <1>2, WFMin
<1>4. ASSUME NEW C \in SUBSET B, C # B, C \in Bad PROVE FALSE
  <2>1. <<C, B>> \in StrictSubsetOrdering(S)
    BY <1>3, <1>4 DEF StrictSubsetOrdering
  <2> QED
    BY <1>3, <1>4, <2>1
<1> QED
  BY <1>4

\* What is left of a set that is not empty.
LEMMA RestIs ==
    ASSUME NEW S, IsFiniteSet(S), NEW s \in SUBSET S, s # {}
    PROVE  /\ one(s) \in s /\ Rest(s) \in SUBSET S /\ Rest(s) # s /\ Rest(s) \subseteq s
           /\ IsFiniteSet(s) /\ IsFiniteSet(Rest(s))
           /\ Cardinality(s) \in Nat /\ Cardinality(Rest(s)) = Cardinality(s) - 1
<1>1. one(s) \in s
  BY DEF one
<1>2. IsFiniteSet(s) /\ Cardinality(s) \in Nat
  BY FS_Subset, FS_CardinalityType
<1>3. IsFiniteSet(Rest(s)) /\ Cardinality(Rest(s)) = Cardinality(s) - 1
  BY <1>1, <1>2, FS_RemoveElement DEF Rest
<1> QED
  BY <1>1, <1>2, <1>3 DEF Rest

\* The recursion that the sum is written with has a solution.
LEMMA SumExists ==
    ASSUME NEW S, IsFiniteSet(S), NEW h \in [S -> Int]
    PROVE  \E g \in [SUBSET S -> Int] : \A s \in SUBSET S : g[s] = FromRest(h, g, s)
<1> DEFINE Good(n) == \E g \in [SUBSET S -> Int] :
                         \A s \in SUBSET S : Cardinality(s) <= n => g[s] = FromRest(h, g, s)
           Bad == {n \in Nat : ~Good(n)}
<1>0. \A s \in SUBSET S : IsFiniteSet(s) /\ Cardinality(s) \in Nat /\ Cardinality(s) <= Cardinality(S)
  BY FS_Subset, FS_CardinalityType
<1>1. Good(0)
  <2> DEFINE g == [s \in SUBSET S |-> 0]
  <2>1. \A s \in SUBSET S : Cardinality(s) <= 0 => s = {}
    BY <1>0, FS_EmptySet
  <2>2. \A s \in SUBSET S : Cardinality(s) <= 0 => g[s] = FromRest(h, g, s)
    BY <2>1 DEF FromRest
  <2>3. g \in [SUBSET S -> Int]
    OBVIOUS
  <2> HIDE DEF g
  <2> QED
    BY <2>2, <2>3
<1>2. ASSUME NEW n \in Nat, Good(n) PROVE Good(n + 1)
  <2>1. PICK g \in [SUBSET S -> Int] :
              \A s \in SUBSET S : Cardinality(s) <= n => g[s] = FromRest(h, g, s)
    BY <1>2
  <2> DEFINE k == [s \in SUBSET S |-> FromRest(h, g, s)]
  <2>2. k \in [SUBSET S -> Int]
    <3>1. ASSUME NEW s \in SUBSET S PROVE FromRest(h, g, s) \in Int
      <4>1. CASE s = {}
        BY <4>1 DEF FromRest
      <4>2. CASE s # {}
        <5>1. one(s) \in S /\ Rest(s) \in SUBSET S
          BY <4>2, RestIs
        <5> QED
          BY <4>2, <5>1 DEF FromRest
      <4> QED
        BY <4>1, <4>2
    <3> QED
      BY <3>1
  <2>3. ASSUME NEW s \in SUBSET S, Cardinality(s) <= n + 1 PROVE k[s] = FromRest(h, k, s)
    <3>1. k[s] = FromRest(h, g, s)
      OBVIOUS
    <3>2. CASE s = {}
      BY <3>1, <3>2 DEF FromRest
    <3>3. CASE s # {}
      <4>1. Rest(s) \in SUBSET S /\ Cardinality(Rest(s)) <= n
        BY <1>0, <2>3, <3>3, RestIs
      <4>2. g[Rest(s)] = FromRest(h, g, Rest(s)) /\ k[Rest(s)] = FromRest(h, g, Rest(s))
        BY <2>1, <4>1
      <4> HIDE DEF k
      <4> QED
        BY <3>1, <3>3, <4>2 DEF FromRest
    <3> QED
      BY <3>2, <3>3
  <2> HIDE DEF k
  <2> QED
    BY <2>2, <2>3
<1>3. \A n \in Nat : Good(n)
  <2> SUFFICES ASSUME Bad # {} PROVE FALSE
    OBVIOUS
  <2>1. PICK n \in Bad : \A m \in Bad : n <= m
    BY LeastExists
  <2> HIDE DEF Good
  <2>2. n # 0 /\ n \in Nat /\ ~Good(n)
    BY <1>1, <2>1
  <2>3. n - 1 \in Nat /\ n - 1 \notin Bad /\ n = (n - 1) + 1
    BY <2>1, <2>2
  <2>4. Good(n - 1)
    BY <2>3
  <2>5. Good((n - 1) + 1)
    BY <1>2, <2>3, <2>4
  <2> QED
    BY <2>2, <2>3, <2>5
<1>4. Cardinality(S) \in Nat
  BY FS_CardinalityType
<1>5. Good(Cardinality(S))
  BY <1>3, <1>4
<1> QED
  BY <1>0, <1>5

\* And one only: two solutions agree where their terms do.
LEMMA SumUnique ==
    ASSUME NEW S, IsFiniteSet(S), NEW T \in SUBSET S, NEW h, NEW k, \A x \in T : h[x] = k[x],
           NEW f, Adds(h, f, S), NEW g, Adds(k, g, T)
    PROVE  \A s \in SUBSET T : f[s] = g[s]
<1> DEFINE Bad == {s \in SUBSET T : f[s] # g[s]}
<1> SUFFICES ASSUME Bad # {} PROVE FALSE
  OBVIOUS
<1>1. IsFiniteSet(T)
  BY FS_Subset
<1>2. PICK B \in Bad : \A C \in SUBSET B : C # B => C \notin Bad
  <2>1. Bad \in SUBSET SUBSET T
    OBVIOUS
  <2> HIDE DEF Bad
  <2> QED
    BY <1>1, <2>1, SmallestSet
<1>3. B \in SUBSET T /\ B \in SUBSET S /\ f[B] = FromRest(h, f, B) /\ g[B] = FromRest(k, g, B) /\ f[B] # g[B]
  BY DEF Adds
<1>4. CASE B = {}
  BY <1>3, <1>4 DEF FromRest
<1>5. CASE B # {}
  <2>1. one(B) \in B /\ Rest(B) \in SUBSET T /\ Rest(B) # B /\ Rest(B) \subseteq B
    BY <1>1, <1>3, <1>5, RestIs
  <2>2. f[Rest(B)] = g[Rest(B)]
    BY <1>2, <2>1
  <2>3. h[one(B)] = k[one(B)]
    BY <1>3, <2>1
  <2> HIDE DEF Bad
  <2> QED
    BY <1>3, <1>5, <2>2, <2>3 DEF FromRest
<1> QED
  BY <1>4, <1>5

\* The sum is that solution.
LEMMA SumSolves ==
    ASSUME NEW S, IsFiniteSet(S), NEW h \in [S -> Int],
           NEW f \in [SUBSET S -> Int], \A s \in SUBSET S : f[s] = FromRest(h, f, s)
    PROVE  \A T \in SUBSET S : SumOf(h, T) = f[T]
<1> TAKE T \in SUBSET S
<1> DEFINE Solves(g) == g = [s \in SUBSET T |-> IF s = {} THEN 0 ELSE h[one(s)] + g[s \ {one(s)}]]
           it == CHOOSE g : Solves(g)
<1>1. SumOf(h, T) = it[T]
  BY DEF SumOf, MapThenSumSet, MapThenFoldSet, one
<1>2. \E g : Solves(g)
  <2> DEFINE g == [s \in SUBSET T |-> f[s]]
  <2>1. IsFiniteSet(T)
    BY FS_Subset
  <2>2. \A s \in SUBSET T : g[s] = IF s = {} THEN 0 ELSE h[one(s)] + g[s \ {one(s)}]
    <3> SUFFICES ASSUME NEW s \in SUBSET T PROVE g[s] = IF s = {} THEN 0 ELSE h[one(s)] + g[s \ {one(s)}]
      OBVIOUS
    <3>1. s \in SUBSET S /\ Rest(s) \in SUBSET T
      BY DEF Rest
    <3>2. f[s] = FromRest(h, f, s)
      BY <3>1
    <3> QED
      BY <3>1, <3>2 DEF FromRest, Rest
  <2>3. g = [s \in SUBSET T |-> g[s]]
    OBVIOUS
  <2>4. Solves(g)
    <3> HIDE DEF g
    <3> QED
      BY <2>2, <2>3
  <2> HIDE DEF g, Solves
  <2> QED
    BY <2>4
<1>3. Solves(it)
  <2> HIDE DEF Solves
  <2> QED
    BY <1>2
<1>4. Adds(h, it, T)
  <2> HIDE DEF it
  <2> QED
    BY <1>3 DEF Adds, FromRest, Rest
<1> HIDE DEF it, Solves
<1>5. \A s \in SUBSET T : f[s] = it[s]
  <2>1. (\A x \in T : h[x] = h[x]) /\ Adds(h, f, S)
    BY DEF Adds
  <2> QED
    BY <1>4, <2>1, SumUnique
<1> QED
  BY <1>1, <1>5

\* The sum of nothing is nothing; any term can be taken out; it is a number, and
\* only the terms of the set count.
LEMMA SumEmpty == \A h : SumOf(h, {}) = 0
<1> SUFFICES ASSUME NEW h PROVE SumOf(h, {}) = 0
  OBVIOUS
<1> DEFINE Solves(g) == g = [s \in SUBSET {} |-> IF s = {} THEN 0 ELSE h[one(s)] + g[s \ {one(s)}]]
           it == CHOOSE g : Solves(g)
<1>1. SumOf(h, {}) = it[{}]
  BY DEF SumOf, MapThenSumSet, MapThenFoldSet, one
<1>2. \E g : Solves(g)
  <2> DEFINE g == [s \in SUBSET {} |-> 0]
  <2>1. Solves(g)
    OBVIOUS
  <2> HIDE DEF g, Solves
  <2> QED
    BY <2>1
<1>3. Solves(it)
  <2> HIDE DEF Solves
  <2> QED
    BY <1>2
<1>4. it[{}] = 0
  <2> HIDE DEF it
  <2> QED
    BY <1>3
<1> QED
  BY <1>1, <1>4

LEMMA SumTakeOut ==
    ASSUME NEW S, IsFiniteSet(S), NEW h \in [S -> Int]
    PROVE  /\ \A T \in SUBSET S : SumOf(h, T) \in Int
           /\ \A T \in SUBSET S : \A x \in T : SumOf(h, T) = h[x] + SumOf(h, T \ {x})
<1>1. PICK f \in [SUBSET S -> Int] : \A s \in SUBSET S : f[s] = FromRest(h, f, s)
  BY SumExists
<1>2. \A T \in SUBSET S : SumOf(h, T) = f[T]
  BY <1>1, SumSolves
<1> DEFINE Bad == {T \in SUBSET S : \E x \in T : f[T] # h[x] + f[T \ {x}]}
<1>3. ASSUME Bad # {} PROVE FALSE
  <2>1. PICK B \in Bad : \A C \in SUBSET B : C # B => C \notin Bad
    <3>1. Bad \in SUBSET SUBSET S
      OBVIOUS
    <3> HIDE DEF Bad
    <3> QED
      BY <1>3, <3>1, SmallestSet
  <2>2. PICK x \in B : f[B] # h[x] + f[B \ {x}]
    OBVIOUS
  <2>3. B \in SUBSET S /\ B # {}
    BY <2>2
  <2> DEFINE y == one(B)
             C == B \ {x, y}
  <2>4. y \in B /\ f[B] = h[y] + f[B \ {y}]
    BY <1>1, <2>3, RestIs DEF FromRest, Rest
  <2>5. x # y
    BY <2>2, <2>4
  <2>6. B \ {y} \in SUBSET B /\ B \ {y} # B /\ x \in B \ {y} /\ (B \ {y}) \ {x} = C
    BY <2>2, <2>4, <2>5
  <2>7. B \ {x} \in SUBSET B /\ B \ {x} # B /\ y \in B \ {x} /\ (B \ {x}) \ {y} = C
    BY <2>2, <2>4, <2>5
  <2> HIDE DEF y, C
  <2>8. f[B \ {y}] = h[x] + f[C]
    BY <2>1, <2>3, <2>6
  <2>9. f[B \ {x}] = h[y] + f[C]
    BY <2>1, <2>3, <2>7
  <2>10. h[x] \in Int /\ h[y] \in Int /\ f[C] \in Int
    BY <2>2, <2>3, <2>4 DEF C
  <2> QED
    BY <2>2, <2>4, <2>8, <2>9, <2>10
<1>4. \A T \in SUBSET S : \A x \in T : f[T] = h[x] + f[T \ {x}]
  BY <1>3
<1>5. \A T \in SUBSET S : \A x \in T : T \ {x} \in SUBSET S
  OBVIOUS
<1> QED
  BY <1>2, <1>4, <1>5

LEMMA SumOfSame ==
    ASSUME NEW S, IsFiniteSet(S), NEW h, NEW k, \A x \in S : h[x] = k[x] /\ h[x] \in Int
    PROVE  SumOf(h, S) = SumOf(k, S)
<1> DEFINE m == [x \in S |-> h[x]]
<1>1. m \in [S -> Int]
  OBVIOUS
<1>2. SumOf(m, S) = SumOf(h, S)
  BY ZenonT(60) DEF SumOf, MapThenSumSet, MapThenFoldSet
<1>3. SumOf([x \in S |-> k[x]], S) = SumOf(k, S)
  BY ZenonT(60) DEF SumOf, MapThenSumSet, MapThenFoldSet
<1>4. m = [x \in S |-> k[x]]
  OBVIOUS
<1> QED
  BY <1>2, <1>3, <1>4

\* Larger terms, larger sum.
LEMMA SumMonotone ==
    ASSUME NEW S, IsFiniteSet(S), NEW f \in [S -> Int], NEW g \in [S -> Int], \A x \in S : f[x] <= g[x]
    PROVE  \A T \in SUBSET S : SumOf(f, T) <= SumOf(g, T)
<1> DEFINE Bad == {T \in SUBSET S : ~(SumOf(f, T) <= SumOf(g, T))}
<1>1. ASSUME Bad # {} PROVE FALSE
  <2>1. PICK B \in Bad : \A C \in SUBSET B : C # B => C \notin Bad
    <3>1. Bad \in SUBSET SUBSET S
      OBVIOUS
    <3> HIDE DEF Bad
    <3> QED
      BY <1>1, <3>1, SmallestSet
  <2>2. B \in SUBSET S /\ ~(SumOf(f, B) <= SumOf(g, B))
    OBVIOUS
  <2>3. B # {}
    BY <2>2, SumEmpty
  <2>4. PICK x \in B : TRUE
    BY <2>3
  <2>5. B \ {x} \in SUBSET B /\ B \ {x} # B /\ B \ {x} \in SUBSET S /\ x \in S
    BY <2>2, <2>4
  <2>6. SumOf(f, B \ {x}) <= SumOf(g, B \ {x})
    BY <2>1, <2>5
  <2>7. /\ SumOf(f, B) = f[x] + SumOf(f, B \ {x}) /\ SumOf(g, B) = g[x] + SumOf(g, B \ {x})
        /\ SumOf(f, B \ {x}) \in Int /\ SumOf(g, B \ {x}) \in Int
    BY <2>2, <2>4, <2>5, SumTakeOut
  <2> QED
    BY <2>2, <2>5, <2>6, <2>7
<1> QED
  BY <1>1

\* No term that is at least nothing exceeds the sum.
LEMMA SumOfNats ==
    ASSUME NEW S, IsFiniteSet(S), NEW h \in [S -> Nat]
    PROVE  \A x \in S : h[x] <= SumOf(h, S)
<1> DEFINE zero == [x \in S |-> 0]
           Bad == {T \in SUBSET S : SumOf(zero, T) # 0}
<1>1. h \in [S -> Int] /\ zero \in [S -> Int] /\ \A x \in S : zero[x] = 0 /\ zero[x] <= h[x]
  OBVIOUS
<1>2. ASSUME Bad # {} PROVE FALSE
  <2>1. PICK B \in Bad : \A C \in SUBSET B : C # B => C \notin Bad
    <3>1. Bad \in SUBSET SUBSET S
      OBVIOUS
    <3> HIDE DEF Bad
    <3> QED
      BY <1>2, <3>1, SmallestSet
  <2>2. B \in SUBSET S /\ SumOf(zero, B) # 0
    OBVIOUS
  <2>3. PICK x \in B : TRUE
    BY <2>2, SumEmpty
  <2>4. B \ {x} \in SUBSET B /\ B \ {x} # B /\ B \ {x} \in SUBSET S
    BY <2>2, <2>3
  <2>5. SumOf(zero, B \ {x}) = 0
    BY <2>1, <2>4
  <2> HIDE DEF zero
  <2>6. SumOf(zero, B) = zero[x] + SumOf(zero, B \ {x})
    BY <1>1, <2>2, <2>3, SumTakeOut
  <2> QED
    BY <1>1, <2>2, <2>3, <2>5, <2>6
<1>3. \A T \in SUBSET S : SumOf(zero, T) = 0
  BY <1>2
<1> HIDE DEF zero, Bad
<1>4. \A T \in SUBSET S : SumOf(zero, T) <= SumOf(h, T)
  BY <1>1, SumMonotone
<1> TAKE x \in S
<1>5. SumOf(h, S) = h[x] + SumOf(h, S \ {x}) /\ SumOf(h, S \ {x}) \in Int /\ S \ {x} \in SUBSET S
  BY <1>1, SumTakeOut
<1> QED
  BY <1>1, <1>3, <1>4, <1>5

\* What two sums differ by, where each term of the difference is named by a term
\* of both and the others are alike.
LEMMA SumDifference ==
    ASSUME NEW S, IsFiniteSet(S), NEW f \in [S -> Int], NEW g \in [S -> Int],
           NEW U, IsFiniteSet(U), NEW r \in [U -> Int], NEW name \in [U -> S],
           \A u, v \in U : name[u] = name[v] => u = v,
           \A u \in U : f[name[u]] - g[name[u]] = r[u],
           \A x \in S : (\A u \in U : name[u] # x) => f[x] = g[x]
    PROVE  SumOf(f, S) - SumOf(g, S) = SumOf(r, U)
<1> DEFINE Named(T) == {u \in U : name[u] \in T}
           Bad == {T \in SUBSET S : SumOf(f, T) - SumOf(g, T) # SumOf(r, Named(T))}
<1>1. ASSUME Bad # {} PROVE FALSE
  <2>1. PICK B \in Bad : \A C \in SUBSET B : C # B => C \notin Bad
    <3>1. Bad \in SUBSET SUBSET S
      OBVIOUS
    <3> HIDE DEF Bad
    <3> QED
      BY <1>1, <3>1, SmallestSet
  <2>2. B \in SUBSET S /\ SumOf(f, B) - SumOf(g, B) # SumOf(r, Named(B))
    OBVIOUS
  <2>3. B # {}
    <3>1. ASSUME B = {} PROVE FALSE
      <4>1. Named(B) = {}
        BY <3>1
      <4> HIDE DEF Named
      <4>2. SumOf(f, B) = 0 /\ SumOf(g, B) = 0 /\ SumOf(r, Named(B)) = 0
        BY <3>1, <4>1, SumEmpty
      <4> QED
        BY <2>2, <4>2
    <3> QED
      BY <3>1
  <2>4. PICK x \in B : TRUE
    BY <2>3
  <2>5. B \ {x} \in SUBSET B /\ B \ {x} # B /\ B \ {x} \in SUBSET S /\ x \in S
    BY <2>2, <2>4
  <2>6. SumOf(f, B \ {x}) - SumOf(g, B \ {x}) = SumOf(r, Named(B \ {x}))
    BY <2>1, <2>5
  <2>7. /\ SumOf(f, B) = f[x] + SumOf(f, B \ {x}) /\ SumOf(g, B) = g[x] + SumOf(g, B \ {x})
        /\ SumOf(f, B \ {x}) \in Int /\ SumOf(g, B \ {x}) \in Int
    BY <2>2, <2>4, <2>5, SumTakeOut
  <2>8. CASE \A u \in U : name[u] # x
    <3>1. Named(B \ {x}) = Named(B) /\ f[x] = g[x]
      BY <2>5, <2>8
    <3> HIDE DEF Named
    <3> QED
      BY <2>2, <2>5, <2>6, <2>7, <3>1
  <2>9. ASSUME NEW u \in U, name[u] = x PROVE FALSE
    <3>1. Named(B \ {x}) = Named(B) \ {u} /\ u \in Named(B) /\ Named(B) \in SUBSET U
      BY <2>4, <2>9
    <3>2. f[x] - g[x] = r[u] /\ r[u] \in Int /\ f[x] \in Int /\ g[x] \in Int
      BY <2>5, <2>9
    <3> HIDE DEF Named
    <3>3. SumOf(r, Named(B)) = r[u] + SumOf(r, Named(B) \ {u}) /\ SumOf(r, Named(B) \ {u}) \in Int
      <4>1. Named(B) \ {u} \in SUBSET U
        BY <3>1
      <4> QED
        BY <3>1, <4>1, SumTakeOut
    <3> QED
      <4>1. SumOf(f, B \ {x}) - SumOf(g, B \ {x}) = SumOf(r, Named(B) \ {u})
        BY <2>6, <3>1
      <4>2. \A a, b, c, d, e \in Int : c - d = e => (a + c) - (b + d) = (a - b) + e
        OBVIOUS
      <4>3. (f[x] + SumOf(f, B \ {x})) - (g[x] + SumOf(g, B \ {x})) = r[u] + SumOf(r, Named(B) \ {u})
        BY <2>7, <3>2, <3>3, <4>1, <4>2
      <4> QED
        BY <2>2, <2>7, <3>3, <4>3
  <2> QED
    BY <2>8, <2>9
<1>2. S \in SUBSET S /\ Named(S) = U
  OBVIOUS
<1>3. SumOf(f, S) - SumOf(g, S) = SumOf(r, Named(S))
  <2> HIDE DEF Named
  <2> QED
    BY <1>1, <1>2
<1> QED
  BY <1>2, <1>3

----------------------------------------------------------------------------
(* The opening hours: numbers. *)

\* The greatest of a set of numbers that has a bound.
LEMMA MaxIs ==
    ASSUME NEW S \in SUBSET Int, S # {}, NEW b \in Int, \A x \in S : x <= b
    PROVE  Max(S) \in S /\ \A y \in S : Max(S) >= y
<1> DEFINE T == {b - x : x \in S}
<1>0. \A x \in S : b - x \in Nat
  OBVIOUS
<1>1. T \in SUBSET Nat /\ T # {}
  BY <1>0, Zenon
<1> HIDE DEF T
<1>2. PICK n \in T : \A m \in T : n <= m
  BY <1>1, LeastExists
<1>3. PICK x \in S : n = b - x
  BY <1>2 DEF T
<1>4. \A y \in S : b - y \in T
  BY DEF T
<1>5. \A y \in S : x >= y
  BY <1>2, <1>3, <1>4
<1> QED
  BY <1>5 DEF Max

\* And the least.
LEMMA MinIs ==
    ASSUME NEW S \in SUBSET Int, S # {}, NEW b \in Int, \A x \in S : b <= x
    PROVE  Min(S) \in S /\ \A y \in S : Min(S) <= y
<1> DEFINE T == {x - b : x \in S}
<1>0. \A x \in S : x - b \in Nat
  OBVIOUS
<1>1. T \in SUBSET Nat /\ T # {}
  BY <1>0, Zenon
<1> HIDE DEF T
<1>2. PICK n \in T : \A m \in T : n <= m
  BY <1>1, LeastExists
<1>3. PICK x \in S : n = x - b
  BY <1>2 DEF T
<1>4. \A y \in S : y - b \in T
  BY DEF T
<1>5. \A y \in S : x <= y
  BY <1>2, <1>3, <1>4
<1> QED
  BY <1>5 DEF Min

\* Of two numbers.
LEMMA OfTwo ==
    ASSUME NEW a \in Int, NEW b \in Int
    PROVE  /\ Max({a, b}) = IF a >= b THEN a ELSE b
           /\ Min({a, b}) = IF a <= b THEN a ELSE b
<1>1. \A x \in {a, b} : (\A y \in {a, b} : x >= y) => x = IF a >= b THEN a ELSE b
  OBVIOUS
<1>2. \A x \in {a, b} : (\A y \in {a, b} : x <= y) => x = IF a <= b THEN a ELSE b
  OBVIOUS
<1>3. \E x \in {a, b} : \A y \in {a, b} : x >= y
  OBVIOUS
<1>4. \E x \in {a, b} : \A y \in {a, b} : x <= y
  OBVIOUS
<1>5. Max({a, b}) \in {a, b} /\ \A y \in {a, b} : Max({a, b}) >= y
  BY <1>3, Zenon DEF Max
<1>6. Min({a, b}) \in {a, b} /\ \A y \in {a, b} : Min({a, b}) <= y
  BY <1>4, Zenon DEF Min
<1> QED
  BY <1>1, <1>2, <1>5, <1>6

\* Days do not overlap, and a time of a day is in it.
LEMMA DayOf ==
    ASSUME NEW d \in Nat, NEW t \in Nat, NEW L \in Nat, t < L
    PROVE  /\ d * L + t \in Nat /\ (d * L + t) \div L = d
           /\ \A e \in Nat : (e <= d => e * L <= d * L + t) /\ (d < e => d * L + t < e * L)
<1>1. d * L \in Nat
  OBVIOUS
<1>2. \A e \in Nat : e <= d => e * L <= d * L
  OBVIOUS
<1>3. \A e \in Nat : d < e => (d + 1) * L <= e * L
  OBVIOUS
<1>4. (d + 1) * L = d * L + L
  OBVIOUS
<1>5. (d * L + t) \div L = d
  OBVIOUS
<1>6. \A e \in Nat : e * L \in Nat
  OBVIOUS
<1> DEFINE m == d * L
<1> HIDE DEF m
<1> QED
  BY <1>1, <1>2, <1>3, <1>4, <1>5, <1>6

----------------------------------------------------------------------------
(* The opening hours: the clock. *)

\* A local time that exists.
Exists(local) == wall_time(astimezone(local)) = local

\* The instants of the times that exist keep their order around a midnight.
LEMMA AroundMidnight ==
    ASSUME NEW l \in Nat, Exists(l), NEW e \in 0 .. LastDate + 1
    PROVE  /\ e * DayLength <= l => midnight(e) <= astimezone(l)
           /\ l < e * DayLength => astimezone(l) < midnight(e)
<1> DEFINE m == e * DayLength
<1>1. /\ SpringAt \in Nat /\ FallAt \in Nat /\ Shift \in Nat \ {0} /\ DayLength \in Nat
      /\ LastDate \in Nat /\ SpringAt + 2 * Shift <= FallAt
      /\ m <= SpringAt \/ SpringAt + Shift <= m
  BY HoursAssumption
<1>2. e \in Nat
  BY <1>1
<1>3. m \in Nat
  BY <1>1, <1>2
<1>4. midnight(e) = astimezone(m)
  BY DEF midnight
<1> HIDE DEF m
<1>5. ~ (SpringAt <= l /\ l < SpringAt + Shift)
  BY <1>1 DEF Exists, wall_time, astimezone
<1>6. m <= l => astimezone(m) <= astimezone(l)
  BY <1>1, <1>3, <1>5 DEF astimezone
<1>7. l < m => astimezone(l) < astimezone(m)
  BY <1>1, <1>3, <1>5 DEF astimezone
<1> QED
  BY <1>4, <1>6, <1>7 DEF m

\* What a day and a time of it become.
LEMMA ToUtc ==
    ASSUME NEW d \in Dates, NEW t \in 0 .. DayLength - 1, to_utc(d, t) # NoTime
    PROVE  /\ to_utc(d, t) \in Instants
           /\ wall_time(to_utc(d, t)) = d * DayLength + t
           /\ local_date(to_utc(d, t)) = d
           /\ \A e \in Dates : /\ e <= d => midnight(e) <= to_utc(d, t)
                               /\ d <= e => to_utc(d, t) < midnight(e + 1)
<1> DEFINE l == d * DayLength + t
<1>1. /\ SpringAt \in Nat /\ FallAt \in Nat /\ Shift \in Nat \ {0} /\ DayLength \in Nat \ {0}
      /\ LastDate \in Nat
  BY HoursAssumption
<1>2. d \in Nat /\ t \in Nat /\ t < DayLength /\ d <= LastDate
  BY <1>1 DEF Dates
<1>3. /\ l \in Nat /\ l \div DayLength = d
      /\ \A e \in Nat : (e <= d => e * DayLength <= l) /\ (d < e => l < e * DayLength)
  BY <1>1, <1>2, DayOf
<1>4. Exists(l) /\ to_utc(d, t) = astimezone(l)
  BY DEF to_utc, Exists, l
<1> HIDE DEF l
<1>5. wall_time(to_utc(d, t)) = l
  BY <1>4 DEF Exists
<1>6. to_utc(d, t) \in Instants
  <2>1. LastDate + 1 \in Nat /\ d < LastDate + 1
    BY <1>1, <1>2
  <2>2. l < (LastDate + 1) * DayLength
    BY <1>3, <2>1
  <2> DEFINE end == (LastDate + 1) * DayLength
  <2>3. end \in Nat /\ l < end
    BY <1>1, <2>1, <2>2
  <2> HIDE DEF end
  <2>4. astimezone(l) \in 0 .. end - 1
    BY <1>1, <1>3, <2>3 DEF astimezone
  <2> QED
    BY <1>4, <2>4 DEF Instants, end
<1>7. ASSUME NEW e \in Dates
      PROVE  /\ e <= d => midnight(e) <= to_utc(d, t)
             /\ d <= e => to_utc(d, t) < midnight(e + 1)
  <2>1. e \in 0 .. LastDate + 1 /\ e + 1 \in 0 .. LastDate + 1
    BY <1>1 DEF Dates
  <2>2. e <= d => e * DayLength <= l
    BY <1>1, <1>3, <2>1
  <2>3. d <= e => l < (e + 1) * DayLength
    BY <1>1, <1>2, <1>3, <2>1
  <2> QED
    BY <1>3, <1>4, <2>1, <2>2, <2>3, AroundMidnight
<1>8. local_date(to_utc(d, t)) = d
  BY <1>3, <1>5 DEF local_date
<1> QED
  BY <1>5, <1>6, <1>7, <1>8 DEF l

\* Today is never before the first date.
LEMMA Today ==
    ASSUME NEW i \in Instants
    PROVE  local_date(i) \in Nat
<1>1. /\ SpringAt \in Nat /\ FallAt \in Nat /\ Shift \in Nat \ {0} /\ DayLength \in Nat \ {0}
      /\ LastDate \in Nat /\ (LastDate + 1) * DayLength \in Nat
  BY HoursAssumption
<1>2. i \in Nat
  BY <1>1 DEF Instants
<1>3. wall_time(i) \in Nat
  BY <1>1, <1>2 DEF wall_time
<1>4. \A n \in Nat, L \in Nat \ {0} : n \div L \in Nat
  OBVIOUS
<1> QED
  BY <1>1, <1>3, <1>4 DEF local_date

----------------------------------------------------------------------------
(* The opening hours: the invariant and the grid. *)

Windows == [day : Int, open : Walls, close : Walls, capacity : Int]

\* The lock is whose rows are retired; those are the live ones, and the week that
\* takes their place is a valid one.
ReplaceOK(w) ==
    /\ replace[w] = [step |-> replace[w].step, week |-> replace[w].week,
                     retired |-> replace[w].retired]
    /\ replace[w].step \in {"none", "retired", "done", "refused"}
    /\ replace[w].step = "retired" =>
          /\ hoursLock = w
          /\ replace[w].retired = rules
          /\ IsFiniteSet(replace[w].week) /\ replace[w].week \subseteq Windows
          /\ validate_weekly_rules(replace[w].week)

HoursInv ==
    /\ HoursTypeOK
    /\ now \in Instants
    /\ replace = [w \in Replaces |-> replace[w]]
    /\ \A w \in Replaces : ReplaceOK(w)
    /\ WeekIsOneSubmission

\* The slots that a date's windows make.
Offers(d) ==
    UNION {{[at |-> to_utc(d, t), capacity |-> w.capacity] : t \in starts(w)} : w \in windows_for(d)}

\* Those that exist and are ahead, of a window of dates.
Found(first, last) ==
    {o \in UNION {Offers(d) : d \in first .. last} : o.at # NoTime /\ o.at > now}

Ats(first, last) == {o.at : o \in Found(first, last)}

Seats(first, last, i) == Max({o.capacity : o \in {o \in Found(first, last) : o.at = i}})

Slot(counts, first, last, i) ==
    [at |-> i, capacity |-> Seats(first, last, i), booked |-> counts[i]]

\* The grid, put so.
LEMMA GridIs ==
    \A counts, first, last :
        materialize_slots(counts, first, last) =
            {s \in {Slot(counts, first, last, i) : i \in Ats(first, last)} : s.booked < s.capacity}
BY Zenon DEF materialize_slots, Slot, Ats, Seats, Found, Offers

\* A window's times are times of a day, its capacity is one.
LEMMA WindowIs ==
    ASSUME HoursInv, NEW d \in Dates, NEW w \in windows_for(d)
    PROVE  /\ w.open \in Walls /\ w.close \in Walls \union {NoTime}
           /\ w.capacity \in 1 .. MAX_RULE_CAPACITY
<1> DEFINE day_rules == {r \in rules : r.day = jerusalem_day_index(d)}
           caps == {r.capacity : r \in day_rules}
           least == IF day_rules = {} THEN DEFAULT_SLOT_CAPACITY ELSE Min(caps)
<1>1. MAX_RULE_CAPACITY \in Nat \ {0}
  BY HoursAssumption
<1>2. rules \subseteq AvailabilityRule /\ exceptions \subseteq AvailabilityException
  BY DEF HoursInv, HoursTypeOK
<1>3. \A r \in day_rules : /\ r.open \in Walls /\ r.close \in Walls
                           /\ r.capacity \in 1 .. MAX_RULE_CAPACITY
  BY <1>2 DEF AvailabilityRule
<1>4. caps \in SUBSET (1 .. MAX_RULE_CAPACITY) /\ (day_rules # {} => caps # {})
  BY <1>3
<1>5. /\ windows_for(d) = IF exceptions_on(d) # {}
                       THEN {Window(x, least) : x \in {x \in exceptions_on(d) : x.open # NoTime}}
                       ELSE {Window(r, r.capacity) : r \in day_rules}
  BY DEF windows_for
<1> HIDE DEF caps, day_rules
<1>6. least \in 1 .. MAX_RULE_CAPACITY
  <2>1. CASE day_rules = {}
    BY <1>1, <2>1 DEF DEFAULT_SLOT_CAPACITY
  <2>2. CASE day_rules # {}
    <3>1. caps \in SUBSET Int /\ caps # {} /\ \A x \in caps : 1 <= x
      BY <1>1, <1>4, <2>2
    <3>2. Min(caps) \in caps
      BY <3>1, MinIs
    <3> QED
      BY <1>4, <2>2, <3>2
  <2> QED
    BY <2>1, <2>2
<1> HIDE DEF least
<1>7. CASE exceptions_on(d) # {}
  <2>1. PICK x \in exceptions_on(d) : x.open # NoTime /\ w = Window(x, least)
    BY <1>5, <1>7
  <2>2. x \in AvailabilityException
    BY <1>2, <2>1 DEF exceptions_on
  <2> QED
    BY <1>6, <2>1, <2>2 DEF Window, AvailabilityException
<1>8. CASE exceptions_on(d) = {}
  <2>1. PICK r \in day_rules : w = Window(r, r.capacity)
    BY <1>5, <1>8
  <2> QED
    BY <1>3, <2>1 DEF Window
<1> QED
  BY <1>7, <1>8

\* Each start is a time of its day, within its window.
LEMMA StartIs ==
    ASSUME HoursInv, NEW d \in Dates, NEW w \in windows_for(d), NEW t \in starts(w)
    PROVE  t \in 0 .. DayLength - 1 /\ w.open <= t /\ t < w.close
<1>1. DayLength \in Nat \ {0}
  BY HoursAssumption
<1>2. w.open \in Int /\ w.close \in Int /\ 0 <= w.open /\ w.close <= DayLength
  BY <1>1, WindowIs DEF Walls, NoTime
<1> QED
  BY <1>1, <1>2 DEF starts

\* An offer that exists is of its own day and of no other.
LEMMA OfferIs ==
    ASSUME HoursInv, NEW d \in Dates, NEW o \in Offers(d), o.at # NoTime
    PROVE  /\ o.at \in Instants /\ local_date(o.at) = d
           /\ o.capacity \in 1 .. MAX_RULE_CAPACITY
           /\ o = [at |-> o.at, capacity |-> o.capacity]
           /\ \A e \in Dates : /\ e <= d => midnight(e) <= o.at
                               /\ d <= e => o.at < midnight(e + 1)
<1>1. PICK w \in windows_for(d) : \E t \in starts(w) : o = [at |-> to_utc(d, t), capacity |-> w.capacity]
  BY DEF Offers
<1>2. PICK t \in starts(w) : o = [at |-> to_utc(d, t), capacity |-> w.capacity]
  BY <1>1
<1>3. o.at = to_utc(d, t) /\ o.capacity = w.capacity
  BY <1>2
<1>4. t \in 0 .. DayLength - 1
  BY StartIs
<1>5. w.capacity \in 1 .. MAX_RULE_CAPACITY
  BY WindowIs
<1>6. /\ to_utc(d, t) \in Instants /\ local_date(to_utc(d, t)) = d
      /\ \A e \in Dates : /\ e <= d => midnight(e) <= to_utc(d, t)
                          /\ d <= e => to_utc(d, t) < midnight(e + 1)
  BY <1>3, <1>4, ToUtc
<1> QED
  BY <1>2, <1>3, <1>5, <1>6

\* What a window of dates finds at an instant is what its own day finds there.
LEMMA OwnDay ==
    ASSUME HoursInv, NEW first \in Dates, NEW last \in Dates, NEW i \in Ats(first, last)
    PROVE  /\ i \in Instants /\ i > now
           /\ local_date(i) \in first .. last /\ local_date(i) \in Dates
           /\ i \in Ats(local_date(i), local_date(i))
           /\ Seats(local_date(i), local_date(i), i) = Seats(first, last, i)
           /\ Seats(first, last, i) \in 1 .. MAX_RULE_CAPACITY
           /\ midnight(first) <= i /\ i < midnight(last + 1)
           /\ midnight(local_date(i)) <= i /\ i < midnight(local_date(i) + 1)
<1> DEFINE d == local_date(i)
<1>1. \A e \in first .. last : e \in Dates
  BY HoursAssumption, SMTT(30) DEF Dates
<1>2. ASSUME NEW o \in Found(first, last)
      PROVE  /\ local_date(o.at) \in first .. last /\ o \in Offers(local_date(o.at))
             /\ o.at # NoTime /\ o.at > now
  <2>1. PICK e \in first .. last : o \in Offers(e)
    BY DEF Found
  <2>2. o.at # NoTime /\ o.at > now
    BY DEF Found
  <2>3. local_date(o.at) = e
    BY <1>1, <2>1, <2>2, OfferIs
  <2> QED
    BY <2>1, <2>2, <2>3
<1>3. PICK o \in Found(first, last) : o.at = i
  BY DEF Ats
<1>4. d \in first .. last /\ d \in Dates /\ o \in Offers(d) /\ i # NoTime /\ i > now
  BY <1>1, <1>2, <1>3
<1>5. /\ i \in Instants
      /\ \A e \in Dates : (e <= d => midnight(e) <= i) /\ (d <= e => i < midnight(e + 1))
  BY <1>3, <1>4, OfferIs
<1>6. d \in Int /\ first <= d /\ d <= last
  BY <1>4, HoursAssumption DEF Dates
<1>7. \A p : p \in Found(d, d) <=> (p \in Offers(d) /\ p.at # NoTime /\ p.at > now)
  <2>1. \A e : e \in d .. d <=> e = d
    BY <1>6
  <2> HIDE DEF d
  <2> QED
    BY <2>1 DEF Found
<1>8. i \in Ats(d, d)
  <2>1. o \in Found(d, d)
    BY <1>3, <1>4, <1>7
  <2> QED
    BY <1>3, <2>1 DEF Ats
<1> DEFINE here == {p \in Found(first, last) : p.at = i}
           alone == {p \in Found(d, d) : p.at = i}
           caps == {p.capacity : p \in here}
<1>9. here = alone
  <2>1. \A p \in here : p \in alone
    BY <1>2, <1>7
  <2>2. \A p \in alone : p \in Found(first, last)
    BY <1>4, <1>7 DEF Found
  <2>3. \A p \in alone : p \in here
    BY <2>2
  <2> QED
    BY <2>1, <2>3
<1>10. Seats(d, d, i) = Seats(first, last, i)
  BY <1>9 DEF Seats
<1>11. Seats(first, last, i) \in 1 .. MAX_RULE_CAPACITY
  <2>1. MAX_RULE_CAPACITY \in Nat \ {0}
    BY HoursAssumption
  <2>2. \A p \in here : p.capacity \in 1 .. MAX_RULE_CAPACITY
    BY <1>1, <1>2, OfferIs
  <2>3. o \in here
    BY <1>3
  <2>4. Seats(first, last, i) = Max(caps)
    BY DEF Seats
  <2>5. caps \in SUBSET (1 .. MAX_RULE_CAPACITY) /\ caps # {}
    BY <2>2, <2>3
  <2> HIDE DEF caps, here, alone, d
  <2>6. caps \in SUBSET Int /\ \A x \in caps : x <= MAX_RULE_CAPACITY
    BY <2>1, <2>5
  <2>7. Max(caps) \in caps
    BY <2>1, <2>5, <2>6, MaxIs
  <2> QED
    BY <2>4, <2>5, <2>7
<1>12. midnight(first) <= i /\ i < midnight(last + 1)
  BY <1>5, <1>6
<1>13. midnight(d) <= i /\ i < midnight(d + 1)
  BY <1>4, <1>5, <1>6
<1> QED
  BY <1>4, <1>5, <1>8, <1>10, <1>11, <1>12, <1>13

\* And what a day finds, every window of dates around it does.
LEMMA DayIsFound ==
    ASSUME NEW first \in Int, NEW last \in Int, NEW d \in first .. last, NEW i \in Ats(d, d)
    PROVE  i \in Ats(first, last)
<1>1. PICK o \in Found(d, d) : o.at = i
  BY DEF Ats
<1>2. o \in Found(first, last)
  BY <1>1 DEF Found
<1> QED
  BY <1>1, <1>2 DEF Ats

----------------------------------------------------------------------------
(* The opening hours: the three readings. *)

LEMMA CountIs ==
    ASSUME NEW from, NEW until, NEW i \in Instants, from <= i, i < until
    PROVE  count_by_start(from, until)[i] = booked[i]
BY DEF count_by_start

\* What a day's grid holds.
LEMMA DaySlots ==
    ASSUME HoursInv, NEW d \in Dates
    PROVE  day_slots(d) = {s \in {Slot(booked, d, d, i) : i \in Ats(d, d)} : s.booked < s.capacity}
<1> DEFINE counts == count_by_start(midnight(d), midnight(d + 1))
<1>1. \A i \in Ats(d, d) : counts[i] = booked[i]
  BY OwnDay, CountIs
<1>2. day_slots(d) = {s \in {Slot(counts, d, d, i) : i \in Ats(d, d)} : s.booked < s.capacity}
  BY GridIs DEF day_slots
<1> HIDE DEF counts
<1>3. \A i \in Ats(d, d) : Slot(counts, d, d, i) = Slot(booked, d, d, i)
  BY <1>1 DEF Slot
<1> QED
  BY <1>2, <1>3

LEMMA LesserOfTwo ==
    ASSUME NEW a \in Nat, NEW b \in Nat
    PROVE  Min({a, b}) \in 0 .. b
<1>1. a \in Int /\ b \in Int
  OBVIOUS
<1>2. Min({a, b}) = IF a <= b THEN a ELSE b
  BY <1>1, OfTwo, Zenon
<1> QED
  BY <1>2

\* The window of a picker is a window of the model's dates.
LEMMA PickerWindow ==
    ASSUME now \in Instants, NEW from \in Dates, NEW to \in Dates \union {NoTime}
    PROVE  slot_window(from, to).first \in Dates /\ slot_window(from, to).last \in Dates
<1> DEFINE today == local_date(now)
           ceiling == Min({today + SLOT_WINDOW_MAX_DAYS, LastDate})
           start == Min({Max({from, today}), ceiling})
<1>1. /\ today \in Nat /\ LastDate \in Nat /\ SLOT_WINDOW_MAX_DAYS \in Nat
      /\ SLOT_WINDOW_DEFAULT_DAYS \in Nat
  BY Today, HoursAssumption
<1> HIDE DEF today
<1>2. ceiling \in Nat /\ ceiling <= LastDate
  <2>1. \A n \in Nat : Min({n, LastDate}) \in 0 .. LastDate
    BY <1>1, LesserOfTwo, Zenon
  <2>2. today + SLOT_WINDOW_MAX_DAYS \in Nat
    BY <1>1
  <2> QED
    BY <1>1, <2>1, <2>2
<1> HIDE DEF ceiling
<1>3. from \in Nat
  BY <1>1 DEF Dates
<1>4. Max({from, today}) \in Nat
  BY <1>1, <1>3, OfTwo
<1>5. start \in Nat /\ start <= ceiling
  <2> DEFINE later == Max({from, today})
  <2>1. later \in Nat
    BY <1>4
  <2> HIDE DEF later
  <2>2. Min({later, ceiling}) \in Nat /\ Min({later, ceiling}) <= ceiling
    BY <1>2, <2>1, OfTwo
  <2> QED
    BY <2>2 DEF later
<1> HIDE DEF start
<1>6. \A n \in Nat : Min({n, ceiling}) \in 0 .. LastDate
  <2>1. \A n \in Nat : Min({n, ceiling}) \in 0 .. ceiling
    BY <1>2, LesserOfTwo, Zenon
  <2> QED
    BY <1>1, <1>2, <2>1
<1>7. start + SLOT_WINDOW_DEFAULT_DAYS \in Nat /\ (to # NoTime => to \in Nat)
  BY <1>1, <1>5 DEF Dates
<1>8. slot_window(from, to) =
        [first |-> start,
         last |-> IF to = NoTime THEN Min({start + SLOT_WINDOW_DEFAULT_DAYS, ceiling})
                  ELSE Min({to, ceiling})]
  BY DEF slot_window, start, ceiling, today
<1> QED
  BY <1>1, <1>2, <1>5, <1>6, <1>7, <1>8 DEF Dates

\* What the picker shows is what the claim grants: booking/slots_io's two callers
\* read one grid.
LEMMA PickerAndClaimAgree == HoursInv => ShownIsClaimable
<1> SUFFICES ASSUME HoursInv, NEW from \in Dates, NEW to \in Dates \union {NoTime},
                    NEW s \in list_slots(from, to)
             PROVE  offered_slot(s.at) = {s}
  BY DEF ShownIsClaimable
<1> DEFINE first == slot_window(from, to).first
           last == slot_window(from, to).last
           counts == count_by_start(midnight(first), midnight(last + 1))
           i == s.at
           d == local_date(i)
<1>1. first \in Dates /\ last \in Dates
  BY PickerWindow DEF HoursInv
<1>2. s \in {x \in {Slot(counts, first, last, j) : j \in Ats(first, last)} : x.booked < x.capacity}
  BY GridIs, Zenon DEF list_slots
<1> HIDE DEF first, last
<1>3. PICK j \in Ats(first, last) : s = Slot(counts, first, last, j)
  BY <1>2
<1>4. s.booked < s.capacity /\ i = j
  BY <1>2, <1>3 DEF Slot
<1>5. /\ i \in Instants /\ d \in Dates /\ i \in Ats(d, d)
      /\ Seats(d, d, i) = Seats(first, last, i)
      /\ midnight(first) <= i /\ i < midnight(last + 1)
  BY <1>1, <1>3, <1>4, OwnDay
<1>6. counts[i] = booked[i]
  BY <1>5, CountIs
<1>7. s = Slot(booked, d, d, i)
  BY <1>3, <1>4, <1>5, <1>6 DEF Slot
<1> HIDE DEF counts, i, d
<1>8. day_slots(d) = {x \in {Slot(booked, d, d, k) : k \in Ats(d, d)} : x.booked < x.capacity}
  BY <1>5, DaySlots
<1>9. s \in day_slots(d) /\ s.at = i
  BY <1>4, <1>5, <1>7, <1>8 DEF i
<1>10. \A x \in day_slots(d) : x.at = i => x = s
  BY <1>7, <1>8 DEF Slot
<1>11. offered_slot(i) = {s}
  BY <1>9, <1>10 DEF offered_slot, d
<1> QED
  BY <1>11 DEF i

\* A slot reads, on the boutique's clock, within the hours in force.
LEMMA HoursAreKept == HoursInv => SlotsKeepTheHours
<1> SUFFICES ASSUME HoursInv, NEW d \in Dates, NEW s \in day_slots(d)
             PROVE  /\ s.at > now
                    /\ \E h \in IF exceptions_on(d) # {} THEN exceptions_on(d)
                                ELSE {r \in rules : r.day = jerusalem_day_index(d)} :
                          h.open <= wall_time(s.at) - d * DayLength
                            /\ wall_time(s.at) - d * DayLength < h.close
  BY DEF SlotsKeepTheHours
<1>1. PICK i \in Ats(d, d) : s = Slot(booked, d, d, i)
  BY DaySlots
<1>2. s.at = i
  BY <1>1 DEF Slot
<1>3. PICK o \in Found(d, d) : o.at = i
  BY DEF Ats
<1>4. d \in Int /\ \A e : e \in d .. d <=> e = d
  BY HoursAssumption DEF Dates
<1>5. o \in Offers(d) /\ i # NoTime /\ i > now
  <2>1. PICK e \in d .. d : o \in Offers(e)
    BY <1>3 DEF Found
  <2> QED
    BY <1>3, <1>4, <2>1 DEF Found
<1>6. PICK w \in windows_for(d) : \E t \in starts(w) : o = [at |-> to_utc(d, t), capacity |-> w.capacity]
  BY <1>5 DEF Offers
<1>7. PICK t \in starts(w) : o = [at |-> to_utc(d, t), capacity |-> w.capacity]
  BY <1>6
<1>8. t \in 0 .. DayLength - 1 /\ w.open <= t /\ t < w.close
  BY StartIs
<1>9. wall_time(i) = d * DayLength + t
  BY <1>3, <1>5, <1>7, <1>8, ToUtc
<1> DEFINE midnights == d * DayLength
<1>10. wall_time(i) - midnights = t
  <2>1. midnights \in Int /\ t \in Int
    BY <1>4, <1>8, HoursAssumption
  <2> HIDE DEF midnights
  <2> QED
    BY <1>9, <2>1 DEF midnights
<1> HIDE DEF midnights
<1>11. \E h \in IF exceptions_on(d) # {} THEN exceptions_on(d)
                ELSE {r \in rules : r.day = jerusalem_day_index(d)} :
          h.open = w.open /\ h.close = w.close
  <2>1. CASE exceptions_on(d) # {}
    <3>1. \E x \in exceptions_on(d) : \E c : w = Window(x, c)
      BY <2>1 DEF windows_for
    <3> QED
      BY <2>1, <3>1 DEF Window
  <2>2. CASE exceptions_on(d) = {}
    <3>1. \E r \in {r \in rules : r.day = jerusalem_day_index(d)} : w = Window(r, r.capacity)
      BY <2>2 DEF windows_for
    <3> QED
      BY <2>2, <3>1 DEF Window
  <2> QED
    BY <2>1, <2>2
<1>12. \E h \in IF exceptions_on(d) # {} THEN exceptions_on(d)
                ELSE {r \in rules : r.day = jerusalem_day_index(d)} : h.open <= t /\ t < h.close
  BY <1>8, <1>11
<1> QED
  BY <1>2, <1>5, <1>10, <1>12 DEF midnights

\* A set of records, one per instant, is finite.
LEMMA OnePerInstant ==
    ASSUME NEW S, \A s \in S : s.at \in Instants, \A s, u \in S : s.at = u.at => s = u
    PROVE  IsFiniteSet(S)
<1> DEFINE f == [s \in S |-> s.at]
<1>1. f \in Injection(S, Instants)
  BY DEF Injection, IsInjective
<1>2. (LastDate + 1) * DayLength - 1 \in Int
  BY HoursAssumption
<1> DEFINE end == (LastDate + 1) * DayLength - 1
<1> HIDE DEF f, end
<1>3. IsFiniteSet(0 .. end)
  BY <1>2, FS_Interval DEF end
<1>4. IsFiniteSet(Instants)
  BY <1>3 DEF Instants, end
<1> QED
  BY <1>1, <1>4, FS_Injection

LEMMA SumOfRemaining ==
    \A S : MapThenSumSet(LAMBDA s : remaining(s), S) = SumOf([s \in S |-> remaining(s)], S)
<1> TAKE S
<1> QED
  BY ZenonT(60) DEF SumOf, MapThenSumSet, MapThenFoldSet, remaining

\* What the dashboard leaves free is what the days still offer: forward_capacity.
LEMMA DashboardAgrees == HoursInv => TotalsAgree
<1> SUFFICES ASSUME HoursInv, NEW first \in Dates, NEW last \in Dates, first <= last
             PROVE  LET f == forward_capacity(first, last) IN
                    /\ f.booked <= f.capacity
                    /\ f.capacity - f.booked =
                          MapThenSumSet(LAMBDA s : remaining(s), UNION {day_slots(d) : d \in first .. last})
  BY DEF TotalsAgree
<1> DEFINE zero == [i \in Instants |-> 0]
           counts == count_by_start(midnight(first), midnight(last + 1))
           G == materialize_slots(zero, first, last)
           U == UNION {day_slots(d) : d \in first .. last}
           f == [s \in G |-> s.capacity]
           g == [s \in G |-> Min({counts[s.at], s.capacity})]
           r == [s \in U |-> remaining(s)]
           name == [u \in U |-> [at |-> u.at, capacity |-> u.capacity, booked |-> 0]]
           C(i) == Seats(first, last, i)
<1>1. /\ forward_capacity(first, last).capacity = SumOf(f, G)
      /\ forward_capacity(first, last).booked = SumOf(g, G)
      /\ MapThenSumSet(LAMBDA s : remaining(s), U) = SumOf(r, U)
  <2>1. MapThenSumSet(LAMBDA s : s.capacity, G) = SumOf(f, G)
    BY ZenonT(60) DEF SumOf, MapThenSumSet, MapThenFoldSet
  <2>2. MapThenSumSet(LAMBDA s : Min({counts[s.at], s.capacity}), G) = SumOf(g, G)
    BY ZenonT(60) DEF SumOf, MapThenSumSet, MapThenFoldSet
  <2>3. MapThenSumSet(LAMBDA s : remaining(s), U) = SumOf(r, U)
    BY SumOfRemaining, Zenon
  <2>4. forward_capacity(first, last) =
           [capacity |-> MapThenSumSet(LAMBDA s : s.capacity, G),
            booked |-> MapThenSumSet(LAMBDA s : Min({counts[s.at], s.capacity}), G)]
    BY DEF forward_capacity, grid_totals
  <2> QED
    BY <2>1, <2>2, <2>3, <2>4
<1>2. \A i \in Ats(first, last) :
         /\ i \in Instants /\ C(i) \in Nat \ {0}
         /\ local_date(i) \in first .. last /\ i \in Ats(local_date(i), local_date(i))
         /\ counts[i] = booked[i]
  BY OwnDay, CountIs, HoursAssumption
<1>3. \A e \in first .. last : e \in Dates
  BY HoursAssumption, SMTT(30) DEF Dates
<1>4. booked \in [Instants -> Nat]
  BY HoursAssumption DEF HoursInv, HoursTypeOK
<1>5. \A s : s \in G <=> \E i \in Ats(first, last) : s = [at |-> i, capacity |-> C(i), booked |-> 0]
  <2>1. G = {s \in {Slot(zero, first, last, i) : i \in Ats(first, last)} : s.booked < s.capacity}
    BY GridIs
  <2>2. \A i \in Ats(first, last) :
           /\ Slot(zero, first, last, i) = [at |-> i, capacity |-> C(i), booked |-> 0]
           /\ 0 < C(i)
    BY <1>2 DEF Slot
  <2> HIDE DEF G, zero, C
  <2> QED
    BY <2>1, <2>2
<1>6. \A s : s \in U <=>
         \E i \in Ats(first, last) :
            s = [at |-> i, capacity |-> C(i), booked |-> booked[i]] /\ booked[i] < C(i)
  <2>1. ASSUME NEW d \in first .. last, NEW s \in day_slots(d)
        PROVE  \E i \in Ats(first, last) :
                  s = [at |-> i, capacity |-> C(i), booked |-> booked[i]] /\ booked[i] < C(i)
    <3>1. PICK i \in Ats(d, d) : s = Slot(booked, d, d, i) /\ s.booked < s.capacity
      BY <1>3, DaySlots
    <3>2. i \in Ats(first, last)
      <4>1. first \in Int /\ last \in Int
        BY HoursAssumption DEF Dates
      <4> QED
        BY <4>1, DayIsFound
    <3>3. local_date(i) \in d .. d /\ d \in Int
      <4>1. d \in Dates
        BY <1>3
      <4>2. local_date(i) \in d .. d
        BY <4>1, OwnDay
      <4> QED
        BY <4>1, <4>2 DEF Dates
    <3>4. local_date(i) = d
      BY <3>3
    <3>5. Seats(d, d, i) = C(i)
      BY <3>2, <3>4, OwnDay
    <3> QED
      BY <3>1, <3>2, <3>5 DEF Slot
  <2>2. ASSUME NEW i \in Ats(first, last), booked[i] < C(i)
        PROVE  \E d \in first .. last :
                  [at |-> i, capacity |-> C(i), booked |-> booked[i]] \in day_slots(d)
    <3> DEFINE d == local_date(i)
               s == Slot(booked, d, d, i)
    <3>1. d \in first .. last /\ d \in Dates /\ i \in Ats(d, d) /\ Seats(d, d, i) = C(i)
      BY OwnDay
    <3> HIDE DEF d
    <3>2. s = [at |-> i, capacity |-> C(i), booked |-> booked[i]]
      BY <3>1 DEF Slot
    <3>3. s.booked < s.capacity
      BY <2>2, <3>2
    <3>4. s \in day_slots(d)
      <4>1. day_slots(d) = {x \in {Slot(booked, d, d, k) : k \in Ats(d, d)} : x.booked < x.capacity}
        BY <3>1, DaySlots
      <4> QED
        BY <3>1, <3>3, <4>1
    <3> HIDE DEF s
    <3> QED
      BY <3>1, <3>2, <3>4
  <2> HIDE DEF C
  <2> QED
    BY <2>1, <2>2
<1> HIDE DEF G, U, C, counts, zero
<1>7. /\ \A s \in G : /\ s.at \in Ats(first, last) /\ s.capacity = C(s.at) /\ s.booked = 0
                      /\ s = [at |-> s.at, capacity |-> s.capacity, booked |-> 0]
      /\ \A s, u \in G : s.at = u.at => s = u
  BY <1>5
<1>8. /\ \A s \in U : /\ s.at \in Ats(first, last) /\ s.capacity = C(s.at)
                      /\ s.booked = booked[s.at] /\ booked[s.at] < C(s.at)
      /\ \A s, u \in U : s.at = u.at => s = u
  BY <1>6
<1>9. IsFiniteSet(G) /\ IsFiniteSet(U)
  BY <1>2, <1>7, <1>8, OnePerInstant
<1>10. \A s \in G : s.capacity \in Int /\ counts[s.at] \in Int /\ counts[s.at] = booked[s.at]
  BY <1>2, <1>4, <1>7
<1>11. \A s \in G : Min({counts[s.at], s.capacity})
                        = IF booked[s.at] <= s.capacity THEN booked[s.at] ELSE s.capacity
  BY <1>10, OfTwo, Zenon
<1>12. \A s \in U : remaining(s) = s.capacity - s.booked /\ remaining(s) \in Int
  <2>1. ASSUME NEW s \in U PROVE remaining(s) = s.capacity - s.booked /\ remaining(s) \in Int
    <3>1. s.capacity \in Int /\ s.booked \in Int /\ s.booked < s.capacity
      BY <1>2, <1>4, <1>8
    <3> DEFINE n == s.capacity - s.booked
    <3>2. n \in Int /\ n >= 0
      BY <3>1
    <3> HIDE DEF n
    <3>3. Max({n, 0}) = n
      BY <3>2, OfTwo
    <3> QED
      BY <3>2, <3>3 DEF remaining, n
  <2> QED
    BY <2>1
<1>13. f \in [G -> Int] /\ g \in [G -> Int] /\ \A s \in G : g[s] <= f[s]
  <2>1. \A s \in G : Min({counts[s.at], s.capacity}) \in Int
                       /\ Min({counts[s.at], s.capacity}) <= s.capacity
    BY <1>10, <1>11
  <2> QED
    BY <1>10, <2>1
<1>14. r \in [U -> Int]
  BY <1>12
<1>15. name \in [U -> G] /\ \A u, v \in U : name[u] = name[v] => u = v
  <2>1. \A u \in U : name[u] \in G
    BY <1>5, <1>8
  <2>2. \A u, v \in U : name[u] = name[v] => u.at = v.at
    OBVIOUS
  <2> QED
    BY <1>8, <2>1, <2>2
<1>16. \A u \in U : f[name[u]] - g[name[u]] = r[u]
  <2> SUFFICES ASSUME NEW u \in U PROVE f[name[u]] - g[name[u]] = r[u]
    BY Zenon
  <2> QED
    <3>1. name[u] \in G /\ name[u].at = u.at /\ name[u].capacity = u.capacity
      BY <1>15
    <3>2. f[name[u]] = u.capacity /\ g[name[u]] = Min({counts[name[u].at], name[u].capacity})
      BY <3>1
    <3>3. u.capacity \in Int /\ u.booked \in Int /\ u.booked < u.capacity /\ u.booked = booked[u.at]
      BY <1>2, <1>4, <1>8
    <3>4. g[name[u]] = u.booked
      BY <1>11, <3>1, <3>2, <3>3
    <3>5. r[u] = u.capacity - u.booked
      BY <1>12
    <3> QED
      BY <3>2, <3>3, <3>4, <3>5
<1>17. \A s \in G : (\A u \in U : name[u] # s) => f[s] = g[s]
  <2>1. ASSUME NEW s \in G, f[s] # g[s] PROVE \E u \in U : name[u] = s
    <3> DEFINE i == s.at
               u == [at |-> i, capacity |-> C(i), booked |-> booked[i]]
    <3>1. booked[i] < C(i) /\ i \in Ats(first, last)
      <4>1. f[s] = s.capacity /\ g[s] = Min({counts[s.at], s.capacity})
        OBVIOUS
      <4>2. ~ (s.capacity <= booked[s.at])
        BY <1>10, <1>11, <2>1, <4>1
      <4> QED
        BY <1>7, <1>10, <4>2
    <3>2. u \in U
      BY <1>6, <3>1
    <3>3. name[u] = [at |-> i, capacity |-> C(i), booked |-> 0]
      BY <3>2
    <3>4. name[u] = s
      BY <1>7, <3>3
    <3> QED
      BY <3>2, <3>4
  <2> QED
    BY <2>1
<1> HIDE DEF f, g, r, name
<1>18. SumOf(f, G) - SumOf(g, G) = SumOf(r, U)
  BY <1>9, <1>13, <1>14, <1>15, <1>16, <1>17, SumDifference
<1>19. SumOf(g, G) <= SumOf(f, G)
  BY <1>9, <1>13, SumMonotone
<1> QED
  BY <1>1, <1>18, <1>19 DEF U

----------------------------------------------------------------------------
(* The opening hours: the steps. *)

LEMMA InstantsFinite == IsFiniteSet(Instants) /\ Instants \in SUBSET Nat /\ 0 \in Instants
<1> DEFINE end == (LastDate + 1) * DayLength - 1
<1>1. LastDate + 1 \in Nat \ {0} /\ DayLength \in Nat \ {0}
  BY HoursAssumption
<1>2. \A a, b \in Nat \ {0} : a * b - 1 \in Nat
  <2> SUFFICES ASSUME NEW a \in Nat \ {0}, NEW b \in Nat \ {0} PROVE a * b - 1 \in Nat
    OBVIOUS
  <2>1. a * b \in Nat /\ a * b >= 1
    OBVIOUS
  <2> QED
    BY <2>1
<1>3. end \in Nat
  BY <1>1, <1>2
<1> HIDE DEF end
<1>4. IsFiniteSet(0 .. end)
  BY <1>3, FS_Interval
<1> QED
  BY <1>3, <1>4 DEF Instants, end

\* No hours, no bookings.
LEMMA InitHoursInv == HoursInit => HoursInv
<1> SUFFICES ASSUME HoursInit PROVE HoursInv
  OBVIOUS
<1>1. MaxSeats \in Nat /\ MAX_WEEKLY_RULES \in Nat
  BY HoursAssumption
<1>2. HoursTypeOK
  BY <1>1 DEF HoursInit, HoursTypeOK, NoReplace
<1>3. \A w \in Replaces : ReplaceOK(w)
  BY DEF HoursInit, NoReplace, ReplaceOK
<1>4. WeekIsOneSubmission
  BY <1>1, FS_EmptySet DEF HoursInit, WeekIsOneSubmission, validate_weekly_rules
<1>5. now \in Instants /\ replace = [w \in Replaces |-> replace[w]]
  BY InstantsFinite DEF HoursInit
<1> QED
  BY <1>2, <1>3, <1>4, <1>5 DEF HoursInv

\* A valid week, put in as rows, is a valid week of one submission: rules_insert.
LEMMA WeekInserted ==
    ASSUME NEW w \in Replaces, IsFiniteSet(replace[w].week), replace[w].week \subseteq Windows,
           validate_weekly_rules(replace[w].week)
    PROVE  /\ rules_insert(w) \subseteq AvailabilityRule
           /\ validate_weekly_rules(rules_insert(w))
           /\ \A r, s \in rules_insert(w) : r.put = s.put
<1> DEFINE week == replace[w].week
           rows == rules_insert(w)
           row(r) == [day |-> r.day, open |-> r.open, close |-> r.close, capacity |-> r.capacity, put |-> w]
           f == [r \in week |-> row(r)]
<1>1. /\ \A r \in week : row(r) \in rows
      /\ \A s \in rows : \E r \in week : s = row(r)
  BY DEF rules_insert
<1>2. /\ Cardinality(week) <= MAX_WEEKLY_RULES
      /\ \A r \in week : /\ r.day \in 0 .. DaysPerWeek - 1
                         /\ r.open < r.close
                         /\ r.capacity \in 1 .. MAX_RULE_CAPACITY
      /\ \A r, s \in week : (r # s /\ r.day = s.day) => (r.close <= s.open \/ s.close <= r.open)
  BY DEF validate_weekly_rules
<1>3. \A r \in week : r.open \in Walls /\ r.close \in Walls
  BY DEF Windows
<1> HIDE DEF week, rows
<1>4. Cardinality(rows) <= MAX_WEEKLY_RULES
  <2>1. f \in Surjection(week, rows)
    BY <1>1 DEF Surjection
  <2> HIDE DEF f
  <2>2. Cardinality(rows) <= Cardinality(week) /\ IsFiniteSet(rows) /\ IsFiniteSet(week)
    BY <2>1, FS_Surjection DEF week
  <2>3. Cardinality(rows) \in Nat /\ Cardinality(week) \in Nat
    BY <2>2, FS_CardinalityType
  <2> QED
    BY <1>2, <2>2, <2>3, HoursAssumption
<1>5. rows \subseteq AvailabilityRule
  BY <1>1, <1>2, <1>3 DEF AvailabilityRule
<1>6. \A s \in rows : /\ s.day \in 0 .. DaysPerWeek - 1
                      /\ s.open < s.close
                      /\ s.capacity \in 1 .. MAX_RULE_CAPACITY
                      /\ s.put = w
  BY <1>1, <1>2
<1>7. \A s, u \in rows : (s # u /\ s.day = u.day) => (s.close <= u.open \/ u.close <= s.open)
  <2> SUFFICES ASSUME NEW s \in rows, NEW u \in rows, s # u, s.day = u.day
               PROVE  s.close <= u.open \/ u.close <= s.open
    OBVIOUS
  <2>1. PICK r \in week : s = row(r)
    BY <1>1
  <2>2. PICK v \in week : u = row(v)
    BY <1>1
  <2>3. r # v /\ r.day = v.day
    BY <2>1, <2>2
  <2> QED
    BY <1>2, <2>1, <2>2, <2>3
<1> QED
  BY <1>4, <1>5, <1>6, <1>7 DEF validate_weekly_rules, rows

\* Every step of the opening hours.
LEMMA HoursStep == HoursInv /\ HoursNext => HoursInv'
<1> SUFFICES ASSUME HoursInv, HoursNext PROVE HoursInv'
  OBVIOUS
<1>1. /\ rules \subseteq AvailabilityRule /\ exceptions \subseteq AvailabilityException
      /\ booked \in [Instants -> 0 .. MaxSeats] /\ now \in Nat /\ now \in Instants
      /\ hoursLock \in Replaces \union {Free}
      /\ replace = [w \in Replaces |-> replace[w]]
      /\ \A w \in Replaces : ReplaceOK(w)
      /\ WeekIsOneSubmission
  BY DEF HoursInv, HoursTypeOK
<1>2. Free \notin Replaces /\ MaxSeats \in Nat
  BY HoursAssumption
<1>3. UNCHANGED rules => WeekIsOneSubmission'
  BY <1>1 DEF WeekIsOneSubmission, validate_weekly_rules
<1>4. UNCHANGED <<rules, replace, hoursLock>> =>
         replace' = [w \in Replaces |-> replace'[w]] /\ \A w \in Replaces : ReplaceOK(w)'
  BY <1>1 DEF ReplaceOK, validate_weekly_rules
<1>5. ASSUME /\ rules' \subseteq AvailabilityRule
             /\ hoursLock' \in Replaces \union {Free}
             /\ replace' = [w \in Replaces |-> replace'[w]]
             /\ \A w \in Replaces : ReplaceOK(w)'
             /\ WeekIsOneSubmission'
             /\ UNCHANGED <<exceptions, booked, now>>
      PROVE  HoursInv'
  BY <1>1, <1>5 DEF HoursInv, HoursTypeOK, ReplaceOK
<1>6. ASSUME NEW w \in Replaces, NEW week \in Weeks, replace_weekly_rules(w, week) PROVE HoursInv'
  <2>1. UNCHANGED <<rules, exceptions, booked, now>>
    BY <1>6 DEF replace_weekly_rules
  <2>2. CASE /\ validate_weekly_rules(week) /\ lock_free /\ hoursLock' = w
             /\ replace' = [replace EXCEPT ![w] = [step |-> "retired", week |-> week,
                                                    retired |-> soft_delete_all]]
    <3>1. IsFiniteSet(week) /\ week \subseteq Windows
      BY InputsAssumption DEF Windows
    <3>2. ReplaceOK(w)'
      <4>1. replace'[w] = [step |-> "retired", week |-> week, retired |-> rules]
        BY <1>1, <2>2 DEF soft_delete_all
      <4>2. validate_weekly_rules(week)'
        BY <2>2 DEF validate_weekly_rules
      <4> QED
        BY <2>1, <2>2, <3>1, <4>1, <4>2 DEF ReplaceOK
    <3>3. ASSUME NEW v \in Replaces, v # w PROVE ReplaceOK(v)'
      <4>1. replace'[v] = replace[v]
        BY <1>1, <2>2, <3>3
      <4>2. replace[v].step # "retired"
        BY <1>1, <1>2, <2>2 DEF ReplaceOK, lock_free
      <4>3. ReplaceOK(v)
        BY <1>1
      <4> QED
        BY <4>1, <4>2, <4>3 DEF ReplaceOK
    <3>4. replace' = [v \in Replaces |-> replace'[v]]
      BY <1>1, <2>2
    <3> QED
      BY <1>1, <1>3, <1>5, <2>1, <2>2, <3>2, <3>3, <3>4
  <2>3. CASE replace' = [replace EXCEPT ![w].step = "refused"] /\ UNCHANGED hoursLock
    <3>1. ReplaceOK(w)'
      <4>1. replace'[w] = [replace[w] EXCEPT !.step = "refused"]
        BY <1>1, <2>3
      <4>2. ReplaceOK(w)
        BY <1>1
      <4> QED
        BY <4>1, <4>2 DEF ReplaceOK
    <3>2. ASSUME NEW v \in Replaces, v # w PROVE ReplaceOK(v)'
      <4>1. replace'[v] = replace[v] /\ ReplaceOK(v)
        BY <1>1, <2>3, <3>2
      <4> QED
        BY <2>1, <2>3, <4>1 DEF ReplaceOK, validate_weekly_rules
    <3>3. replace' = [v \in Replaces |-> replace'[v]]
      BY <1>1, <2>3
    <3> QED
      BY <1>1, <1>3, <1>5, <2>1, <2>3, <3>1, <3>2, <3>3
  <2> QED
    BY <1>6, <2>2, <2>3 DEF replace_weekly_rules
<1>7. ASSUME NEW w \in Replaces, insert_week(w) PROVE HoursInv'
  <2>1. /\ hoursLock = w /\ replace[w].retired = rules
        /\ IsFiniteSet(replace[w].week) /\ replace[w].week \subseteq Windows
        /\ validate_weekly_rules(replace[w].week)
    BY <1>1, <1>7 DEF insert_week, ReplaceOK
  <2>2. rules' = rules_insert(w)
    BY <1>7, <2>1 DEF insert_week
  <2>3. /\ rules' \subseteq AvailabilityRule /\ validate_weekly_rules(rules')
        /\ \A r, s \in rules' : r.put = s.put
    BY <2>1, <2>2, WeekInserted
  <2>4. WeekIsOneSubmission'
    BY <2>3 DEF WeekIsOneSubmission, validate_weekly_rules
  <2>5. ReplaceOK(w)'
    <3>1. replace'[w] = [step |-> "done", week |-> {}, retired |-> {}]
      BY <1>1, <1>7 DEF insert_week, NoReplace
    <3> QED
      BY <3>1 DEF ReplaceOK
  <2>6. ASSUME NEW v \in Replaces, v # w PROVE ReplaceOK(v)'
    <3>1. replace'[v] = replace[v] /\ ReplaceOK(v)
      BY <1>1, <1>7, <2>6 DEF insert_week
    <3>2. replace[v].step # "retired"
      BY <2>1, <2>6, <3>1 DEF ReplaceOK
    <3> QED
      BY <3>1, <3>2 DEF ReplaceOK
  <2>7. replace' = [v \in Replaces |-> replace'[v]]
    BY <1>1, <1>7 DEF insert_week
  <2>8. hoursLock' = Free /\ UNCHANGED <<exceptions, booked, now>>
    BY <1>7 DEF insert_week
  <2> QED
    BY <1>5, <2>3, <2>4, <2>5, <2>6, <2>7, <2>8
<1>8. ASSUME NEW w \in Replaces, rollback_week(w) PROVE HoursInv'
  <2>1. hoursLock = w
    BY <1>1, <1>8 DEF rollback_week, ReplaceOK
  <2>2. ReplaceOK(w)'
    <3>1. replace'[w] = [step |-> "refused", week |-> {}, retired |-> {}]
      BY <1>1, <1>8 DEF rollback_week, NoReplace
    <3> QED
      BY <3>1 DEF ReplaceOK
  <2>3. ASSUME NEW v \in Replaces, v # w PROVE ReplaceOK(v)'
    <3>1. replace'[v] = replace[v] /\ ReplaceOK(v)
      BY <1>1, <1>8, <2>3 DEF rollback_week
    <3>2. replace[v].step # "retired"
      BY <2>1, <2>3, <3>1 DEF ReplaceOK
    <3> QED
      BY <3>1, <3>2 DEF ReplaceOK
  <2>4. replace' = [v \in Replaces |-> replace'[v]]
    BY <1>1, <1>8 DEF rollback_week
  <2>5. hoursLock' = Free /\ UNCHANGED <<rules, exceptions, booked, now>>
    BY <1>8 DEF rollback_week
  <2> QED
    BY <1>1, <1>3, <1>5, <2>2, <2>3, <2>4, <2>5
<1>9. ASSUME UNCHANGED <<rules, replace, hoursLock>>,
             exceptions' \subseteq AvailabilityException,
             booked' \in [Instants -> 0 .. MaxSeats],
             now' \in Instants
      PROVE  HoursInv'
  BY <1>1, <1>3, <1>4, <1>9, InstantsFinite DEF HoursInv, HoursTypeOK, ReplaceOK
<1>10. ASSUME NEW d \in Dates, NEW times \in SpecialHours, add_availability_exception(d, times)
       PROVE  HoursInv'
  <2>1. times \in [open : Walls \union {NoTime}, close : Walls \union {NoTime}]
    BY InputsAssumption
  <2>2. exceptions' \subseteq AvailabilityException
    BY <1>1, <1>10, <2>1 DEF add_availability_exception, exceptions_insert, AvailabilityException
  <2> QED
    BY <1>1, <1>9, <1>10, <2>2 DEF add_availability_exception
<1>11. ASSUME NEW x \in exceptions, remove_availability_exception(x) PROVE HoursInv'
  BY <1>1, <1>9, <1>11 DEF remove_availability_exception, exceptions_soft_delete
<1>12. ASSUME NEW i \in Instants, claim_slot(i) PROVE HoursInv'
  <2>1. booked \in [Instants -> Nat]
    BY <1>1, <1>2
  <2>2. SumOf(booked, Instants) < MaxSeats
    BY <1>12 DEF claim_slot, SumOf
  <2>3. booked[i] <= SumOf(booked, Instants) /\ SumOf(booked, Instants) \in Int
    <3>1. booked \in [Instants -> Int] /\ Instants \in SUBSET Instants
      BY <2>1
    <3> QED
      BY <2>1, <3>1, InstantsFinite, SumOfNats, SumTakeOut
  <2>4. booked[i] + 1 \in 0 .. MaxSeats
    BY <1>2, <2>1, <2>2, <2>3
  <2>5. booked' \in [Instants -> 0 .. MaxSeats]
    BY <1>1, <1>12, <2>4 DEF claim_slot
  <2> QED
    BY <1>1, <1>9, <1>12, <2>5 DEF claim_slot
<1>13. ASSUME NEW i \in Instants, free_seat(i) PROVE HoursInv'
  <2>1. booked[i] - 1 \in 0 .. MaxSeats
    BY <1>1, <1>2, <1>13 DEF free_seat
  <2>2. booked' \in [Instants -> 0 .. MaxSeats]
    BY <1>1, <1>13, <2>1 DEF free_seat
  <2> QED
    BY <1>1, <1>9, <1>13, <2>2 DEF free_seat
<1>14. ASSUME hours_tick PROVE HoursInv'
  BY <1>1, <1>9, <1>14 DEF hours_tick
<1> QED
  BY <1>6, <1>7, <1>8, <1>10, <1>11, <1>12, <1>13, <1>14 DEF HoursNext

\* The grid and the week, in every state of the invariant.
LEMMA HoursKept == HoursInv => HoursAreSound
BY PickerAndClaimAgree, HoursAreKept, DashboardAgrees DEF HoursAreSound, HoursInv

----------------------------------------------------------------------------
(* The offices together. *)

\* Whose tables stay as they are keeps what was true of them.
LEMMA PlatformSame == PlatformInv /\ UNCHANGED platformVars => PlatformInv'
BY DEF PlatformInv, PlatformTypeOK, CallOK, TenantOK, InviteOK, CookieOK, OneBoutiquePerSlug,
       SpentMeansFounded, platformVars

LEMMA GatewaySame == GatewayInv /\ UNCHANGED gatewayVars => GatewayInv'
BY DEF GatewayInv, GatewayTypeOK, BegunOnce, OneLocked, ChecksAreTrue, LaterConnectSupersedes,
       VerdictIsItsOwn, index_refuses, active_for_provider, gatewayVars

LEMMA HoursSame == HoursInv /\ UNCHANGED hoursVars => HoursInv'
BY DEF HoursInv, HoursTypeOK, ReplaceOK, WeekIsOneSubmission, validate_weekly_rules, hoursVars

LEMMA TermsSame == TermsInv /\ UNCHANGED termsVars => TermsInv'
<1> SUFFICES ASSUME TermsInv, UNCHANGED <<terms, publish, created, bride>> PROVE TermsInv'
  BY DEF termsVars
<1>1. TermsTypeOK' /\ IsFiniteSet(terms)' /\ (bride \in [Brides -> Bride])'
  BY DEF TermsInv, TermsTypeOK
<1>2. VersionsAreGapless' /\ VersionsDiffer'
  BY DEF TermsInv, VersionsAreGapless, VersionsDiffer
<1>3. CountedInReach' /\ ShownIsRow'
  BY DEF TermsInv, CountedInReach, validate_terms, ShownIsRow
<1> QED
  BY <1>1, <1>2, <1>3 DEF TermsInv

LEMMA SettingsSame == SettingsInv /\ UNCHANGED settingsVars => SettingsInv'
BY DEF SettingsInv, SettingsTypeOK, LogsOK, OwesTheRest, LastNamedStands, TrailInventsNothing,
       settingsVars

LEMMA TypesSame == TypesInv /\ UNCHANGED typesVars => TypesInv'
BY DEF TypesInv, TypesTypeOK, NamesDiffer, live_types, typesVars

OfficesInv ==
    /\ PlatformInv /\ GatewayInv /\ HoursInv /\ TermsInv /\ SettingsInv /\ TypesInv
    /\ office \in Offices

\* Who moves keeps its own tables in order, and nobody else's are touched.
LEMMA OfficesStep == OfficesInv /\ [Next]_vars => OfficesInv'
<1> SUFFICES ASSUME OfficesInv, [Next]_vars PROVE OfficesInv'
  OBVIOUS
<1>1. /\ PlatformNext \/ UNCHANGED platformVars
      /\ GatewayNext \/ UNCHANGED gatewayVars
      /\ HoursNext \/ UNCHANGED hoursVars
      /\ TermsNext \/ UNCHANGED termsVars
      /\ SettingsNext \/ UNCHANGED settingsVars
      /\ TypesNext \/ UNCHANGED typesVars
      /\ UNCHANGED office
  BY DEF Next, Platforms, Gateways, OpeningHours, TermsOfSale, Settings, AppointmentTypes, vars
<1>2. PlatformInv'
  BY <1>1, PlatformStep, PlatformSame DEF OfficesInv
<1>3. GatewayInv'
  BY <1>1, GatewayStep, GatewaySame DEF OfficesInv
<1>4. HoursInv'
  BY <1>1, HoursStep, HoursSame DEF OfficesInv
<1>5. TermsInv'
  BY <1>1, TermsStep, TermsSame DEF OfficesInv
<1>6. SettingsInv'
  BY <1>1, SettingsStep, SettingsSame DEF OfficesInv
<1>7. TypesInv'
  BY <1>1, TypesStep, TypesSame DEF OfficesInv
<1> QED
  BY <1>1, <1>2, <1>3, <1>4, <1>5, <1>6, <1>7 DEF OfficesInv

THEOREM OfficesInvariant == Spec => []OfficesInv
<1>1. Init => OfficesInv
  BY InitPlatformInv, InitGatewayInv, InitHoursInv, InitTermsInv, InitSettingsInv, InitTypesInv
     DEF Init, OfficesInv
<1> QED
  BY <1>1, OfficesStep, PTL DEF Spec

\* Every office's tables agree with each other, for any boutique, calendar, clock
\* change and number of requests: OfficeIsSound.
THEOREM OfficesStaySound == Spec => []OfficeIsSound
<1>1. OfficesInv => OfficeIsSound
  <2>1. GatewayInv => LaterConnectSupersedes /\ VerdictIsItsOwn /\ GatewayTypeOK
    BY DEF GatewayInv
  <2>2. PlatformInv => OneBoutiquePerSlug /\ SpentMeansFounded /\ PlatformTypeOK
    BY DEF PlatformInv
  <2>3. TermsInv => TermsAreSound
    BY PolicyKept DEF TermsInv, TermsAreSound
  <2>4. SettingsInv => SettingsAreSound
    BY SwitchKept DEF SettingsInv, SettingsAreSound
  <2> QED
    BY <2>1, <2>2, <2>3, <2>4, HoursKept, TypesKept DEF OfficesInv, OfficeIsSound, TypeOK
<1> QED
  BY <1>1, OfficesInvariant, PTL

\* The three readings of the opening hours, for every calendar, clock change and
\* week that is one submission's: what the picker shows the claim grants
\* (slot_window, offered_slot), no slot is outside the hours in force, and the
\* dashboard's totals are the free seats of the days (forward_capacity).
THEOREM GridReadingsAgree ==
    Spec => [](ShownIsClaimable /\ SlotsKeepTheHours /\ TotalsAgree)
<1>1. OfficesInv => ShownIsClaimable /\ SlotsKeepTheHours /\ TotalsAgree
  BY PickerAndClaimAgree, HoursAreKept, DashboardAgrees DEF OfficesInv
<1> QED
  BY <1>1, OfficesInvariant, PTL

\* A revoked or expired invite founds nothing and a session that stopped to resolve
\* stays dead: redeem_invite, get_current_operator.
THEOREM DeadGiveNothing == Spec => TheDeadStayDead
<1>1. OfficesInv /\ [Next]_vars
        => [DeadInviteFoundsNothing /\ DeadCookieStaysDead]_<<invite, tenant, cookie, operator>>
  <2> SUFFICES ASSUME OfficesInv, [Next]_vars,
                      ~ UNCHANGED <<invite, tenant, cookie, operator>>
               PROVE  DeadInviteFoundsNothing /\ DeadCookieStaysDead
    OBVIOUS
  <2>1. PlatformNext
    BY DEF Next, Platforms, Gateways, OpeningHours, TermsOfSale, Settings, AppointmentTypes, vars,
           platformVars
  <2> QED
    BY <2>1, DeadStayDead DEF OfficesInv
<1> QED
  BY <1>1, OfficesInvariant, PTL DEF Spec, TheDeadStayDead

\* No verb on the credentials rewrites a superseded set or loses the one that money
\* on its way is verified with: connect, disconnect, write_outcome.
THEOREM MoneyStaysSafe == Spec => MoneyIsSafe
<1>1. OfficesInv /\ [Next]_vars => [TrailStands /\ MoneyStaysVerifiable]_cred
  <2> SUFFICES ASSUME OfficesInv, [Next]_vars, ~ UNCHANGED cred
               PROVE  TrailStands /\ MoneyStaysVerifiable
    OBVIOUS
  <2>1. GatewayNext
    BY DEF Next, Platforms, Gateways, OpeningHours, TermsOfSale, Settings, AppointmentTypes, vars,
           gatewayVars
  <2> QED
    BY <2>1, MoneyKept DEF OfficesInv
<1> QED
  BY <1>1, OfficesInvariant, PTL DEF Spec, MoneyIsSafe

============================================================================
