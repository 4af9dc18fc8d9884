-------------------------- MODULE RoutingTechRoute --------------------------
(***************************************************************************)
(* RoutingManager::updateEeTechRouteSetting as an operator, and the       *)
(* controller's default technology routing it programs.                   *)
(*                                                                         *)
(* The function walks the EE topology last reported by                    *)
(* NFA_EE_DISCOVER_REQ_EVT (mEeInfo), gives the technologies A and B to   *)
(* the EE named by mDefaultOffHostRoute and F to the EE named by          *)
(* mDefaultFelicaRoute (each filtered by mOffHostListenTechMask), routes  *)
(* to the host (NFC_DH_ID) what the named EEs are missing from, and       *)
(* clears from the host what the EEs took. It issues its directives       *)
(* without waiting for their completion events; the NFA stack applies     *)
(* them in order.                                                          *)
(*                                                                         *)
(* Only the switch-on power state is kept: mSecureNfcEnabled zeroes the   *)
(* other power states of the same directives and changes no owner.        *)
(***************************************************************************)
EXTENDS FiniteSets, Sequences, SequencesExt

CONSTANTS
  EEs,    \* NFCEE ids the controller may report (handle = id | GROUP_EE)
  DH,     \* NFC_DH_ID, the host
  \* values NAME_HOST_LISTEN_TECH_MASK and NAME_OFFHOST_LISTEN_TECH_MASK
  \* may be configured to
  HostListenTechMasks, OffHostListenTechMasks

Techs == {"A", "B", "F"}
Owners == EEs \cup {DH}

\* One entry of tNFA_EE_DISCOVER_REQ: an EE and the technologies it listens
\* on (la_protocol, lb_protocol, lf_protocol non-zero)
EeInfos == [h : EEs, techs : SUBSET Techs]

\* mEeInfo: entries with distinct handles, in the order reported
Topologies == {s \in BoundedSeq(EeInfos, Cardinality(EEs)) :
                 \A i, j \in DOMAIN s : i # j => s[i].h # s[j].h}

\* The NFA calls the function makes: NFA_CeConfigureUiccListenTech,
\* NFA_EeClearDefaultTechRouting and NFA_EeSetDefaultTechRouting
Listen(ee, m) == [op |-> "LISTEN", ee |-> ee, techs |-> m]
ClearTech(ee, m) == [op |-> "CLEAR", ee |-> ee, techs |-> m]
SetTech(ee, m) == [op |-> "SET", ee |-> ee, techs |-> m]

\* seTechMask of one EE: A and B if it is the off-host route, F if it is
\* the Felica route, as far as it supports them and the off-host listen
\* mask allows
SeTechMask(e, off, fel, offMask) ==
  LET ab == IF off # DH /\ e.h = off THEN e.techs \cap {"A", "B"} ELSE {}
      f == IF fel # DH /\ e.h = fel THEN e.techs \cap {"F"} ELSE {}
  IN (ab \cup f) \cap offMask

\* Mutant: the host's entries are not cleared for the EEs' technologies
UpdateEeTechRouteSettingNoDhClear(ees, off, fel, offMask, hostMask) ==
  LET se(i) == SeTechMask(ees[i], off, fel, offMask)
      eeDirs(i) == IF se(i) = {} THEN <<>>
                   ELSE <<Listen(ees[i].h, se(i)), ClearTech(ees[i].h, se(i)),
                          SetTech(ees[i].h, se(i))>>
      offFound == off # DH /\ \E i \in DOMAIN ees : ees[i].h = off
      felFound == fel # DH /\ \E i \in DOMAIN ees : ees[i].h = fel
      felToDh == ~felFound \/ \E i \in DOMAIN ees :
                                 ees[i].h = fel /\ "F" \notin ees[i].techs
      hostTech == ((IF ~offFound THEN {"A", "B"} ELSE {})
                   \cup (IF felToDh THEN {"F"} ELSE {})) \cap hostMask
      hostDirs == IF ~offFound \/ felToDh
                    THEN <<SetTech(DH, hostTech), Listen(DH, hostTech)>>
                    ELSE <<>>
  IN [dirs |-> FlattenSeq([i \in DOMAIN ees |-> eeDirs(i)]) \o hostDirs,
      allSe |-> UNION {se(i) : i \in DOMAIN ees}]

\* updateEeTechRouteSetting: the directives in the order issued and the
\* returned allSeTechMask
UpdateEeTechRouteSetting(ees, off, fel, offMask, hostMask) ==
  LET se(i) == SeTechMask(ees[i], off, fel, offMask)
      eeDirs(i) == IF se(i) = {} THEN <<>>
                   ELSE <<Listen(ees[i].h, se(i)), ClearTech(ees[i].h, se(i)),
                          SetTech(ees[i].h, se(i))>>
      offFound == off # DH /\ \E i \in DOMAIN ees : ees[i].h = off
      felFound == fel # DH /\ \E i \in DOMAIN ees : ees[i].h = fel
      \* a Felica EE that does not support F sends F to the host
      felToDh == ~felFound \/ \E i \in DOMAIN ees :
                                 ees[i].h = fel /\ "F" \notin ees[i].techs
      hostTech == ((IF ~offFound THEN {"A", "B"} ELSE {})
                   \cup (IF felToDh THEN {"F"} ELSE {})) \cap hostMask
      hostDirs == IF ~offFound \/ felToDh
                    THEN <<SetTech(DH, hostTech), Listen(DH, hostTech)>>
                    ELSE <<>>
      allSe == UNION {se(i) : i \in DOMAIN ees}
      clearDh(t) == IF t \in hostMask /\ t \in allSe
                      THEN <<ClearTech(DH, {t})>> ELSE <<>>
  IN [dirs |-> FlattenSeq([i \in DOMAIN ees |-> eeDirs(i)])
                 \o hostDirs \o clearDh("A") \o clearDh("B") \o clearDh("F"),
      allSe |-> allSe]

\* The NFA EE control block of each owner: a set replaces the owner's
\* switch-on technologies, a clear removes some, a listen configuration
\* replaces its listen technologies
ApplyDirective(st, d) ==
  CASE d.op = "SET" -> [st EXCEPT !.route[d.ee] = d.techs]
    [] d.op = "CLEAR" -> [st EXCEPT !.route[d.ee] = @ \ d.techs]
    [] d.op = "LISTEN" -> [st EXCEPT !.listen[d.ee] = d.techs]

\* The directives applied in order (a left fold; written out because the
\* library fold is evaluated through CHOOSE and dominates the run time)
RECURSIVE Apply(_, _)
Apply(st, dirs) ==
  IF dirs = <<>> THEN st ELSE Apply(ApplyDirective(st, Head(dirs)), Tail(dirs))

NoRoutes == [route |-> [o \in Owners |-> {}], listen |-> [o \in Owners |-> {}]]

\* The owners whose routing the controller uses: the host and the EEs of
\* the current topology
ActiveOwners(ees) == {DH} \cup {ees[i].h : i \in DOMAIN ees}

-----------------------------------------------------------------------------
(* The function applied on every topology change (each NFA_EE_DISCOVER_  *)
(* REQ_EVT followed by a commit), for one configuration of routes and     *)
(* listen masks chosen at start.                                          *)

VARIABLES mEeInfo, ctrl, mDefaultOffHostRoute, mDefaultFelicaRoute,
          mOffHostListenTechMask, mHostListenTechMask, mSeTechMask
vars == <<mEeInfo, ctrl, mDefaultOffHostRoute, mDefaultFelicaRoute,
          mOffHostListenTechMask, mHostListenTechMask, mSeTechMask>>

\* Routes computed from the topology and configuration in effect
Computed(ees, off, fel, offMask, hostMask, st) ==
  LET r == UpdateEeTechRouteSetting(ees, off, fel, offMask, hostMask)
  IN [ctrl |-> Apply(st, r.dirs), allSe |-> r.allSe]

\* RoutingManager::initialize: the routes are computed once the first EE
\* information has arrived
Init ==
  /\ mDefaultOffHostRoute \in Owners /\ mDefaultFelicaRoute \in Owners
  /\ mOffHostListenTechMask \in OffHostListenTechMasks
  /\ mHostListenTechMask \in HostListenTechMasks
  /\ mEeInfo \in Topologies
  /\ LET c == Computed(mEeInfo, mDefaultOffHostRoute, mDefaultFelicaRoute,
                       mOffHostListenTechMask, mHostListenTechMask, NoRoutes)
     IN ctrl = c.ctrl /\ mSeTechMask = c.allSe

\* The topology changes and commitRouting recomputes the technology routes
Recompute ==
  \E new \in Topologies :
    LET c == Computed(new, mDefaultOffHostRoute, mDefaultFelicaRoute,
                      mOffHostListenTechMask, mHostListenTechMask, ctrl)
    IN /\ mEeInfo' = new /\ ctrl' = c.ctrl /\ mSeTechMask' = c.allSe
       /\ UNCHANGED <<mDefaultOffHostRoute, mDefaultFelicaRoute,
                      mOffHostListenTechMask, mHostListenTechMask>>

Spec == Init /\ [][Recompute]_vars

-----------------------------------------------------------------------------
(* Properties (spec P5)                                                    *)

TypeOK ==
  /\ mEeInfo \in Topologies
  /\ ctrl \in [route : [Owners -> SUBSET Techs], listen : [Owners -> SUBSET Techs]]
  /\ mSeTechMask \subseteq Techs

\* The owners the controller routes technology t to
RoutedTo(t) == {o \in ActiveOwners(mEeInfo) : t \in ctrl.route[o]}

\* Spec section 3: the committed table routes every technology to one EE or
\* to the host, never to both. After any sequence of topology changes each
\* technology is routed to at most one of the host and the EEs present,
\* including EEs that stopped supporting a technology they were given.
AtMostOneOwner == \A t \in Techs : Cardinality(RoutedTo(t)) <= 1

\* Reference for spec P5: an EE claims t when it is the route for t,
\* supports t, and the off-host listen mask allows t; a technology no EE
\* claims goes to the host if the host listen mask allows it.
Claimant(t) ==
  {e \in EEs : \E i \in DOMAIN mEeInfo :
     /\ mEeInfo[i].h = e /\ t \in mEeInfo[i].techs
     /\ t \in mOffHostListenTechMask
     /\ e = IF t = "F" THEN mDefaultFelicaRoute ELSE mDefaultOffHostRoute}
ReferenceOwners(t) ==
  IF Claimant(t) # {} THEN Claimant(t)
  ELSE IF t \in mHostListenTechMask THEN {DH} ELSE {}

\* A technology that an EE of the current topology claims is not routed to
\* the host as well, whatever the host was given under earlier topologies:
\* the host's entry is cleared for every technology the EEs took.
ClaimedNotOnHost == \A t \in Techs : Claimant(t) # {} => t \notin ctrl.route[DH]

\* Once the routes are recomputed for the current topology, every
\* technology is routed where the reference says: to its claiming EE, or
\* else to the host.
RoutesMatchReference == \A t \in Techs : RoutedTo(t) = ReferenceOwners(t)

=============================================================================
