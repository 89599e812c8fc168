---------------------------- MODULE AdminInstance ----------------------------
(***************************************************************************)
(* The instance-level admin handlers of pkg/admin/handler/instance.go for  *)
(* one application: traffic disable (a condition route whose conditions   *)
(* are strings "=>host!=<ip>") and operator log (a configurator whose      *)
(* override configs switch the access log of "<ip>:*" on).                 *)
(*                                                                         *)
(* A GET reads the stored resource once.  A PUT reads it, decides, and     *)
(* later creates or updates it through the service layer: the read and     *)
(* the write are separate steps, and the PUTs of concurrent HTTP requests *)
(* (one gin goroutine each) interleave between them.  The store (outside   *)
(* src/) is modelled as a create that fails when the resource exists and   *)
(* an update that fails when the resource changed since it was read        *)
(* (resource-version check) when VersionedUpdate holds, and that may fail  *)
(* for other reasons (a 500).                                              *)
(*                                                                         *)
(* Conditions and configs are abstracted from their text to what the       *)
(* handlers test: a condition is "disable" (exactly "=>host!=<ip>"), "to"  *)
(* (another "=>..." condition mentioning <ip>) or "from" (one not starting *)
(* with "=>"); TextWithin relates two IPs when the first one's text occurs *)
(* inside the second's (strings.Contains in isTrafficDisabledV3).          *)
(***************************************************************************)
EXTENDS Naturals, Sequences, SequencesExt

CONSTANTS
    IPs,              \* instance IPs named in requests
    TextWithin,       \* pairs <<a, b>>: the text of a occurs inside b
    Handlers,         \* concurrent HTTP requests
    MaxPut,           \* PUT requests served in a behaviour
    VersionedUpdate,  \* the store rejects an update of a stale read
    DisabledConfigurator,  \* the store may hold a disabled configurator
    None

ASSUME TextWithin \subseteq IPs \X IPs

VARIABLES
    rule,      \* the condition route of the application, or None
    conf,      \* the configurator of the application, or None
    pc,        \* handler: "idle" or "write"
    pending,   \* what a handler in "write" will store
    lastAck,   \* per <<resource, ip>>: the value of the last PUT answered 200
               \* (None before any)
    puts

vars == <<rule, conf, pc, pending, lastAck, puts>>

Cond    == [kind : {"disable", "to", "from"}, ip : IPs]
Conf    == [log : BOOLEAN, ip : IPs]
Route   == [ver : {"v3", "v3.1"}, conds : Seq(Cond), rev : Nat]
Config  == [enabled : BOOLEAN, configs : Seq(Conf), rev : Nat]
Kinds   == {"traffic", "log"}
Pending == [res : Kinds, ip : IPs, val : BOOLEAN, create : BOOLEAN,
            rev : Nat, obj : Route \cup Config]

-----------------------------------------------------------------------------
(* Traffic disable                                                         *)

\* isTrafficDisabledV3(condition, targetIP): whether the condition concerns
\* the IP at all, and whether it is exactly its disable expression.
isTrafficDisabledV3(c, ip) ==
    LET exist == c.kind # "from" /\ (c.ip = ip \/ <<ip, c.ip>> \in TextWithin)
    IN  [exist |-> exist, disabled |-> exist /\ c.kind = "disable" /\ c.ip = ip]

\* disableExpression(instanceIP)
disableExpression(ip) == [kind |-> "disable", ip |-> ip]

\* generateDefaultConditionV3: a v3 route with no conditions.
generateDefaultConditionV3 == [ver |-> "v3", conds |-> <<>>, rev |-> 0]

\* InstanceConfigTrafficDisableGET: None (a 503) for a route that is not
\* v3, otherwise whether a condition disables the IP (RangeConditions stops
\* at the first one that does); no route means not disabled.
InstanceConfigTrafficDisableGET(ip) ==
    IF rule = None THEN FALSE
    ELSE IF rule.ver # "v3" THEN None
    ELSE \E i \in DOMAIN rule.conds : isTrafficDisabledV3(rule.conds[i], ip).disabled

Respond(k, ip, v) == lastAck' = [lastAck EXCEPT ![<<k, ip>>] = v]

\* Go to the write step with obj to be created or updated.
Prepare(h, k, ip, v, create, obj) ==
    /\ pc' = [pc EXCEPT ![h] = "write"]
    /\ pending' = [pending EXCEPT ![h] = [res |-> k, ip |-> ip, val |-> v,
                    create |-> create, rev |-> obj.rev, obj |-> obj]]

\* Variant of EnableIndex removing the first condition that mentions the
\* instance at all, whether or not it disables it.
EnableIndexAnyMention(conds, ip) ==
    SelectInSeq(conds, LAMBDA c : isTrafficDisabledV3(c, ip).exist)

\* The index of the condition the enable branch removes: the first one
\* whose disabled flag differs from newDisabled = FALSE (0 if none).
EnableIndex(conds, ip) ==
    SelectInSeq(conds, LAMBDA c : isTrafficDisabledV3(c, ip).exist
                                  /\ isTrafficDisabledV3(c, ip).disabled)

\* The disable branch's check that the instance is not disabled already.
AlreadyDisabled(conds, ip) ==
    \E i \in DOMAIN conds : isTrafficDisabledV3(conds[i], ip).disabled

\* InstanceConfigTrafficDisablePUT up to updateORCreateConditionRule: read
\* the route and decide.  Answers given here (nothing to do, 400, 503) end
\* the request.
TrafficDisablePutRead(h, ip, v) ==
    /\ pc[h] = "idle" /\ puts < MaxPut
    /\ puts' = puts + 1
    /\ CASE rule = None /\ ~v ->
              \* not found && cancel traffic-disable
              Respond("traffic", ip, FALSE) /\ UNCHANGED <<pc, pending>>
         [] rule = None ->
              Prepare(h, "traffic", ip, v, TRUE,
                      [generateDefaultConditionV3 EXCEPT
                         !.conds = <<disableExpression(ip)>>])
              /\ UNCHANGED lastAck
         [] rule.ver # "v3" ->
              UNCHANGED <<pc, pending, lastAck>>          \* 503
         [] ~v /\ EnableIndex(rule.conds, ip) # 0 ->
              Prepare(h, "traffic", ip, v, FALSE,
                      [rule EXCEPT !.conds = RemoveAt(@, EnableIndex(@, ip))])
              /\ UNCHANGED lastAck
         [] ~v ->
              \* no disabling condition: the handler returns without
              \* writing, and gin answers 200
              Respond("traffic", ip, FALSE) /\ UNCHANGED <<pc, pending>>
         [] AlreadyDisabled(rule.conds, ip) ->
              UNCHANGED <<pc, pending, lastAck>>          \* 400
         [] OTHER ->
              Prepare(h, "traffic", ip, v, FALSE,
                      [rule EXCEPT !.conds = Append(@, disableExpression(ip))])
              /\ UNCHANGED lastAck
    /\ UNCHANGED <<rule, conf>>

-----------------------------------------------------------------------------
(* Operator log                                                            *)

\* isInstanceOperatorLogOpen(conf, IP): a provider-side config matching
\* "<ip>:*" with accesslog=true.
isInstanceOperatorLogOpen(c, ip) == c.log /\ c.ip = ip

\* generateDefaultConfigurator(..., true): an enabled, empty configurator.
generateDefaultConfigurator == [enabled |-> TRUE, configs |-> <<>>, rev |-> 0]

\* InstanceConfigOperatorLogGET: configs are consulted only when the
\* configurator is enabled; no configurator means the log is off.
InstanceConfigOperatorLogGET(ip) ==
    /\ conf # None
    /\ conf.enabled
    /\ \E i \in DOMAIN conf.configs : isInstanceOperatorLogOpen(conf.configs[i], ip)

\* InstanceConfigOperatorLogPUT up to Create/UpdateConfigurator: a missing
\* configurator is replaced by a default one to be created; turning the log
\* off removes every matching config (RangeConfigsToRemove), turning it on
\* appends one unless a matching config exists.
OperatorLogPutRead(h, ip, v) ==
    /\ pc[h] = "idle" /\ puts < MaxPut
    /\ puts' = puts + 1
    /\ LET base == IF conf = None THEN generateDefaultConfigurator ELSE conf
           open(c) == isInstanceOperatorLogOpen(c, ip)
           cs == IF ~v THEN SelectSeq(base.configs, LAMBDA c : ~open(c))
                 ELSE IF \E i \in DOMAIN base.configs : open(base.configs[i])
                      THEN base.configs
                      ELSE Append(base.configs, [log |-> TRUE, ip |-> ip])
       IN  Prepare(h, "log", ip, v, conf = None, [base EXCEPT !.configs = cs])
    /\ UNCHANGED <<rule, conf, lastAck>>

-----------------------------------------------------------------------------
(* The store                                                               *)

\* updateORCreateConditionRule / CreateConfigurator / UpdateConfigurator:
\* create succeeds only when nothing exists, update only on an existing
\* resource that (with VersionedUpdate) was not changed since the read.
\* On success the handler answers 200, on failure 500.
Writable(p, cur) ==
    IF p.create THEN cur = None
    ELSE cur # None /\ (VersionedUpdate => cur.rev = p.rev)

Store(p, cur) == [p.obj EXCEPT !.rev = IF p.create THEN 0 ELSE cur.rev + 1]

PutWrite(h) ==
    /\ pc[h] = "write"
    /\ pc' = [pc EXCEPT ![h] = "idle"]
    /\ LET p   == pending[h]
           cur == IF p.res = "traffic" THEN rule ELSE conf
       IN  \/ /\ Writable(p, cur)
              /\ IF p.res = "traffic"
                 THEN rule' = Store(p, cur) /\ UNCHANGED conf
                 ELSE conf' = Store(p, cur) /\ UNCHANGED rule
              /\ Respond(p.res, p.ip, p.val)
           \/ /\ UNCHANGED <<rule, conf, lastAck>>          \* 500
    /\ UNCHANGED <<pending, puts>>

-----------------------------------------------------------------------------

InitRoutes ==
    {None} \cup [ver : {"v3"}, conds : SeqOf(Cond, 1), rev : {0}]
           \cup {[ver |-> "v3.1", conds |-> <<>>, rev |-> 0]}

InitConfigs ==
    {None} \cup [enabled : IF DisabledConfigurator THEN BOOLEAN ELSE {TRUE},
                 configs : SeqOf(Conf, 1), rev : {0}]

Init ==
    /\ rule \in InitRoutes
    /\ conf \in InitConfigs
    /\ pc = [h \in Handlers |-> "idle"]
    /\ pending = [h \in Handlers |-> None]
    /\ lastAck = [k \in Kinds \X IPs |-> None]
    /\ puts = 0

Next ==
    \/ \E h \in Handlers, ip \in IPs, v \in BOOLEAN :
          TrafficDisablePutRead(h, ip, v) \/ OperatorLogPutRead(h, ip, v)
    \/ \E h \in Handlers : PutWrite(h)
    \/ /\ puts = MaxPut /\ \A h \in Handlers : pc[h] = "idle"  \* all served
       /\ UNCHANGED vars

Spec == Init /\ [][Next]_vars

-----------------------------------------------------------------------------

TypeOK ==
    /\ rule \in Route \cup {None}
    /\ conf \in Config \cup {None}
    /\ pc \in [Handlers -> {"idle", "write"}]
    /\ \A h \in Handlers : pc[h] = "write" => pending[h] \in Pending
    /\ lastAck \in [Kinds \X IPs -> BOOLEAN \cup {None}]
    /\ puts \in 0..MaxPut

\* Once an operator-log PUT for an instance has been answered 200, the GET
\* for it reports the value that PUT set.  About
\* InstanceConfigOperatorLogPUT editing the stored configurator whatever
\* its enabled flag, while InstanceConfigOperatorLogGET reads only enabled
\* configurators.
OperatorLogAckVisible ==
    \A ip \in IPs : lastAck[<<"log", ip>>] \in BOOLEAN =>
        InstanceConfigOperatorLogGET(ip) = lastAck[<<"log", ip>>]

\* What the GET handlers answer for every <<setting, instance>> pair.
GetAnswers ==
    [x \in Kinds \X IPs |->
        IF x[1] = "traffic" THEN InstanceConfigTrafficDisableGET(x[2])
        ELSE InstanceConfigOperatorLogGET(x[2])]

Settings == INSTANCE AdminSettings WITH Keys <- Kinds \X IPs,
                                        setting <- GetAnswers, acked <- lastAck

\* The handlers implement atomic per-instance registers: every store write
\* of a PUT, and every 200 answer, is one Put of the abstract module, so a
\* PUT that reads the shared resource, edits it and writes it later never
\* changes the GET of another instance or of the other setting, never
\* leaves its own GET at anything but the value it answered 200 for, and
\* a GET never changes without such a PUT.  About the read-modify-write of
\* both PUT handlers, the enable branch removing one condition, and the
\* prefix match of isTrafficDisabledV3.
ImplementsSettings == Settings!ASpec
=============================================================================
