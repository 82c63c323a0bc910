---------------------------- MODULE Definitions -----------------------------
(***************************************************************************)
(* What the runtime makes of an accepted definition: the registry the      *)
(* TypeScript emitter writes (devtools/generators/src/emitters/ts.ts) and  *)
(* the lookups and event masks of src/src/types/registry.ts, over source   *)
(* definitions that are edited item by item.                               *)
(***************************************************************************)
EXTENDS ProtocolDefinition, SequencesExt

CONSTANTS
    Base,    \* a definition both validations accept
    Pool,    \* registry -> items that may be put into it
    MaxEdits,\* bound: edits away from Base
    MaskBits \* bits of a byte of a mask, 8 in the code

ASSUME DefinitionsAssumption ==
    /\ MaxEdits \in Nat
    /\ MaskBits \in Nat \ {0}
    /\ TsName["Empty"] = "Empty"
    /\ DOMAIN Pool = DOMAIN Registries
    /\ \A r \in DOMAIN Pool : Pool[r] \subseteq Registries[r]
    /\ IsSource(Base) /\ ValidSpec(Base) /\ ValidProtocol(Build(Base))

VARIABLES
    source, \* ProtocolSourceModel
    edits   \* how many edits made it

defVars == <<source, edits>>

DefinitionsInit == source = Base /\ edits = 0

\* Somebody edits the YAML files: an item more, less, or another meta file.
Edit ==
    /\ edits < MaxEdits
    /\ edits' = edits + 1
    /\ \/ \E r \in DOMAIN Pool : \E i \in Pool[r] :
             source' = [source EXCEPT ![r] = IF i \in @ THEN @ \ {i} ELSE @ \cup {i}]
       \/ \E r \in DOMAIN Pool : \E i \in source[r], j \in Pool[r] :
             /\ r # "domains" /\ i.name = j.name
             /\ source' = [source EXCEPT ![r] = (@ \ {i}) \cup {j}]
       \/ \E m \in Metas : source' = [source EXCEPT !.meta = m]

DefinitionsNext == Edit

DefinitionsSpec == DefinitionsInit /\ [][DefinitionsNext]_defVars

-----------------------------------------------------------------------------
(* emitters/ts.ts                                                          *)

Scalars == {"bool", "string", "bytes", "uint8", "enum"}

\* The interfaces of schemas_generated.ts.
Interfaces(s) == {"Empty"} \cup {TsName[n] : n \in Named(s.schemas)}

\* fieldTypeName: the interfaces the type of a field mentions.
FieldInterfaces(s, f) ==
    LET known == Named(s.schemas)
        item == FirstOf(f.itemType, FirstOf(f.itemSchema, f.schema))
        mention(n) == IF n \in Scalars \/ n \notin known THEN {} ELSE {TsName[n]} IN
    IF f.type = "array" \/ f.repeated THEN mention(item)
    ELSE IF f.type = "object" /\ f.type \notin known /\ HasVariants(f)
    THEN {TsName[t] : t \in VariantsOf(f)}
    ELSE mention(f.type)

\* emitRegistryMap: METHOD_REGISTRY and EVENT_REGISTRY.
Registry(items) == [n \in Named(items) |->
    [id |-> ItemNamed(items, n).id, bit |-> ItemNamed(items, n).bit]]

MentionedInterfaces(s) ==
    {TsName[FirstOf(n, "Empty")] :
        n \in (UNION {{m.request, m.response} : m \in s.methods})
              \cup {e.payload : e \in s.events}}
    \cup UNION {UNION {FieldInterfaces(s, f) : f \in x.fields} : x \in s.schemas}

-----------------------------------------------------------------------------
(* types/registry.ts                                                       *)

\* RegistryIndex, by name and by id.
IdOf(reg, name) == reg[name].id
NameOf(reg, id) == CHOOSE n \in DOMAIN reg : reg[n].id = id

DomainId(entry) == HighByte(entry.id) % 256

\* The byte of a mask that holds a bit, 1 being the first: big-endian.
MaskByte(len, bit) == len - bit \div MaskBits

\* One entry of the masks: domain, length, mask.
MaskEntry(domain, bits) ==
    LET len == (Max(bits) + MaskBits) \div MaskBits
        mask == [k \in 1..len |->
                   MapThenSumSet(LAMBDA b : 2^(b % MaskBits),
                                 {b \in bits : len - b \div MaskBits = k})] IN
    <<domain, len>> \o mask

ComputeEventMasks(reg, names) ==
    LET entries == {reg[n] : n \in names \cap DOMAIN reg}
        domains == SetToSortSeq({DomainId(e) : e \in entries}, <) IN
    FlattenSeq([k \in DOMAIN domains |->
        MaskEntry(domains[k], {e.bit : e \in {x \in entries : DomainId(x) = domains[k]}})])

\* AxtpClient.computeEventMasks: no masks before the first subscription, and
\* isEventSubscribed finds nothing in none.
ClientMasks(reg, names) ==
    IF names = {} THEN <<>> ELSE ComputeEventMasks(reg, names)

\* The first entry of the domain decides; a mask too short for the bit has
\* it off.
IsEventSubscribed(reg, name, bytes) ==
    LET bit == reg[name].bit
        holds(mask) ==
            LET k == MaskByte(Len(mask), bit) IN
            k \in DOMAIN mask /\ (mask[k] \div 2^(bit % MaskBits)) % 2 = 1
        scan[i \in Nat] ==
            IF i + 2 >= Len(bytes) THEN FALSE
            ELSE LET end == IF i + 2 + bytes[i + 2] > Len(bytes) THEN Len(bytes)
                            ELSE i + 2 + bytes[i + 2] IN
                 IF bytes[i + 1] = DomainId(reg[name])
                 THEN holds(SubSeq(bytes, i + 3, end))
                 ELSE scan[i + 2 + bytes[i + 2]] IN
    scan[0]

-----------------------------------------------------------------------------
(* Properties                                                              *)

\* The definition stays one of those the loaders produce.
DefinitionsTypeOK == IsSource(source) /\ edits \in 0..MaxEdits

\* A peer that subscribes to any events of a definition validateSpec accepts
\* gets those and no others, whatever the domains, the bits and the lengths of
\* the masks.
MasksExact ==
    ValidSpec(source) =>
        LET reg == Registry(source.events) IN
        \A names \in SUBSET DOMAIN reg :
            LET masks == ClientMasks(reg, names) IN
            \A n \in DOMAIN reg : IsEventSubscribed(reg, n, masks) <=> n \in names

\* What both validations accept can be used: methods and events are found by
\* name and by id, everything a method refers to exists, is not reserved and
\* describes the same fields after the build, every value of a discriminator in
\* an object selects a schema (in a schema of another kind the second validation
\* looks at no field), and the emitted file mentions no interface it lacks.
AcceptedIsUsable ==
    LET p == Build(source) IN
    ValidSpec(source) /\ ValidProtocol(p) =>
        /\ \A r \in {"methods", "events"} :
              LET reg == Registry(source[r]) IN
              \A n \in DOMAIN reg : NameOf(reg, IdOf(reg, n)) = n
        /\ MentionedInterfaces(source) \subseteq Interfaces(source)
        /\ \A m \in source.methods :
              /\ \A e \in m.events : \E x \in source.events :
                    x.name = e /\ x.status # "reserved"
              /\ \A built \in p.methods : built.name = m.name =>
                    {f.name : f \in ItemNamed(p.schemas, built.request).fields}
                  = IF m.request = "" THEN {}
                    ELSE {f.name : f \in ItemNamed(source.schemas, m.request).fields}
        /\ \A x \in ObjectSchemas(p.schemas) : \A f \in x.fields : HasVariants(f) =>
              \A v \in ItemNamed(x.fields, f.variants.discriminator).enum :
                  /\ v \in DOMAIN f.variants.mapping
                  /\ ItemNamed(p.schemas, f.variants.mapping[v]).kind = "object"

\* The texts and the definition cannot disagree on what the second validation
\* has accepted: the third one only ever complains about the texts.
DocsAgree ==
    ValidProtocol(Build(source)) =>
        \A docs \in SUBSET {"frameByteOrder", "heartbeat"} :
            DocsConsistent(Build(source), docs \cup (DocFacts \ {"heartbeat"}))
                <=> "heartbeat" \in docs

\* Every definition the edits lead to: what the validators of the generators
\* accept is usable and described as it is.
AcceptedServe == AcceptedIsUsable /\ DocsAgree
=============================================================================
