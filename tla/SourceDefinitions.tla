-------------------------- MODULE SourceDefinitions -------------------------
(***************************************************************************)
(* The protocol definitions the generators read, and the first of their    *)
(* two validations: devtools/generators/src/validator.ts, domainRegistry.ts*)
(* and the model the loaders fill (models.ts, sourceLoader.ts).            *)
(*                                                                         *)
(* A registry is a set of records: the order of a list decides only which  *)
(* complaint comes first.  A name is a string; what is read off its letters*)
(* is given by Prefix and TsName.  "" stands for a field left out.         *)
(***************************************************************************)
EXTENDS Integers, FiniteSets, Sequences, Functions, FiniteSetsExt

CONSTANTS
    Prefix, \* name -> the part before its first dot
    TsName, \* name -> the identifier the emitters make of it
    Mappings, \* what the variants of a field may map enum values to
    Metas   \* what may stand in protocol_meta.yaml

\* What the loaders make of the items of the YAML files.
Methods ==
    [name : STRING, domain : STRING, id : Int, bit : Int, request : STRING,
     response : STRING, events : SUBSET STRING, errors : SUBSET STRING,
     capabilities : SUBSET STRING, status : STRING, described : BOOLEAN]
Events ==
    [name : STRING, domain : STRING, id : Int, bit : Int, payload : STRING,
     capabilities : SUBSET STRING, status : STRING]
Errors ==
    [name : STRING, domain : STRING, id : Int, category : STRING, status : STRING]
Capabilities ==
    [name : STRING, domain : STRING, id : Int, schema : STRING, status : STRING]
SourceFields ==
    [id : Int, name : STRING, type : STRING, schema : STRING, itemType : STRING,
     itemSchema : STRING, enum : SUBSET STRING, repeated : BOOLEAN,
     variants : [discriminator : STRING, mapping : Mappings], derivedFrom : STRING]
Schemas == [name : STRING, kind : STRING, fields : SUBSET SourceFields]
Legacies == [name : STRING, command : Int, method : Int, errors : SUBSET STRING]
Profiles ==
    [keys : SUBSET STRING, name : STRING, methods : SUBSET STRING,
     events : SUBSET STRING, errors : SUBSET STRING, types : SUBSET STRING,
     transports : SUBSET STRING, frameProfile : STRING, frameProfiles : SUBSET STRING]

Registries ==
    [domains |-> Int \X STRING, methods |-> Methods, events |-> Events,
     errors |-> Errors, capabilities |-> Capabilities, schemas |-> Schemas,
     legacy |-> Legacies, profiles |-> Profiles]

\* ProtocolSourceModel
IsSource(s) ==
    /\ s = [q \in DOMAIN Registries \cup {"mvp", "meta"} |-> s[q]]
    /\ \A r \in DOMAIN Registries : s[r] \subseteq Registries[r]
    /\ s.mvp \in [methods : SUBSET STRING, events : SUBSET STRING,
                  errors : SUBSET STRING, capabilities : SUBSET STRING]
    /\ s.meta \in Metas

HighByte(id) == id \div 256

Named(items) == {i.name : i \in items}

ItemNamed(items, name) == CHOOSE i \in items : i.name = name

\* No two items share the field f.
UniqueBy(items, f) == \A i, j \in items : i[f] = j[f] => i = j

-----------------------------------------------------------------------------
(* The domain registry: which domain a high byte belongs to.               *)

RegistryByte(h) == h > 0 /\ h < 112

\* addDomain over a list of <<high byte, domain>>: a byte has one domain.
DomainsAgree(pairs) ==
    \A p, q \in pairs : p[1] \in 0..255 /\ (p[1] = q[1] => p[2] = q[2])

ItemDomains(items) ==
    {<<HighByte(i.id), i.domain>> : i \in {k \in items : RegistryByte(HighByte(k.id))}}

\* buildSourceDomainByHighByte: what is declared, or else what the items imply.
SourceDomains(s) ==
    IF s.domains # {} THEN s.domains
    ELSE ItemDomains(s.methods) \cup ItemDomains(s.events) \cup ItemDomains(s.errors)

\* Map.get, "" if the byte is in nobody's range.
DomainOfByte(pairs, h) ==
    IF \E p \in pairs : p[1] = h THEN (CHOOSE p \in pairs : p[1] = h)[2] ELSE ""

-----------------------------------------------------------------------------
(* validator.ts                                                            *)

\* An id lies in the range of its domain.
InDomainRange(i, zeroByteDomains, pairs) ==
    LET h == HighByte(i.id)
        expected == DomainOfByte(pairs, h) IN
    IF expected # "" THEN i.domain = expected
    ELSE \/ h = 0 /\ i.domain \in zeroByteDomains
         \/ h \in 112..126 /\ i.domain = "vendor"
         \/ h = 127 /\ i.domain = "legacy"

\* bitOffset is unique and contiguous from 0 within a domain.
DomainBits(items) ==
    \A d \in {i.domain : i \in items} :
        LET inDomain == {k \in items : k.domain = d} IN
        {i.bit : i \in inDomain} = 0..(Cardinality(inDomain) - 1)

Builtins == {"bool", "uint8", "string", "enum", "array", "object"}

Known(name, names) == name = "" \/ name \in names

VariantsOf(f) == Range(f.variants.mapping)

\* Mutant of ValidVariants: the mapping may leave an enum value out.
VariantsKnown(f, schema, names, objects) ==
    /\ f.type = "object"
    /\ \E d \in schema.fields :
          /\ d.name = f.variants.discriminator
          /\ d.type = "enum" /\ d.enum # {}
          /\ DOMAIN f.variants.mapping \subseteq d.enum
    /\ VariantsOf(f) \subseteq names \cap objects

\* assertValidVariants: a variant for every value of a sibling enum.
ValidVariants(f, schema, names, objects) ==
    /\ f.type = "object"
    /\ \E d \in schema.fields :
          /\ d.name = f.variants.discriminator
          /\ d.type = "enum" /\ d.enum # {}
          /\ DOMAIN f.variants.mapping = d.enum
    /\ \A t \in VariantsOf(f) : Known(t, names) /\ t \in objects

HasVariants(f) == f.variants.discriminator # ""

ValidField(f, schema, names, objects) ==
    /\ Known(f.schema, names)
    /\ Known(f.itemSchema, names)
    /\ Known(f.itemType, Builtins \cup names)
    /\ f.type = "array" => {f.schema, f.itemType, f.itemSchema} # {""}
    /\ HasVariants(f) => ValidVariants(f, schema, names, objects)

ObjectSchemas(schemas) == {x \in schemas : x.kind = "object"}

ValidSchemas(schemas) ==
    /\ UniqueBy(schemas, "name")
    /\ \A x \in schemas :
          /\ UniqueBy(x.fields, "id") /\ UniqueBy(x.fields, "name")
          /\ \A f \in x.fields :
                ValidField(f, x, Named(schemas), Named(ObjectSchemas(schemas)))

KnownSchemas(s) ==
    LET names == Named(s.schemas) IN
    /\ \A m \in s.methods : Known(m.request, names) /\ Known(m.response, names)
    /\ \A e \in s.events : Known(e.payload, names)
    /\ \A c \in s.capabilities : Known(c.schema, names)

\* assertReservedReferences.  A reference to nothing passes here.
NothingReserved(s) ==
    LET reserved(items) == Named({i \in items : i.status = "reserved"}) IN
    \A m \in s.methods :
        /\ m.capabilities \cap reserved(s.capabilities) = {}
        /\ m.events \cap reserved(s.events) = {}
        /\ m.errors \cap reserved(s.errors) = {}

MvpPresent(s) ==
    \A r \in {"methods", "events", "errors", "capabilities"} :
        s.mvp[r] \subseteq Named(s[r])

LegacyMapped(s) ==
    /\ UniqueBy(s.legacy, "command")
    /\ \A l \in s.legacy : /\ \E m \in s.methods : m.id = l.method
                           /\ l.errors \subseteq Named(s.errors)

\* validateSpec
ValidSpec(s) ==
    LET pairs == SourceDomains(s) IN
    /\ DomainsAgree(pairs)
    /\ \A r \in {"methods", "events", "errors", "capabilities"} :
          UniqueBy(s[r], "id") /\ UniqueBy(s[r], "name")
    /\ \A i \in s.methods \cup s.events : InDomainRange(i, {}, pairs)
    /\ \A i \in s.errors :
          InDomainRange(i, {"common", "frame", "control", "rpc"}, pairs)
    /\ \A i \in s.capabilities :
          InDomainRange(i, {"protocol", "common", "reserved"}, pairs)
    /\ DomainBits(s.methods) /\ DomainBits(s.events)
    /\ ValidSchemas(s.schemas)
    /\ KnownSchemas(s)
    /\ NothingReserved(s)
    /\ MvpPresent(s)
    /\ LegacyMapped(s)
=============================================================================
