---------------------------- MODULE FirmwareConfig ----------------------------
(***************************************************************************)
(* The 384-byte configuration block inside a firmware image: what the site *)
(* writes into it, what it accepts back, and how an image is patched.  A   *)
(* block is a record of its fields; the bytes behind the magic, and the    *)
(* zero padding of the unused ones, are not placed at their offsets.  The  *)
(* checksum of a block is the content it was computed over.                *)
(***************************************************************************)
EXTENDS Integers, Sequences, FiniteSets

CONSTANTS
    Profile,        \* HARDWARE_PROFILES
    Target,         \* BUILTIN_TARGET_BITS
    MatchType,      \* MATCH_TYPES
    Text,           \* what the custom rules contain
    Size,           \* the length of a text
    Printable,      \* the texts made of printable ASCII only
    Canonical,      \* the one way a value is written for its match type
    MAX_RULES,      \* MAX_CUSTOM_MONITORING_RULES
    VALUE_SIZE,     \* CUSTOM_VALUE_SIZE
    MESSAGE_SIZE,   \* CUSTOM_MESSAGE_SIZE
    Invalid,        \* the result of a function that throws
    NoBlock         \* the result of looking into an image without a block

(* A configuration as it is shown, edited, and read from a block. *)
Config == [profile : Profile, targets : SUBSET Target,
           rules : Seq([type : MatchType, value : Text, message : Text])]

ASSUME FirmwareConfigAssumption ==
    /\ Size \in [Text -> Nat] /\ Printable \subseteq Text
    /\ MAX_RULES \in Nat /\ VALUE_SIZE \in Nat /\ MESSAGE_SIZE \in Nat
    /\ Invalid \notin Text \cup Config /\ NoBlock \notin Config \cup {Invalid}
    /\ Canonical \in [MatchType -> [Text -> Text \cup {Invalid}]]
    /\ \A m \in MatchType, t \in Text :
          Canonical[m][t] # Invalid => Canonical[m][Canonical[m][t]] = Canonical[m][t]

-----------------------------------------------------------------------------
(* The checksum covers every field but itself.                             *)
Checksum(block) == [block EXCEPT !.crc = 0]

Fits(text, size) == text \in Printable /\ Size[text] \in 1 .. size

(* normalizeRule() accepts this rule. *)
RuleAllowed(rule) ==
    /\ rule.type \in MatchType
    /\ Canonical[rule.type][rule.value] # Invalid
    /\ Fits(Canonical[rule.type][rule.value], VALUE_SIZE)
    /\ Fits(rule.message, MESSAGE_SIZE)

(* normalizeConfig() accepts this configuration. *)
ConfigAllowed(config) ==
    /\ config.profile \in Profile
    /\ config.targets \subseteq Target
    /\ Len(config.rules) <= MAX_RULES
    /\ \A i \in DOMAIN config.rules : RuleAllowed(config.rules[i])

Slot(rule) == [type |-> rule.type, reserved |-> 0, message |-> rule.message,
               value |-> Canonical[rule.type][rule.value]]

(* encodeFirmwareConfig() *)
Encode(config) ==
    LET block == [schema |-> 1, size |-> 384, reserved |-> 0, crc |-> 0,
                  profile |-> config.profile, targets |-> config.targets,
                  count |-> Len(config.rules),
                  rules |-> [i \in DOMAIN config.rules |-> Slot(config.rules[i])]]
    IN  IF ConfigAllowed(config) THEN [block EXCEPT !.crc = Checksum(block)]
        ELSE Invalid

(* decodeFirmwareConfig() accepts these fields of a rule. *)
SlotAllowed(slot) ==
    /\ slot.type \in MatchType /\ slot.reserved = 0
    /\ Fits(slot.value, VALUE_SIZE) /\ Fits(slot.message, MESSAGE_SIZE)
    /\ Canonical[slot.type][slot.value] = slot.value

(* decodeFirmwareConfig(); rules beyond the count are zero bytes. *)
Decode(block) ==
    IF /\ block.schema = 1 /\ block.size = 384 /\ block.reserved = 0
       /\ block.profile \in Profile /\ block.targets \subseteq Target
       /\ block.count \in 0 .. MAX_RULES /\ DOMAIN block.rules = 1 .. block.count
       /\ block.crc = Checksum(block)
       /\ \A i \in DOMAIN block.rules : SlotAllowed(block.rules[i])
    THEN [profile |-> block.profile, targets |-> block.targets,
          rules |-> [i \in DOMAIN block.rules |->
                        [type |-> block.rules[i].type, value |-> block.rules[i].value,
                         message |-> block.rules[i].message]]]
    ELSE Invalid

-----------------------------------------------------------------------------
(* An image: its code, and the blocks found in it by their magic.  The last *)
(* block may be cut off by the end of the image.                            *)

(* findUniqueFirmwareConfigBlock() finds exactly one whole block. *)
HasUniqueBlock(image) == DOMAIN image.blocks = {1} /\ ~image.cut

(* inspectFirmwareConfig(): no block, or an unreadable one, or its content. *)
Inspect(image) ==
    IF image.blocks = <<>> THEN NoBlock
    ELSE IF HasUniqueBlock(image) THEN Decode(image.blocks[1]) ELSE Invalid

(* patchFirmwareConfig(): only the block changes, and never its profile. *)
Patch(image, config) ==
    IF /\ HasUniqueBlock(image) /\ Decode(image.blocks[1]) # Invalid
       /\ ConfigAllowed(config) /\ config.profile = Decode(image.blocks[1]).profile
    THEN [image EXCEPT !.blocks = <<Encode(config)>>]
    ELSE Invalid
=============================================================================
