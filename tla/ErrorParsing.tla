---------------------------- MODULE ErrorParsing ----------------------------
(***************************************************************************)
(* From a revert to a typed Go error: a contract reverts, the node reports *)
(* the revert data inside some message, and the client parses the message  *)
(* with ParseRevertFromError of go/evmerrors, whose structs and decoders   *)
(* cmd/error-binding-generator wrote.                                      *)
(*                                                                         *)
(* A message is a sequence of tokens: the markers the parser looks for,    *)
(* other words, and hex strings. Revert data is a selector with            *)
(* parameters that are whole or cut short.                                 *)
(***************************************************************************)
EXTENDS ErrorCatalogue, Integers, SequencesExt

CONSTANTS MaxPrefix,      \* bound on the tokens before the marker of the data
          MissingErrors   \* errors of the contracts that the package does not list

ASSUME ErrorParsingAssumption == MaxPrefix \in Nat

VARIABLES raised,    \* what the contract reverted with
          message,   \* what the node says
          result     \* what ParseRevertFromError answers

vars == <<raised, message, result>>

----------------------------------------------------------------------------
(* Generated code *)

\* Defect: an enum gets the type of the other unsigned integers.
EnumsAsBig(solType) ==
    [uint256 |-> Big, address |-> Adr, uint8 |-> Big, string |-> Str, bool |-> Bool,
     bytes32 |-> Bytes][solType]

\* solTypeToGoType, for the types that occur: the type of a field, and the one its
\* decoder asserts.
SolTypeToGoType(solType) ==
    [uint256 |-> Big, address |-> Adr, uint8 |-> Byte, string |-> Str, bool |-> Bool,
     bytes32 |-> Bytes][solType]

\* Selector() and fields of a struct, parameters of a decoder, by the name of the error.
Struct(name)     == CHOOSE r \in ErrorTypes : r[1] = name
AbiTypes(name)   == (CHOOSE r \in ErrorDecoders : r[1] = name)[2]
Listed           == {r[1] : r \in ErrorTypes}

ASSUME MissingErrorsAreNotListed == MissingErrors \cap Listed = {}

\* processError: what the generator makes of the parameters of an error.
FieldTypes(name) == [i \in DOMAIN AbiTypes(name) |-> SolTypeToGoType(AbiTypes(name)[i])]

----------------------------------------------------------------------------
(* Decoding *)

\* What go-ethereum's arguments.Unpack makes of a parameter.
UnpackedType(solType) ==
    [uint256 |-> Big, address |-> Adr, uint8 |-> Byte, string |-> Str, bool |-> Bool,
     bytes32 |-> "[32]byte"][solType]

Result(kind, name) == [kind |-> kind, error |-> name]
NoResult == Result("none", "none")
Failed   == Result("failed", "none")

\* Defect: the error of Unpack is not looked at, and the fields stay zero.
DecodeAnyway(name, params) == Result("typed", name)

\* A decoder. An assertion about a type that does not hold panics. Without parameters
\* the data is not looked at.
Decode(name, params) ==
    IF AbiTypes(name) # <<>> /\ params # "whole" THEN Failed
    ELSE IF \E i \in DOMAIN AbiTypes(name) :
                 UnpackedType(AbiTypes(name)[i]) # SolTypeToGoType(AbiTypes(name)[i])
         THEN Result("panicked", name)
    ELSE Result("typed", name)

\* ParseRevert. Whatever follows the hex string is taken for parameters and is no hex.
ParseRevert(hexData) ==
    LET decoders == {r[2] : r \in {q \in DecoderMap : q[1] = hexData[1].selector}}
    IN IF hexData = <<>> \/ Len(hexData) > 1 \/ decoders = {} THEN Failed
       ELSE Decode(CHOOSE name \in decoders : TRUE, hexData[1].params)

\* Helpers: IsXxx asks whether an error has the type Xxx, the others ask the error itself.
IsError(name, err) == name \in IsHelpers /\ err = Result("typed", name)

GetErrorName(err)     == IF err.kind = "typed" THEN Struct(err.error)[1] ELSE "UnknownError"
GetErrorSelector(err) == IF err.kind = "typed" THEN Struct(err.error)[2] ELSE ""

----------------------------------------------------------------------------
(* Messages *)

Token(text)            == [text |-> text, selector |-> "none", params |-> "none"]
Hex(selector, params)  == [text |-> "0x", selector |-> selector, params |-> params]

\* "execution reverted:", "vm error=[" and "revert ".
Markers  == <<Token("execution_reverted"), Token("vm_error"), Token("revert")>>
Words    == Token("words")
OtherHex == Hex("other", "whole")     \* an address or a hash: its start is no selector

Index(errMsg, text)  == SelectInSeq(errMsg, LAMBDA token : token.text = text)
HexAt(errMsg, i)     == IF i \in DOMAIN errMsg /\ errMsg[i].text = "0x"
                        THEN <<errMsg[i]>> ELSE <<>>

\* The hex string right behind the first occurrence of a marker.
HexAfter(errMsg, marker) ==
    IF Index(errMsg, marker.text) = 0 THEN <<>>
    ELSE HexAt(errMsg, Index(errMsg, marker.text) + 1)

\* Defect: the hex string is looked for without regard to the markers.
FirstHex(errMsg) == <<HexAt(errMsg, Index(errMsg, "0x"))>>

\* Patterns 2 to 5, in the order they are tried.
Patterns(errMsg) ==
    [i \in 1 .. 3 |-> HexAfter(errMsg, Markers[i])] \o <<HexAt(errMsg, Index(errMsg, "0x"))>>

\* extractHexData. Pattern 1 takes the message whole.
ExtractHexData(errMsg) ==
    IF HexAt(errMsg, 1) # <<>> THEN errMsg
    ELSE LET found == SelectInSeq(Patterns(errMsg), LAMBDA hex : hex # <<>>)
         IN IF found = 0 THEN <<>> ELSE Patterns(errMsg)[found]

----------------------------------------------------------------------------
NoRevert == [name |-> "none", selector |-> "none", bare |-> TRUE]

Init ==
    /\ raised = NoRevert
    /\ message = <<>>
    /\ result = NoResult

\* A contract reverts with an error of the catalogue.
RevertWith(name) ==
    /\ raised = NoRevert
    /\ raised' = [name |-> name, selector |-> Struct(name)[2], bare |-> Struct(name)[3] = <<>>]
    /\ UNCHANGED <<message, result>>

\* Or with one that the package does not list.
RevertUnlisted(name) ==
    /\ raised = NoRevert
    /\ raised' = [name |-> name, selector |-> "missing", bare |-> FALSE]
    /\ UNCHANGED <<message, result>>

\* The node wraps the data, with or without a marker, and may cut it short.
Report ==
    /\ raised # NoRevert
    /\ message = <<>>
    /\ \E prefix \in UNION {[1 .. n -> {Words, OtherHex} \cup Range(Markers)] : n \in 0 .. MaxPrefix},
          marker \in {<<>>} \cup {<<Markers[i]>> : i \in DOMAIN Markers},
          params \in IF raised.bare THEN {"whole"} ELSE {"whole", "cut"},
          suffix \in {<<>>, <<Words>>, <<OtherHex>>} :
              message' = prefix \o marker \o <<Hex(raised.selector, params)>> \o suffix
    /\ UNCHANGED <<raised, result>>

ParseRevertFromError ==
    /\ message # <<>>
    /\ result = NoResult
    /\ result' = ParseRevert(ExtractHexData(message))
    /\ UNCHANGED <<raised, message>>

Next ==
    \/ \E name \in Listed : RevertWith(name)
    \/ \E name \in MissingErrors : RevertUnlisted(name)
    \/ Report \/ ParseRevertFromError

Spec == Init /\ [][Next]_vars

----------------------------------------------------------------------------
(* Properties *)

DataAt(msg) == CHOOSE i \in DOMAIN msg : msg[i].selector = raised.selector /\ raised # NoRevert

\* Revert data alone, or behind the marker of Geth or the FVM, with no second marker that
\* could be meant, in a message that does not start with another hex string.
Documented(msg) ==
    LET at == DataAt(msg)
        markers == {i \in DOMAIN msg : msg[i] \in {Markers[1], Markers[2]}}
    IN \/ Len(msg) = 1
       \/ /\ at > 1 /\ markers = {at - 1}
          /\ msg[1].text # "0x"

\* ParseRevertFromError promises to handle raw data and the formats of Geth and the FVM and
\* to return the decoded error (parser.go:62-67). Whatever else the message says, including
\* other hex strings and the word "revert", whole data of a listed error in one of these
\* formats comes back as that error. UUPSUnsupportedProxiableUUID is the one exception:
\* its decoder panics on its bytes32 whatever the data (decoders.go:2717).
DocumentedFormatsAreParsed ==
    (result # NoResult /\ raised.name \in Listed /\ Documented(message)
        /\ message[DataAt(message)].params = "whole"
        /\ raised.name # "UUPSUnsupportedProxiableUUID")
    => result = Result("typed", raised.name)

\* A typed error is the one that was raised, never one whose data did not arrive whole or
\* that the package does not list, and its name, its selector and the one Is function that
\* recognises it agree (errors.go, helpers.go). Every other outcome is an error that is
\* reported, except for the one parameter that is a bytes32: its decoder asserts []byte of a
\* [32]byte and panics (decoders.go:2717).
TypedErrorsAreTrue ==
    /\ result.kind = "typed" =>
           /\ GetErrorName(result) = raised.name
           /\ raised.bare \/ message[DataAt(message)].params = "whole"
           /\ GetErrorSelector(result) = raised.selector
           /\ Struct(result.error)[3] = FieldTypes(result.error)
           /\ {name \in IsHelpers : IsError(name, result)} = {raised.name}
    /\ result.kind = "panicked" => raised.name = "UUPSUnsupportedProxiableUUID"
=============================================================================
