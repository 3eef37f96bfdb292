--------------------------- MODULE MC_BootDevice ----------------------------
(***************************************************************************)
(* Instances of BootDevice: six RAM cells (plain, header, publish, code,   *)
(* data, plain), one good service and one whose header is of another ABI.  *)
(***************************************************************************)
EXTENDS BootDevice

CONSTANTS good, old, code, entry

OneHeader == {good}
TwoHeaders == {good, old}
OneCode == {code}

HeaderVerdict == [h \in Headers |-> IF h = old THEN "UNSUPPORTED_PROTOCOL" ELSE "OK"]
HeaderCodeEnd == [h \in Headers |-> DataStart]
HeaderCode == [h \in Headers |-> code]
HeaderInit == [h \in Headers |-> "OK"]
ImageEntry == [i \in Images |-> entry]

=============================================================================
