------------------------------ MODULE JtagPort ------------------------------
(***************************************************************************)
(* What the target promises a debugger, without wires, clocks or states of *)
(* the TAP controller: an instruction selects a register, and a scan of a  *)
(* register is one atomic exchange, in which the debugger reads what the   *)
(* register holds and the target takes what the debugger sends.  For the   *)
(* debug module that exchange is the whole protocol: the scan that hands   *)
(* over a request reads the answer to the one before it.                   *)
(***************************************************************************)
EXTENDS DebugModule

CONSTANTS
    Idcode, Dtmcs,  \* the words of the two registers at power-on
    WideWords       \* words a debugger sends through those registers, at
                    \* least as long as they are

VARIABLES
    selected,    \* the register the instruction selects, or "none"
    id,          \* the identification register
    transcript   \* the debugger's scans, in order

portVars == <<dmVars, selected, id, transcript>>

PortInit ==
    /\ DmInit
    /\ selected = "id_code" /\ id = Idcode
    /\ transcript = << >>

Completes(exchange) == transcript' = Append(transcript, exchange)

\* A scan of n bits reads the first n of the register followed by what is
\* sent; a register it replaces keeps the rest.
ReadThrough(contents, sent) == SubSeq(contents \o sent, 1, Len(sent))
LeftBehind(contents, sent) ==
    SubSeq(contents \o sent, Len(sent) + 1, Len(sent) + Len(contents))

Select(register) ==
    /\ selected' = register
    /\ Completes([to |-> "ir", instruction |-> register])
    /\ UNCHANGED <<dmVars, id>>

\* An instruction scan of the wrong length selects who knows what.
SelectUnknown ==
    /\ selected' \in {"id_code", "dtmcs", "dmi", "none"}
    /\ Completes([to |-> "ir", instruction |-> "unknown"])
    /\ UNCHANGED <<dmVars, id>>

Reset ==
    /\ selected' = "id_code"
    /\ UNCHANGED <<dmVars, id, transcript>>

\* The identification register is as writable as any other.
ScanIdcode(sent) ==
    /\ selected = "id_code"
    /\ Completes([to |-> "id_code", sent |-> sent,
                   read |-> ReadThrough(id, sent)])
    /\ id' = LeftBehind(id, sent)
    /\ UNCHANGED <<dmVars, selected>>

\* Writing dtmcs has no effect.
ScanDtmcs(sent) ==
    /\ selected = "dtmcs"
    /\ Completes([to |-> "dtmcs", sent |-> sent,
                   read |-> ReadThrough(Dtmcs, sent)])
    /\ UNCHANGED <<dmVars, selected, id>>

Transact(s) ==
    /\ selected = "dmi"
    /\ Completes([to |-> "dmi", request |-> s,
                   reply |-> dmi_container_register])
    /\ UpdateDmi(s)
    /\ UNCHANGED <<selected, id>>

PortNext ==
    \/ \E register \in {"id_code", "dtmcs", "dmi"} : Select(register)
    \/ SelectUnknown
    \/ Reset
    \/ \E sent \in WideWords : ScanIdcode(sent) \/ ScanDtmcs(sent)
    \/ \E s \in Scans : Transact(s)

PortSpec == PortInit /\ [][PortNext]_portVars

-----------------------------------------------------------------------------
\* The dmi scans of the transcript are the transactions of the debug module.
IsTransaction(i) == i \in DOMAIN transcript /\ transcript[i].to = "dmi"

\* Another transaction between two of them that may change data register a.
Disturbed(i, j, a) ==
    \E k \in (i + 1)..(j - 1) :
        /\ IsTransaction(k)
        /\ \/ transcript[k].request.address = COMMAND
           \/ Writes(transcript[k].request, a)

\* A data register written by transaction i and read by a later one j has the
\* written word in the answer of success that the next one, f, fetches:
\* resets, other instructions and other requests may come between, but no
\* second write and no command.
ReadsBack ==
    \A i, j, f \in DOMAIN transcript :
        /\ i < j /\ j < f
        /\ IsTransaction(i) /\ IsTransaction(j) /\ IsTransaction(f)
        /\ ~ \E k \in (j + 1)..(f - 1) : IsTransaction(k)
        => \A a \in DataRegister :
              /\ Writes(transcript[i].request, a)
              /\ Reads(transcript[j].request, a)
              /\ ~ Disturbed(i, j, a)
              => transcript[f].reply
                   = [address |-> a, data |-> transcript[i].request.data,
                      op |-> 0]

=============================================================================
