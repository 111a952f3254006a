--------------------------- MODULE SectorRequests ---------------------------
(***************************************************************************)
(* The requests that the FAT library and ioctl FLUSH make of the NOR       *)
(* driver: numSectors sectors from sector on, and a flush of everything.   *)
(* A write carries one value for all its sectors.                          *)
(***************************************************************************)
EXTENDS Integers

NoRequest == [kind |-> "none"]
FlushRequest == [kind |-> "flush"]
ReadRequest(s, n)     == [kind |-> "read",  sector |-> s, num |-> n]
WriteRequest(s, n, v) == [kind |-> "write", sector |-> s, num |-> n, val |-> v]

\* What remains of r when its first n sectors are done.
Rest(r, n) ==
    IF n = r.num THEN NoRequest
    ELSE [r EXCEPT !.sector = r.sector + n, !.num = r.num - n]
=============================================================================
