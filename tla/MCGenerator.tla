----------------------------- MODULE MCGenerator -----------------------------
(***************************************************************************)
(* Instance of Generator: the first, provisional call of main, and calls   *)
(* with addresses at the limits.                                           *)
(***************************************************************************)
EXTENDS Generator

MCNames ==
  {"EOF_MARKER", "ZP_TEMP", "ADDR_BASE", "ADDR_DEST_LO", "ADDR_DEST_AND_FF00",
   "ADDR_DEST_END_LO", "ADDR_DEST_END_HI", "ADDR_TABLE_ARGTABLE", "copyloop",
   "mainloop", "noeof", "copy", "read_and_output", "no_inc", "smc_out", "go_rts",
   "table_of_tables"} \cup {LoName[n] : n \in 1 .. 6} \cup {HiName[n] : n \in 1 .. 6}

MCProvisional ==
  {[eof_marker |-> eof, zpaddr |-> 251, program_base |-> 4096,
    destination |-> 65535, destination_end |-> 65535, table_argtable |-> 65535,
    tables |-> <<65535, 65535, 65535, 65535, 65535, 65535>>] :
      eof \in {0, 1, 255, 256}}

MCFinal ==
  {[eof_marker |-> eof, zpaddr |-> 244, program_base |-> base,
    destination |-> 2049, destination_end |-> destination_end,
    table_argtable |-> argtable,
    tables |-> <<512, 767, 65535, 65536, 0, 258>>] :
      eof \in {0, 255, 256}, base \in {1024, 65470, 65471, 65479, 65480},
      destination_end \in {4097, 65535, 65536}, argtable \in {-1, 0, 65535, 65536}}

MCCalls == MCProvisional \cup MCFinal

NoFiles == [n \in {} |-> <<>>]
=============================================================================
