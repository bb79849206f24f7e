----------------------------- MODULE Permission -----------------------------
(***************************************************************************)
(* vfs.Permission of src/permission.go: an os.OpenFile flag word split    *)
(* into its primary access mode (the two low bits) and the remaining      *)
(* flags, and rendered by String() as "rw-", "r--" or "-w-" followed by   *)
(* one letter per flag.  The flag constants are Go's os.O_* values on    *)
(* linux/amd64, given in the configuration.  A caller builds a flag word *)
(* by OR-ing flags into it; after every step str holds String() of it,   *)
(* or "panic" where String() panics.                                     *)
(***************************************************************************)
EXTENDS Integers, Sequences, Bitwise

CONSTANTS O_RDONLY, O_WRONLY, O_RDWR, O_APPEND, O_CREATE, O_EXCL, O_SYNC,
          O_TRUNC,
          Inputs      \* the flags a caller may OR into the word

VARIABLES pe,   \* the Permission value
          str   \* pe.String(), or "panic"

vars == <<pe, str>>

(* the PRIM constant of PrimaryMode *)
PRIM == 3

PrimaryMode(p) == p & PRIM

(* "a" when p&f != 0, else "" *)
Letter(p, f, l) == IF p & f # 0 THEN l ELSE ""

(* String with the O_EXCL test copied from the O_CREATE line *)
String_excl(p) ==
    LET primary == PrimaryMode(p)
    IN  IF primary \notin {O_RDWR, O_RDONLY, O_WRONLY} THEN "panic"
        ELSE (CASE primary = O_RDWR   -> "rw-"
                [] primary = O_RDONLY -> "r--"
                [] primary = O_WRONLY -> "-w-")
             \o Letter(p, O_APPEND, "a") \o Letter(p, O_CREATE, "c")
             \o Letter(p, O_CREATE, "e") \o Letter(p, O_SYNC, "s")
             \o Letter(p, O_TRUNC, "t")

String(p) ==
    LET primary == PrimaryMode(p)
    IN  IF primary \notin {O_RDWR, O_RDONLY, O_WRONLY} THEN "panic"
        ELSE (CASE primary = O_RDWR   -> "rw-"
                [] primary = O_RDONLY -> "r--"
                [] primary = O_WRONLY -> "-w-")
             \o Letter(p, O_APPEND, "a") \o Letter(p, O_CREATE, "c")
             \o Letter(p, O_EXCL, "e") \o Letter(p, O_SYNC, "s")
             \o Letter(p, O_TRUNC, "t")

Init == pe = O_RDONLY /\ str = String(O_RDONLY)

(* Permission(pe | f) *)
AddFlag(f) == pe' = pe | f /\ str' = String(pe | f)

Next == \E f \in Inputs : AddFlag(f)

Spec == Init /\ [][Next]_vars

-----------------------------------------------------------------------------
(* The rendering the tests of permission_test.go and the doc comments   *)
(* describe: the primary mode, then a letter for every flag that is set *)
(* in full (vfs.HasModeFlag), in the order a, c, e, s, t.               *)
HasModeFlag(flag, flags) == flags & flag = flag
RefLetter(p, f, l) == IF HasModeFlag(f, p) THEN l ELSE ""
RefString(p) ==
    (CASE PrimaryMode(p) = O_RDWR   -> "rw-"
       [] PrimaryMode(p) = O_RDONLY -> "r--"
       [] PrimaryMode(p) = O_WRONLY -> "-w-")
    \o RefLetter(p, O_APPEND, "a") \o RefLetter(p, O_CREATE, "c")
    \o RefLetter(p, O_EXCL, "e") \o RefLetter(p, O_SYNC, "s")
    \o RefLetter(p, O_TRUNC, "t")

(* String() of a word with a valid primary mode names exactly the flags *)
(* set in it.  String tests each flag with p&flag != 0, which for the    *)
(* multi-bit os.O_SYNC also fires on O_DSYNC alone.                      *)
StringNamesSetFlags ==
    PrimaryMode(pe) \in {O_RDWR, O_RDONLY, O_WRONLY} => str = RefString(pe)
=============================================================================
