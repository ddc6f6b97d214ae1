-------------------------------- MODULE Images --------------------------------
(***************************************************************************)
(* The raw images that the user may attach, and what they are made of.     *)
(***************************************************************************)
CONSTANTS
    Image, NoImage,     \* image files the user may attach
    Size,               \* their sectors
    Writable,           \* those that fopen opens "r+b"
    SectorWords,        \* words of a sector
    CountMod,           \* sectors that a count of 0 asks for
    Word, Zero          \* the words
===============================================================================
