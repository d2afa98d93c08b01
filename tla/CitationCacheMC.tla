-------------------------- MODULE CitationCacheMC --------------------------
(* One process of each kind over one file, with two citations.               *)
EXTENDS CitationCache

CONSTANTS cli, web, pipe

OneOfEach == [p \in Process |->
                CASE p = cli -> "cli" [] p = web -> "web" [] OTHER -> "pipeline"]
=============================================================================
