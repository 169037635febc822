--------------------------- MODULE MCImagePuller ----------------------------
(***************************************************************************)
(* An instance of ImagePuller for TLC: a tag and a pinned reference, an    *)
(* image whose index and platform digests differ and one where they do     *)
(* not.                                                                    *)
(***************************************************************************)
EXTENDS ImagePuller, TLC

CONSTANTS multi, single

MCImages == {multi, single}
MCIndex == multi :> "index" @@ single :> "manifest"
MCPlatform == multi :> "platform" @@ single :> "manifest"

=============================================================================
