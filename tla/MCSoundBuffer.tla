--------------------------- MODULE MCSoundBuffer ---------------------------
(* Instances of SoundBuffer for TLC: three buffers of two frames each.     *)
EXTENDS SoundBuffer

(* No output, one frame (m_mult = m_div) or a whole buffer in one call.    *)
MCFrameCounts == 0..2

=============================================================================
