-------------------------------- MODULE Rope --------------------------------
(***************************************************************************)
(* compute_llama3_inv_freq of nanoserve/model/rope.py, for one dimension   *)
(* with wavelength w.  Frequencies are fractions <<numerator, denominator>>*)
(* of whole wavelengths; a common factor of 2 * pi is left out.            *)
(***************************************************************************)
EXTENDS Integers

\* c has the rope fields of the ModelConfig.
InvFreq(w) == <<1, w>>
Divided(c, w) == <<1, c.rope_scaling_factor * w>>

\* The wavelength is beyond original_max_pos / low_freq_factor, or below
\* original_max_pos / high_freq_factor.
IsLong(c, w) == w * c.rope_low_freq_factor > c.rope_original_max_pos
IsShort(c, w) == w * c.rope_high_freq_factor < c.rope_original_max_pos

\* (1 - smooth) * inv_freq / factor + smooth * inv_freq, where smooth is
\* above(w) / (w * band), on a common denominator.
Blend(c, w, plain, divided) ==
  <<c.rope_scaling_factor * plain + divided,
    c.rope_scaling_factor * w * w * (c.rope_high_freq_factor - c.rope_low_freq_factor)>>

Above(c, w) == c.rope_original_max_pos - c.rope_low_freq_factor * w
Below(c, w) == c.rope_high_freq_factor * w - c.rope_original_max_pos

\* Defect: smooth and 1 - smooth are exchanged.
SmoothedBackwards(c, w) == Blend(c, w, Below(c, w), Above(c, w))
Smoothed(c, w) == Blend(c, w, Above(c, w), Below(c, w))

ScaledInvFreq(c, w) ==
  IF IsLong(c, w) THEN Divided(c, w)
  ELSE IF IsShort(c, w) THEN InvFreq(w)
  ELSE Smoothed(c, w)

SlowerThan(f, g) == f[1] * g[2] < g[1] * f[2]
NoFasterThan(f, g) == f[1] * g[2] <= g[1] * f[2]

=============================================================================
