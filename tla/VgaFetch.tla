------------------------------ MODULE VgaFetch ------------------------------
(***************************************************************************)
(* The memory side of vga_controller.sv: it fetches the picture in blocks, *)
(* asks for the next block when the display has used one up, and drops     *)
(* what it is fetching when the display leaves the visible lines.  When    *)
(* the display asks is another clock domain's business: nondeterministic.  *)
(* Pixels and characters take turns; one of them is modelled.  That the    *)
(* counters return to 0 for a new frame is a new block here: by then the   *)
(* last block of the frame before has long been fetched.                   *)
(***************************************************************************)
EXTENDS Naturals

CONSTANTS VgaBlock,    \* words of a block: 128 of pixels, 107 of characters
          VgaBase,     \* address of the block
          VgaUse       \* what the display does: a subset of
                       \* {"fetch", "withdraw"}

VARIABLES vga_request, vga_last4,   \* registers that drive mem_bus
          vga_left                  \* words of the block still to come

vgaVars == <<vga_request, vga_last4, vga_left>>

vga_address == VgaBase + VgaBlock - vga_left

VgaInit == vga_request = FALSE /\ vga_last4 = FALSE /\ vga_left = 0

\* The registered outputs follow the number of words still wanted; last4 is
\* raised when six are left, of which one arrives in the clock it is seen.
Drive(left) == /\ vga_left' = left
               /\ vga_request' = (left # 0)
               /\ vga_last4' = (left = 6)

VgaContinue(ready) == Drive(IF ready THEN vga_left - 1 ELSE vga_left)

VgaBegin == "fetch" \in VgaUse /\ vga_left = 0 /\ Drive(VgaBlock)

VgaWithdraw == "withdraw" \in VgaUse /\ vga_left # 0 /\ Drive(0)

VgaClock(ready) == VgaContinue(ready) \/ VgaBegin \/ VgaWithdraw
=============================================================================
