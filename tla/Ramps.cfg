\* A circle of even length, with the point opposite; steps that do not divide
\* it; a tolerance that ignores the smallest difference.
SPECIFICATION RFairSpec
CONSTANTS Last = 16 Step = 3 Tol = 2
INVARIANTS RTypeOK
PROPERTIES Approaches Smooth Settles
