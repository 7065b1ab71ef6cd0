---------------------------- MODULE MCCatalogue ----------------------------
EXTENDS Catalogue

CONSTANTS p, q

TwoTypes == [base |-> <<1, 2>>, own |-> <<<<2, 1>>, <<0, 2>>>>,
             at |-> <<{1, 2}, {1}>>, odd |-> {}]
=============================================================================
