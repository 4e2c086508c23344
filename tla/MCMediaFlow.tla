----------------------------- MODULE MCMediaFlow -----------------------------
EXTENDS MediaFlow

M(pairs) == [k \in Keys |-> IF \E p \in pairs : p[1] = k
                            THEN (CHOOSE p \in pairs : p[1] = k)[2] ELSE Missing]
C(i, o, e, t) == [in |-> i, out |-> o, effect |-> e, tags |-> t]
D(c, i, o) == [urn |-> c, inSeq |-> i, outSeq |-> o, isAbstract |-> FALSE]

pdf == M({<<"ext", "pdf">>})
png == M({<<"ext", "png">>, <<"image", AnyValue>>})
wide == M({<<"ext", "png">>, <<"image", AnyValue>>, <<"wide", AnyValue>>})
image == M({<<"image", AnyValue>>})
wideImage == M({<<"image", AnyValue>>, <<"wide", AnyValue>>})
widePdf == M({<<"ext", "pdf">>, <<"wide", AnyValue>>})
widePdfImage == M({<<"ext", "pdf">>, <<"image", AnyValue>>, <<"wide", AnyValue>>})
pdfImage == M({<<"ext", "pdf">>, <<"image", AnyValue>>})
someExt == M({<<"ext", AnyValue>>})

render == C(pdf, png, "declared", Top)        \* pdf pages become images
renderWide == C(pdf, wide, "declared", Top)   \* a refinement of render
thin == C(Top, Top, "none", M({<<"wide", AnyValue>>}))  \* a passthrough of any sequence
print == C(png, pdfImage, "patch", Top)       \* only the extension changes
crop == C(wideImage, png, "declared", Top)
view == C(png, image, "none", Top)            \* promises less than it keeps
loose == C(Top, wide, "declared", M({<<"wide", AnyValue>>}))  \* could render too
ocr == C(pdf, someExt, "declared", Top)
looseOcr == C(Top, someExt, "declared", M({<<"wide", AnyValue>>}))
pages == C(pdf, image, "declared", M({<<"wide", "pdf">>}))

defs == {D(render, FALSE, TRUE), D(renderWide, FALSE, FALSE), D(thin, TRUE, TRUE),
         D(print, FALSE, FALSE), D(crop, FALSE, FALSE), D(ocr, FALSE, FALSE),
         D(view, FALSE, FALSE), D(pages, TRUE, FALSE),
         D(Identity, FALSE, FALSE), [D(looseOcr, FALSE, FALSE) EXCEPT !.isAbstract = TRUE]}

E(c, h, t) == [cap |-> c, host |-> h, cartridge |-> t]
arranged == <<E(looseOcr, 1, 1), E(loose, 1, 1), E(view, 1, 2),
              E(renderWide, 1, 1), E(Identity, 1, 1), E(pages, 1, 2),
              E(ocr, 1, 2), E(crop, 1, 2), E(thin, 2, 1), E(print, 2, 1), E(render, 2, 1)>>
tables == {arranged, Reverse(arranged)}
bindings == {{m} : m \in {pdf, png, wide, widePdf}} \cup {{pdf, widePdf}, {pdf, png}, {png, wide}}
targets == {pdf, png, wide, image, widePdf, widePdfImage, pdfImage, someExt}
=============================================================================
